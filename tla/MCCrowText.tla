------------------------------ MODULE MCCrowText ------------------------------
(***************************************************************************)
(* Instances of the text handling of Crow: connections that carry requests *)
(* (part "requests"), connections that carry a request with one byte wrong *)
(* (part "wild"), and programs that list rules (part "routes").            *)
(***************************************************************************)
EXTENDS CrowParser, CrowQuery, CrowRouter, CrowWire, TLC

VARIABLES
  part,   \* which of the three this behaviour is
  sent    \* the requests that input was written from

(***************************************************************************)
(* Requests.                                                               *)
(***************************************************************************)
Eol == <<CR, LF>>
Plain == [method |-> GET, path |-> <<"/">>, query |-> <<>>, fragment |-> <<>>, minor |-> 1,
          eol |-> Eol, headers |-> <<>>, framing |-> "none", body |-> <<>>]
Posted == [Plain EXCEPT !.method = POST, !.framing = "length", !.body = <<"x", "y", CR>>]
Chunks == [Plain EXCEPT !.method = POST, !.framing = "chunked",
              !.headers = <<Header(<<"A">>, <<"b">>)>>, !.body = << <<"x">>, <<"y", "z">> >>]
Headed == [Plain EXCEPT !.headers =
             <<Header(<<"A">>, <<>>), Header(<<"B", "c">>, <<"d", SP, "e">>),
               Folded(<<"C", "o", "n">>, <<"f">>, <<"g">>), Header(<<"H">>, <<>>)>>]
Closing == [Plain EXCEPT !.headers =
              <<Header(<<"C">> \o SubSeq(CONNECTION, 2, 10), <<"C">> \o SubSeq(CLOSE, 2, 5))>>]
Proxied == [Plain EXCEPT !.path = <<"h", ":", "/", "/", "a", "@", "b", "/">>, !.minor = 0,
                         !.fragment = <<"#", "#", "c">>]
Kept == [Plain EXCEPT !.minor = 0, !.eol = <<LF>>, !.headers = <<Header(CONNECTION, KEEP_ALIVE)>>]
Tunnel == [Plain EXCEPT !.method = CONNECT, !.path = <<"a", ":", "8">>]
Upgrading == [Plain EXCEPT !.headers = <<Header(UPGRADE, <<"w">>)>>]
Large == [Plain EXCEPT !.headers = <<Header(<<"L">>, [i \in 1 .. 60 |-> "l"])>>]
Asking(query) == [Plain EXCEPT !.query = query]

Names == {<<"a">>, <<"b">>, <<"a", "=">>}
Queries == { << <<(<<"a">>), <<"1", SP, "&">> >>, <<(<<"b">>), <<>> >>, <<(<<"a">>), <<"2">> >> >>,
             << <<(<<"a", "=">>), <<"=", "+">> >>, <<(<<"a">>), <<"3">> >> >>,
             << <<(<<"a", "[", "]">>), <<"1">> >>, <<(<<"a", "[", "]">>), <<"2">> >>,
                <<(<<"b", "[", "k", "]">>), <<"3">> >>, <<(<<"b", "[", "k", "]">>), <<"4">> >> >> }

Sends == { <<Posted, Plain>>, <<Chunks, Plain>>, <<Headed>>, <<Closing, Plain>>,
           <<Proxied, Plain>>, <<Kept, Plain>>, <<Tunnel>>, <<Upgrading>> }
         \cup { <<[Plain EXCEPT !.method = m]>> : m \in Methods \ {CONNECT} }
         \cup { <<Asking(q)>> : q \in Queries }

\* One byte is another one.
WrongBytes == {SP, CR, LF, NUL, "/", ":", "0", "c"}
Wild == UNION { {[s EXCEPT ![i] = b] : i \in DOMAIN s, b \in WrongBytes} :
                  s \in {Wire(Posted), Wire(Chunks), Wire(Closing)} }
        \cup {Wire(Large), SubSeq(Wire(Chunks), 1, Len(Wire(Chunks)) - 17) \o <<"6", "4", CR, LF, "x">>}

(***************************************************************************)
(* Rules.                                                                  *)
(***************************************************************************)
Rule(path) == [path |-> path, methods |-> {GET}, socket |-> FALSE, throws |-> FALSE]
MCCatalogue ==
  {Rule(<<"/">>), Rule(<<"/", "a">>), Rule(<<"/", "a", "/">>), Rule(<<"/", "a", "1">>),
   Rule(<<"/", "<int>">>), Rule(<<"/", "<uint>">>), Rule(<<"/", "<float>">>), Rule(<<"/", "<str>">>),
   Rule(<<"/", "a", "/", "<path>">>), Rule(<<"/", "<str>", "/">>),
   [Rule(<<"/", "1">>) EXCEPT !.methods = {GET, POST}, !.throws = TRUE],
   [Rule(<<"/", "a">>) EXCEPT !.methods = {POST}, !.socket = TRUE]}
Urls == { <<"/">> \o u : u \in UNION {[1 .. n -> {"/", "a", "1", "-"}] : n \in 0 .. 3} }

(***************************************************************************)
(* The specification.                                                      *)
(***************************************************************************)
MCStreams == {WireAll(s) : s \in Sends} \cup Wild \cup {<<>>}

MCInit ==
  /\ RouterInit /\ ParserInit
  /\ \/ part = "requests" /\ sent \in {s \in Sends : WireAll(s) = input}
     \/ part = "wild" /\ sent = <<>> /\ input \in Wild
     \/ part = "routes" /\ sent = <<>> /\ input = <<>>

MCNext ==
  \/ part # "routes" /\ Next /\ (part = "wild" => end' \in {end, pos + 1, Len(input)})
     /\ UNCHANGED <<part, sent, rvars>>
  \/ part = "routes" /\ RouterNext /\ UNCHANGED <<part, sent, vars>>

MCSpec == MCInit /\ [][MCNext]_<<part, sent, vars, rvars>>

\* However the bytes of the requests are cut into reads, the connection is handed
\* the requests that were sent, each with its URL, headers and body, in their order, up to
\* the one that ends the connection (parser.h:22-88, http_parser_merged.h:934-977).
RoundTrip ==
  part = "requests" =>
    /\ IsPrefix(handled, Seen(sent))
    /\ status = "idle" /\ pos = Len(input) => handled = Seen(sent)

\* A handler that asks for a name, spelled as in a URL, gets what the client put there:
\* the first value, the values of name[], the keys of name[key], all of them decoded, with
\* escaped delimiters and empty values among them; no query sent has more pairs than
\* there are slots (query_string.h:51-96, 99-242, 364-400).
QueriesMeant ==
  part = "requests" =>
    \A i \in DOMAIN handled : \A name \in Names :
      LET ps == Parse(handled[i].raw_url)
          query == sent[i].query
          values == ValuesOf(query, name)
          isDict == \E j \in DOMAIN query :
                      Len(query[j][1]) > 1 /\ query[j][1][2] = "[" /\ query[j][1][1] = name[1]
      IN /\ Fits(handled[i].raw_url)
         /\ Get(ps, EscapedText(name)) = SubSeq(values, 1, IF values = <<>> THEN 0 ELSE 1)
         /\ GetList(ps, EscapedText(name)) = ValuesOf(query, name \o <<"[", "]">>)
         /\ isDict => GetDict(ps, name) = DictOf(query, name)

\* The tries, merged as they are, answer every request like the list of rules read from
\* the first to the last: the first rule that matches, unless the URL lacks only the
\* slash of a rule; and a program each of whose rules has a handler, as those here, starts
\* unless two rules claim one path (routing.h:588-767, 769-824, 917-960).
RoutesAgree ==
  /\ phase = "failed" => Conflict
  /\ phase = "serving" =>
       /\ ~Conflict
       /\ \A m \in {GET, POST, COPY} : \A url \in Urls : \A upgrading \in BOOLEAN :
            Answer(m, url, upgrading) = Promised(m, url, upgrading)
=============================================================================
