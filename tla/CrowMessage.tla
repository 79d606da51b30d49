----------------------------- MODULE CrowMessage -----------------------------
(***************************************************************************)
(* parser.h: HTTPParser, the object the callbacks of http_parser_execute   *)
(* fill.  A callback gets a piece of an item: the item may have been cut   *)
(* by the end of a read.  building says what the last piece was, a name    *)
(* (1) or a value (0).                                                     *)
(***************************************************************************)
EXTENDS CrowBytes

Cleared == [raw_url |-> <<>>, building |-> 0, field |-> <<>>, value |-> <<>>,
            headers |-> <<>>, body |-> <<>>]

OnUrl(m, piece) == [m EXCEPT !.raw_url = @ \o piece]

\* The first piece of a name stores the header before it, unless its value is
\* empty.
OnHeaderField(m, piece) ==
  IF m.building = 1 THEN [m EXCEPT !.field = @ \o piece]
  ELSE [m EXCEPT !.headers = IF m.value = <<>> THEN @ ELSE Append(@, <<m.field, m.value>>),
                 !.value = <<>>, !.field = piece, !.building = 1]

OnHeaderValue(m, piece) ==
  IF m.building = 0 THEN [m EXCEPT !.value = @ \o piece]
  ELSE [m EXCEPT !.value = piece, !.building = 0]

\* The last header is stored whatever its value.
OnHeadersComplete(m) ==
  IF m.field = <<>> THEN m
  ELSE [m EXCEPT !.headers = Append(@, <<m.field, m.value>>), !.field = <<>>, !.value = <<>>]

OnBody(m, piece) == [m EXCEPT !.body = @ \o piece]

\* strcspn: what comes before the first byte of stops.
Before(s, stops) ==
  IF \E i \in DOMAIN s : s[i] \in stops
  THEN SubSeq(s, 1, (CHOOSE i \in DOMAIN s : /\ s[i] \in stops
                                             /\ \A j \in 1 .. i - 1 : s[j] \notin stops) - 1)
  ELSE s

\* on_message_complete: what the connection is handed.
Request(m, parser) ==
  [method |-> parser.method, url |-> Before(m.raw_url, {"?"}), raw_url |-> m.raw_url,
   headers |-> m.headers, body |-> m.body]
=============================================================================
