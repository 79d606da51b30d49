------------------------------ MODULE CrowParser ------------------------------
(***************************************************************************)
(* http_parser_merged.h: http_parser_execute for requests, byte by byte,   *)
(* and HTTPParser::feed, which calls it with what one read returned.       *)
(*                                                                         *)
(* An action is one case of the switch, taken for the byte Byte.  A case   *)
(* either consumes its byte or goes to reexecute_byte in another state     *)
(* (again).  The marks of the function, where an item of the current read  *)
(* begins, are marks: 0 is NULL.  They are local: at the end of a read the *)
(* callbacks are run for what is marked, and the next read marks the item  *)
(* it finds itself in.                                                     *)
(*                                                                         *)
(* http_parser_init(HTTP_REQUEST) is the only use Crow makes of the        *)
(* parser, so the cases of a response are left out.                        *)
(***************************************************************************)
EXTENDS CrowMessage

CONSTANTS
  Streams,     \* what a client may send on its connection: sequences of bytes
  MaxHeader,   \* CROW_HTTP_MAX_HEADER_SIZE
  Unset        \* CROW_ULLONG_MAX: no length, and the limit of a length

ASSUME StreamsAssumption == Streams \subseteq Seq(STRING)
ASSUME LimitsAssumption == MaxHeader \in Nat /\ Unset \in Nat /\ Unset > 32

VARIABLES
  input,    \* the bytes the client sends on this connection
  pos,      \* how many have been consumed
  end,      \* where the current read ends
  status,   \* "idle" between reads, "reading", "closed" when feed returned false
  again,    \* the byte is being looked at once more
  parser,   \* struct http_parser
  marks,    \* header_field_mark, header_value_mark, url_mark, body_mark
  message,  \* HTTPParser
  handled   \* the requests the connection was handed

vars == <<input, pos, end, status, again, parser, marks, message, handled>>

Items == {"header_field", "header_value", "url", "body"}
NoMarks == [i \in Items |-> 0]

\* http_parser_init.
NewParser ==
  [state |-> "s_start_req", flags |-> {}, nread |-> 0, content_length |-> 0,
   major |-> 0, minor |-> 0, method |-> DELETE, index |-> 0, header_state |-> "h_general",
   errno |-> "OK", upgrade |-> FALSE]

ParserInit ==
  /\ input \in Streams /\ pos = 0 /\ end = 0 /\ status = "idle" /\ again = FALSE
  /\ parser = NewParser /\ marks = NoMarks /\ message = Cleared /\ handled = <<>>

(***************************************************************************)
(* http_should_keep_alive, CROW_NEW_MESSAGE, CROW_PARSING_HEADER.          *)
(***************************************************************************)
ShouldKeepAlive(q) ==
  IF q.major > 0 /\ q.minor > 0 THEN "CLOSE" \notin q.flags ELSE "KEEP_ALIVE" \in q.flags

NewMessage(q) == IF ShouldKeepAlive(q) THEN "s_start_req" ELSE "s_dead"

BodyStates == {"s_chunk_data", "s_chunk_data_almost_done", "s_chunk_data_done",
               "s_body_identity", "s_message_done"}
ParsingHeader(s) == s \notin BodyStates

UrlStartStates == {"s_req_schema", "s_req_schema_slash", "s_req_schema_slash_slash",
                   "s_req_server_start"}
UrlStates == {"s_req_server", "s_req_server_with_at", "s_req_path",
              "s_req_query_string_start", "s_req_query_string",
              "s_req_fragment_start", "s_req_fragment"}

(***************************************************************************)
(* The frame of the loop.                                                  *)
(***************************************************************************)
Byte == input[pos + 1]
Counted == IF again \/ ~ParsingHeader(parser.state) THEN parser
           ELSE [parser EXCEPT !.nread = @ + 1]

\* The case for one of these states is reached.
Case(states) == /\ status = "reading" /\ pos < end
                /\ parser.state \in states /\ Counted.nread <= MaxHeader

Piece(item, last) == SubSeq(input, marks[item], last)
Marked(item) == [marks EXCEPT ![item] = IF @ = 0 THEN pos + 1 ELSE @]
\* Mutant of Unmarked: the mark of an item that was called back stays.
UnmarkedNot(item) == marks
Unmarked(item) == [marks EXCEPT ![item] = 0]

\* break: on to the next byte.
Consume(q) == /\ parser' = q /\ pos' = pos + 1 /\ again' = FALSE
              /\ UNCHANGED <<input, end, status>>
\* goto reexecute_byte.
Reexecute(q) == /\ parser' = q /\ again' = TRUE /\ UNCHANGED <<input, pos, end, status>>
\* goto error: fewer bytes are parsed than there were, and feed returns false.
Fail(e) == /\ parser' = [Counted EXCEPT !.errno = e]
           /\ status' = "closed" /\ marks' = NoMarks
           /\ UNCHANGED <<input, pos, end, again, message, handled>>
Quiet == UNCHANGED <<marks, message, handled>>
Goto(s) == Consume([Counted EXCEPT !.state = s]) /\ Quiet

\* CROW_CALLBACK_DATA(item): the piece ends before this byte.
CallBack(item) ==
  /\ marks' = Unmarked(item)
  /\ message' = IF marks[item] = 0 THEN message
                ELSE CASE item = "url" -> OnUrl(message, Piece(item, pos))
                       [] item = "header_field" -> OnHeaderField(message, Piece(item, pos))
                       [] item = "header_value" -> OnHeaderValue(message, Piece(item, pos))
                       [] item = "body" -> OnBody(message, Piece(item, pos))
  /\ UNCHANGED handled

\* CROW_CALLBACK_NOTIFY(message_complete).
Complete(q) == /\ handled' = Append(handled, Request(message, q)) /\ UNCHANGED <<marks, message>>

\* ++nread goes over the limit.
HeaderOverflow ==
  /\ status = "reading" /\ pos < end /\ Counted.nread > MaxHeader
  /\ Fail("HEADER_OVERFLOW")

(***************************************************************************)
(* The request line.                                                       *)
(***************************************************************************)
DeadCase == /\ Case({"s_dead"})
            /\ IF Byte \in {CR, LF} THEN Goto("s_dead") ELSE Fail("CLOSED_CONNECTION")

StartReq ==
  /\ Case({"s_start_req"})
  /\ \/ Byte \in {CR, LF} /\ Goto("s_start_req")
     \/ \E m \in FirstMethods :
          /\ Byte = m[1]
          /\ Consume([Counted EXCEPT !.flags = {}, !.content_length = Unset, !.method = m,
                                     !.index = 1, !.state = "s_req_method"])
          /\ message' = Cleared          \* on_message_begin
          /\ UNCHANGED <<marks, handled>>
     \/ Byte \notin {CR, LF} /\ (\A m \in FirstMethods : Byte # m[1]) /\ Fail("INVALID_METHOD")

ReqMethod ==
  LET m == parser.method
      i == parser.index
      matches == i < Len(m) /\ Byte = m[i + 1]
      switches == {x \in MethodSwitches : x[1] = m /\ x[2] = i /\ x[3] = Byte}
      next == [Counted EXCEPT !.index = i + 1]
  IN /\ Case({"s_req_method"})
     /\ IF Byte = SP /\ i = Len(m)
        THEN Consume([next EXCEPT !.state = "s_req_spaces_before_url"]) /\ Quiet
        ELSE IF matches THEN Consume(next) /\ Quiet
        ELSE IF switches = {} THEN Fail("INVALID_METHOD")
        ELSE \E x \in switches : Consume([next EXCEPT !.method = x[4]]) /\ Quiet

SpacesBeforeUrl ==
  LET from == IF parser.method = CONNECT THEN "s_req_server_start" ELSE parser.state
      to == ParseUrlChar(from, Byte)
  IN /\ Case({"s_req_spaces_before_url"})
     /\ IF Byte = SP THEN Goto(parser.state)
        ELSE IF to = "s_dead" THEN Fail("INVALID_URL")
        ELSE /\ Consume([Counted EXCEPT !.state = to])
             /\ marks' = Marked("url") /\ UNCHANGED <<message, handled>>

UrlStart ==
  LET to == ParseUrlChar(parser.state, Byte)
  IN /\ Case(UrlStartStates)
     /\ IF Byte \in {SP, CR, LF} \/ to = "s_dead" THEN Fail("INVALID_URL") ELSE Goto(to)

Url ==
  LET to == ParseUrlChar(parser.state, Byte)
  IN /\ Case(UrlStates)
     /\ IF Byte = SP THEN Consume([Counted EXCEPT !.state = "s_req_http_start"]) /\ CallBack("url")
        ELSE IF Byte \in {CR, LF}
        THEN /\ Consume([Counted EXCEPT !.major = 0, !.minor = 9,
                   !.state = IF Byte = CR THEN "s_req_line_almost_done" ELSE "s_header_field_start"])
             /\ CallBack("url")
        ELSE IF to = "s_dead" THEN Fail("INVALID_URL") ELSE Goto(to)

HttpStart ==
  /\ Case({"s_req_http_start"})
  /\ CASE Byte = "H" -> Goto("s_req_http_H")
       [] Byte = SP -> Goto("s_req_http_start")
       [] OTHER -> Fail("INVALID_CONSTANT")

\* <<state, byte it insists on, next state>>
HttpLetters == {<<"s_req_http_H", "T", "s_req_http_HT">>, <<"s_req_http_HT", "T", "s_req_http_HTT">>,
                <<"s_req_http_HTT", "P", "s_req_http_HTTP">>,
                <<"s_req_http_HTTP", "/", "s_req_first_http_major">>}
HttpLetter ==
  \E x \in HttpLetters :
    Case({x[1]}) /\ IF Byte = x[2] THEN Goto(x[3]) ELSE Fail("STRICT")

FirstMajor ==
  /\ Case({"s_req_first_http_major"})
  /\ IF IsNum(Byte) /\ Byte # "0"
     THEN Consume([Counted EXCEPT !.major = DigitOf(Byte), !.state = "s_req_http_major"]) /\ Quiet
     ELSE Fail("INVALID_VERSION")

Major ==
  LET major == parser.major * 10 + DigitOf(Byte)
  IN /\ Case({"s_req_http_major"})
     /\ IF Byte = "." THEN Goto("s_req_first_http_minor")
        ELSE IF ~IsNum(Byte) THEN Fail("INVALID_VERSION")
        ELSE IF major > 999 THEN Fail("INVALID_VERSION")
        ELSE Consume([Counted EXCEPT !.major = major]) /\ Quiet

FirstMinor ==
  /\ Case({"s_req_first_http_minor"})
  /\ IF IsNum(Byte)
     THEN Consume([Counted EXCEPT !.minor = DigitOf(Byte), !.state = "s_req_http_minor"]) /\ Quiet
     ELSE Fail("INVALID_VERSION")

Minor ==
  LET minor == parser.minor * 10 + DigitOf(Byte)
  IN /\ Case({"s_req_http_minor"})
     /\ IF Byte = CR THEN Goto("s_req_line_almost_done")
        ELSE IF Byte = LF THEN Goto("s_header_field_start")
        ELSE IF ~IsNum(Byte) THEN Fail("INVALID_VERSION")
        ELSE IF minor > 999 THEN Fail("INVALID_VERSION")
        ELSE Consume([Counted EXCEPT !.minor = minor]) /\ Quiet

ReqLineAlmostDone ==
  /\ Case({"s_req_line_almost_done"})
  /\ IF Byte = LF THEN Goto("s_header_field_start") ELSE Fail("LF_EXPECTED")

(***************************************************************************)
(* The headers.  header_state follows the name, then the value, of the     *)
(* four headers the parser itself needs.                                   *)
(***************************************************************************)
\* h_matching_*: the word compared with, and the state once it is complete.
MatchWord == [h_matching_connection |-> CONNECTION,
              h_matching_proxy_connection |-> PROXY_CONNECTION,
              h_matching_content_length |-> CONTENT_LENGTH,
              h_matching_transfer_encoding |-> TRANSFER_ENCODING,
              h_matching_upgrade |-> UPGRADE,
              h_matching_transfer_encoding_chunked |-> CHUNKED,
              h_matching_connection_keep_alive |-> KEEP_ALIVE,
              h_matching_connection_close |-> CLOSE]
MatchWhole == [h_matching_connection |-> "h_connection",
               h_matching_proxy_connection |-> "h_connection",
               h_matching_content_length |-> "h_content_length",
               h_matching_transfer_encoding |-> "h_transfer_encoding",
               h_matching_upgrade |-> "h_upgrade",
               h_matching_transfer_encoding_chunked |-> "h_transfer_encoding_chunked",
               h_matching_connection_keep_alive |-> "h_connection_keep_alive",
               h_matching_connection_close |-> "h_connection_close"]

MatchNext(h, i, c) == LET m == MatchStep(MatchWord[h], i, c)
                      IN CASE m = "fail" -> "h_general" [] m = "more" -> h
                           [] m = "whole" -> MatchWhole[h]

NameMatching == {"h_matching_connection", "h_matching_proxy_connection",
                 "h_matching_content_length", "h_matching_transfer_encoding",
                 "h_matching_upgrade"}
NamesFound == {"h_connection", "h_content_length", "h_transfer_encoding", "h_upgrade"}
ValueMatching == {"h_matching_transfer_encoding_chunked", "h_matching_connection_keep_alive",
                  "h_matching_connection_close"}
ValuesFound == {"h_transfer_encoding_chunked", "h_connection_keep_alive", "h_connection_close"}

HeaderFieldStart ==
  LET c == Lower(Byte)
  IN /\ Case({"s_header_field_start"})
     /\ IF Byte = CR THEN Goto("s_headers_almost_done")
        ELSE IF Byte = LF
        THEN Reexecute([Counted EXCEPT !.state = "s_headers_almost_done"]) /\ Quiet
        ELSE IF ~IsToken(Byte) THEN Fail("INVALID_HEADER_TOKEN")
        ELSE /\ Consume([Counted EXCEPT !.index = 0, !.state = "s_header_field",
                  !.header_state = CASE c = "c" -> "h_C"
                                     [] c = "p" -> "h_matching_proxy_connection"
                                     [] c = "t" -> "h_matching_transfer_encoding"
                                     [] c = "u" -> "h_matching_upgrade"
                                     [] OTHER -> "h_general"])
             /\ marks' = Marked("header_field") /\ UNCHANGED <<message, handled>>

\* What one more byte c of a name, the i-th from 0, makes of header_state.
NameNext(h, i, c) ==
  CASE h = "h_C" /\ c = "o" -> "h_CO"
    [] h = "h_CO" /\ c = "n" -> "h_CON"
    [] h = "h_CON" /\ c = "n" -> "h_matching_connection"
    [] h = "h_CON" /\ c = "t" -> "h_matching_content_length"
    [] h \in NameMatching -> MatchNext(h, i, c)
    [] OTHER -> "h_general"

HeaderFieldToken ==
  LET h == parser.header_state
      i == IF h \in NameMatching \cup {"h_C", "h_CO", "h_CON"} THEN parser.index + 1
           ELSE parser.index
  IN /\ Case({"s_header_field"}) /\ IsToken(Byte)
     /\ Consume([Counted EXCEPT !.index = i, !.header_state = NameNext(h, i, Lower(Byte))])
     /\ Quiet

HeaderFieldEnd ==
  LET to == CASE Byte = ":" -> "s_header_value_discard_ws"
              [] Byte = CR -> "s_header_almost_done"
              [] Byte = LF -> "s_header_field_start"
  IN /\ Case({"s_header_field"}) /\ ~IsToken(Byte)
     /\ IF Byte \in {":", CR, LF}
        THEN Consume([Counted EXCEPT !.state = to]) /\ CallBack("header_field")
        ELSE Fail("INVALID_HEADER_TOKEN")

\* s_header_value_discard_ws falls through to s_header_value_start.
ValueDiscardWs ==
  /\ Case({"s_header_value_discard_ws"}) /\ Byte \in {SP, TAB, CR, LF}
  /\ Goto(CASE Byte = CR -> "s_header_value_discard_ws_almost_done"
            [] Byte = LF -> "s_header_value_discard_lws"
            [] OTHER -> parser.state)

ValueStart ==
  LET c == Lower(Byte)
      h == parser.header_state
      started == [Counted EXCEPT !.state = "s_header_value", !.index = 0]
  IN /\ \/ Case({"s_header_value_discard_ws"}) /\ Byte \notin {SP, TAB, CR, LF}
        \/ Case({"s_header_value_start"})
     /\ IF h = "h_content_length" /\ ~IsNum(Byte) THEN Fail("INVALID_CONTENT_LENGTH")
        ELSE /\ Consume(
                  CASE h = "h_upgrade" ->
                         [started EXCEPT !.flags = @ \cup {"UPGRADE"}, !.header_state = "h_general"]
                    [] h = "h_content_length" -> [started EXCEPT !.content_length = DigitOf(Byte)]
                    [] h = "h_transfer_encoding" /\ c = "c" ->
                         [started EXCEPT !.header_state = "h_matching_transfer_encoding_chunked"]
                    [] h = "h_connection" /\ c = "k" ->
                         [started EXCEPT !.header_state = "h_matching_connection_keep_alive"]
                    [] h = "h_connection" /\ c = "c" ->
                         [started EXCEPT !.header_state = "h_matching_connection_close"]
                    [] OTHER -> [started EXCEPT !.header_state = "h_general"])
             /\ marks' = Marked("header_value") /\ UNCHANGED <<message, handled>>

\* A decimal digit more: the check is on the length so far, and conservative.
LengthOverflows(q, base) == q.content_length > (Unset - base) \div base

HeaderValue ==
  LET h == parser.header_state
      i == IF h \in ValueMatching THEN parser.index + 1 ELSE parser.index
      digit == h = "h_content_length" /\ Byte # SP
  IN /\ Case({"s_header_value"}) /\ Byte \notin {CR, LF}
     /\ IF digit /\ (~IsNum(Byte) \/ LengthOverflows(parser, 10)) THEN Fail("INVALID_CONTENT_LENGTH")
        ELSE /\ Consume(
                  CASE digit -> [Counted EXCEPT !.content_length = @ * 10 + DigitOf(Byte)]
                    [] h \in ValueMatching ->
                         [Counted EXCEPT !.index = i, !.header_state = MatchNext(h, i, Lower(Byte))]
                    [] h \in ValuesFound /\ Byte # SP -> [Counted EXCEPT !.header_state = "h_general"]
                    [] h \in ValuesFound /\ Byte = SP -> Counted
                    [] h = "h_content_length" /\ Byte = SP -> Counted
                    [] OTHER -> [Counted EXCEPT !.header_state = "h_general"])
             /\ Quiet

HeaderValueEnd ==
  LET done == [Counted EXCEPT !.state = "s_header_almost_done"]
  IN /\ Case({"s_header_value"}) /\ Byte \in {CR, LF}
     /\ IF Byte = CR THEN Consume(done) ELSE Reexecute(done)
     /\ CallBack("header_value")

HeaderAlmostDone ==
  /\ Case({"s_header_almost_done"})
  /\ IF Byte = LF THEN Goto("s_header_value_lws") ELSE Fail("STRICT")

\* A line that begins with a blank continues the value.
HeaderValueLws ==
  LET flag == CASE parser.header_state = "h_connection_keep_alive" -> {"KEEP_ALIVE"}
                [] parser.header_state = "h_connection_close" -> {"CLOSE"}
                [] parser.header_state = "h_transfer_encoding_chunked" -> {"CHUNKED"}
                [] OTHER -> {}
  IN /\ Case({"s_header_value_lws"})
     /\ Reexecute(IF Byte \in {SP, TAB} THEN [Counted EXCEPT !.state = "s_header_value_start"]
                  ELSE [Counted EXCEPT !.flags = @ \cup flag, !.state = "s_header_field_start"])
     /\ Quiet

DiscardWsAlmostDone ==
  /\ Case({"s_header_value_discard_ws_almost_done"})
  /\ IF Byte = LF THEN Goto("s_header_value_discard_lws") ELSE Fail("STRICT")

\* An empty value is called back with no byte.
DiscardLws ==
  /\ Case({"s_header_value_discard_lws"})
  /\ IF Byte \in {SP, TAB} THEN Goto("s_header_value_discard_ws")
     ELSE /\ Reexecute([Counted EXCEPT !.state = "s_header_field_start"])
          /\ message' = OnHeaderValue(message, <<>>) /\ UNCHANGED <<marks, handled>>

HeadersAlmostDone ==
  LET fresh == [Counted EXCEPT !.state = NewMessage(parser)]
  IN /\ Case({"s_headers_almost_done"})
     /\ IF Byte # LF THEN Fail("STRICT")
        ELSE IF "TRAILING" \in parser.flags THEN Consume(fresh) /\ Complete(fresh)
        ELSE /\ Reexecute([Counted EXCEPT !.state = "s_headers_done",
                    !.upgrade = "UPGRADE" \in parser.flags \/ parser.method = CONNECT])
             /\ message' = OnHeadersComplete(message) /\ UNCHANGED <<marks, handled>>

\* With an upgrade the function returns: feed returns true only if this was the
\* last byte of the read.
HeadersDone ==
  LET ready == [Counted EXCEPT !.nread = 0]
      fresh == [ready EXCEPT !.state = NewMessage(parser)]
      body == [ready EXCEPT !.state = IF "CHUNKED" \in parser.flags THEN "s_chunk_size_start"
                                      ELSE "s_body_identity"]
  IN /\ Case({"s_headers_done"})
     /\ IF Byte # LF THEN Fail("STRICT")
        ELSE IF parser.upgrade
        THEN /\ parser' = fresh /\ pos' = pos + 1 /\ again' = FALSE
             /\ status' = IF pos + 1 = end THEN "idle" ELSE "closed"
             /\ Complete(fresh) /\ UNCHANGED <<input, end>>
        ELSE IF "CHUNKED" \notin parser.flags /\ parser.content_length \in {0, Unset}
        THEN Consume(fresh) /\ Complete(fresh)
        ELSE Consume(body) /\ Quiet

(***************************************************************************)
(* The body.                                                               *)
(***************************************************************************)
ToRead == IF parser.content_length < end - pos THEN parser.content_length ELSE end - pos
Left == parser.content_length - ToRead

\* The last byte is looked at once more, in s_message_done.
BodyIdentity ==
  /\ Case({"s_body_identity"})
  /\ again' = (Left = 0)
  /\ pos' = IF Left = 0 THEN pos + ToRead - 1 ELSE pos + ToRead
  /\ parser' = [parser EXCEPT !.content_length = Left,
                              !.state = IF Left = 0 THEN "s_message_done" ELSE @]
  /\ marks' = IF Left = 0 THEN Unmarked("body") ELSE Marked("body")
  /\ message' = IF Left = 0
                THEN OnBody(message, SubSeq(input, Marked("body")["body"], pos + ToRead))
                ELSE message
  /\ UNCHANGED <<input, end, status, handled>>

MessageDone ==
  LET fresh == [Counted EXCEPT !.state = NewMessage(parser)]
  IN Case({"s_message_done"}) /\ Consume(fresh) /\ Complete(fresh)

ChunkSizeStart ==
  /\ Case({"s_chunk_size_start"})
  /\ IF IsHex(Byte)
     THEN Consume([Counted EXCEPT !.content_length = HexOf(Byte), !.state = "s_chunk_size"]) /\ Quiet
     ELSE Fail("INVALID_CHUNK_SIZE")

ChunkSize ==
  /\ Case({"s_chunk_size"})
  /\ CASE Byte = CR -> Goto("s_chunk_size_almost_done")
       [] Byte \in {";", SP} -> Goto("s_chunk_parameters")
       [] IsHex(Byte) ->
            IF LengthOverflows(parser, 16) THEN Fail("INVALID_CONTENT_LENGTH")
            ELSE Consume([Counted EXCEPT !.content_length = @ * 16 + HexOf(Byte)]) /\ Quiet
       [] OTHER -> Fail("INVALID_CHUNK_SIZE")

ChunkParameters ==
  /\ Case({"s_chunk_parameters"})
  /\ Goto(IF Byte = CR THEN "s_chunk_size_almost_done" ELSE parser.state)

\* The chunk of no byte is the last one; headers may follow it.
ChunkSizeAlmostDone ==
  /\ Case({"s_chunk_size_almost_done"})
  /\ IF Byte # LF THEN Fail("STRICT")
     ELSE IF parser.content_length = 0
     THEN /\ Consume([Counted EXCEPT !.nread = 0, !.flags = @ \cup {"TRAILING"},
                                     !.state = "s_header_field_start"])
          /\ Quiet
     ELSE Consume([Counted EXCEPT !.nread = 0, !.state = "s_chunk_data"]) /\ Quiet

ChunkData ==
  /\ Case({"s_chunk_data"})
  /\ again' = FALSE /\ pos' = pos + ToRead
  /\ parser' = [parser EXCEPT !.content_length = Left,
                              !.state = IF Left = 0 THEN "s_chunk_data_almost_done" ELSE @]
  /\ marks' = Marked("body")
  /\ UNCHANGED <<input, end, status, message, handled>>

ChunkDataAlmostDone ==
  /\ Case({"s_chunk_data_almost_done"})
  /\ IF Byte = CR THEN Consume([Counted EXCEPT !.state = "s_chunk_data_done"]) /\ CallBack("body")
     ELSE Fail("STRICT")

ChunkDataDone ==
  /\ Case({"s_chunk_data_done"})
  /\ IF Byte = LF
     THEN Consume([Counted EXCEPT !.nread = 0, !.state = "s_chunk_size_start"]) /\ Quiet
     ELSE Fail("STRICT")

(***************************************************************************)
(* One read, and the end of it.                                            *)
(***************************************************************************)
\* Mutant of MarkAtStart: a value that goes on in the next read is not marked.
MarkAtStartLost(s) ==
  CASE s = "s_header_field" -> [NoMarks EXCEPT !["header_field"] = pos + 1]
    [] s \in UrlStartStates \cup UrlStates -> [NoMarks EXCEPT !["url"] = pos + 1]
    [] OTHER -> NoMarks

\* The mark the next read starts with.
MarkAtStart(s) ==
  CASE s = "s_header_field" -> [NoMarks EXCEPT !["header_field"] = pos + 1]
    [] s = "s_header_value" -> [NoMarks EXCEPT !["header_value"] = pos + 1]
    [] s \in UrlStartStates \cup UrlStates -> [NoMarks EXCEPT !["url"] = pos + 1]
    [] OTHER -> NoMarks

\* feed(buffer, n).
Feed ==
  \E n \in 1 .. Len(input) - pos :
    /\ status = "idle" /\ status' = "reading" /\ end' = pos + n
    /\ marks' = MarkAtStart(parser.state)
    /\ UNCHANGED <<input, pos, again, parser, message, handled>>

\* The callbacks for the marks that are left, in the order of the code.
ReadEnds ==
  LET piece(i) == SubSeq(input, marks[i], pos)
      m1 == IF marks["header_field"] = 0 THEN message ELSE OnHeaderField(message, piece("header_field"))
      m2 == IF marks["header_value"] = 0 THEN m1 ELSE OnHeaderValue(m1, piece("header_value"))
      m3 == IF marks["url"] = 0 THEN m2 ELSE OnUrl(m2, piece("url"))
  IN /\ status = "reading" /\ pos = end /\ status' = "idle"
     /\ message' = IF marks["body"] = 0 THEN m3 ELSE OnBody(m3, piece("body"))
     /\ marks' = NoMarks
     /\ UNCHANGED <<input, pos, end, again, parser, handled>>

\* done(): the client has closed, or the read failed.
Done ==
  /\ status = "idle" /\ status' = "closed"
  /\ parser' = IF parser.state \in {"s_dead", "s_start_req"} THEN parser
               ELSE [parser EXCEPT !.errno = "INVALID_EOF_STATE"]
  /\ UNCHANGED <<input, pos, end, again, marks, message, handled>>

RequestLine == \/ DeadCase \/ StartReq \/ ReqMethod \/ SpacesBeforeUrl \/ UrlStart \/ Url
               \/ HttpStart \/ HttpLetter \/ FirstMajor \/ Major \/ FirstMinor \/ Minor
               \/ ReqLineAlmostDone
Headers == \/ HeaderFieldStart \/ HeaderFieldToken \/ HeaderFieldEnd \/ ValueDiscardWs
           \/ ValueStart \/ HeaderValue \/ HeaderValueEnd \/ HeaderAlmostDone \/ HeaderValueLws
           \/ DiscardWsAlmostDone \/ DiscardLws \/ HeadersAlmostDone \/ HeadersDone
Body == \/ BodyIdentity \/ MessageDone \/ ChunkSizeStart \/ ChunkSize \/ ChunkParameters
        \/ ChunkSizeAlmostDone \/ ChunkData \/ ChunkDataAlmostDone \/ ChunkDataDone

Next == HeaderOverflow \/ RequestLine \/ Headers \/ Body \/ Feed \/ ReadEnds \/ Done

ParserSpec == ParserInit /\ [][Next]_vars

(***************************************************************************)
(* Properties.                                                             *)
(***************************************************************************)
ChunkStates == {"s_chunk_size_start", "s_chunk_size", "s_chunk_parameters",
                "s_chunk_size_almost_done", "s_chunk_data", "s_chunk_data_almost_done",
                "s_chunk_data_done"}
NameStates == {"h_general", "h_C", "h_CO", "h_CON"} \cup NameMatching \cup NamesFound

\* The assertions of http_parser_execute hold, whatever bytes the client sends and
\* wherever its reads are cut (http_parser_merged.h:1698, 1816, 2041, 2086-2087, 2104,
\* 2139, 2150, 2169-2170, 2188-2189, 2196, 2219): chunks are only read from a message
\* that is chunked, a size is read with a count that was reset, a body is never read
\* without knowing its length, header_state is one the case at hand can handle, and at
\* the end of a read one item at most is unfinished.
AssertsHold ==
  status # "closed" =>
    /\ parser.state \in ChunkStates => "CHUNKED" \in parser.flags
    /\ parser.state = "s_chunk_size_start" => parser.nread = 0 /\ ~again
    /\ parser.state \in {"s_body_identity", "s_chunk_data"} =>
         parser.content_length \notin {0, Unset}
    /\ parser.state = "s_chunk_data_almost_done" => parser.content_length = 0
    /\ parser.state = "s_header_field" => parser.header_state \in NameStates
    /\ parser.state = "s_header_value" =>
         parser.header_state \notin {"h_connection", "h_transfer_encoding"}
    /\ \A i, j \in Items : marks[i] # 0 /\ marks[j] # 0 => i = j
=============================================================================
