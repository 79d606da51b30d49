--------------------------- MODULE CrowStreamProofs ---------------------------
(***************************************************************************)
(* What Crow makes of a stream of bytes: requests, and the frames of a      *)
(* WebSocket.                                                               *)
(*                                                                          *)
(* The assertions of http_parser_execute hold for every stream of bytes,    *)
(* every way it is cut into reads, and every limit.  The invariant adds to  *)
(* AssertsHold what they rest on: a length never exceeds Unset and is less  *)
(* while the size of a chunk is read, and a mark is only set in the states  *)
(* in which its item is being read, so that no two marks are set at once.   *)
(*                                                                          *)
(* The connections of websocket.h leave nothing behind, hand on the messages*)
(* of their clients whole, and bring them to the others in their order, for *)
(* any clients, loads and bounds.  The invariant, WsInv, says for every     *)
(* connection which read and which write is under way, and where; for every *)
(* two, through which queues the messages of one are on their way to the    *)
(* other, each queue going on where the one before it ends; and for every   *)
(* client that what was handed on, the text at hand and those to be read    *)
(* are what it has said.  Every method of the source has a lemma that says  *)
(* what of this it keeps.                                                   *)
(***************************************************************************)
EXTENDS CrowParser, CrowWsChat, SequenceTheorems, TLAPS

(***************************************************************************)
(* The request parser.                                                      *)
(***************************************************************************)

\* The states of which nothing is promised, and all of them.
PlainStates ==
  {"s_dead", "s_start_req", "s_req_method", "s_req_spaces_before_url", "s_req_schema",
   "s_req_schema_slash", "s_req_schema_slash_slash", "s_req_server_start", "s_req_server",
   "s_req_server_with_at", "s_req_path", "s_req_query_string_start", "s_req_query_string",
   "s_req_fragment_start", "s_req_fragment", "s_req_http_start", "s_req_http_H",
   "s_req_http_HT", "s_req_http_HTT", "s_req_http_HTTP", "s_req_first_http_major",
   "s_req_http_major", "s_req_first_http_minor", "s_req_http_minor",
   "s_req_line_almost_done", "s_header_field_start", "s_header_value_discard_ws",
   "s_header_value_discard_ws_almost_done", "s_header_value_discard_lws",
   "s_header_value_start", "s_header_value_lws", "s_header_almost_done",
   "s_headers_almost_done", "s_headers_done", "s_message_done"}
States == PlainStates \cup ChunkStates \cup {"s_body_identity", "s_header_field", "s_header_value"}

ValueStates == {"h_general", "h_content_length"} \cup ValueMatching \cup ValuesFound
Errors == {"OK", "CLOSED_CONNECTION", "HEADER_OVERFLOW", "INVALID_CHUNK_SIZE",
           "INVALID_CONSTANT", "INVALID_CONTENT_LENGTH", "INVALID_HEADER_TOKEN",
           "INVALID_METHOD", "INVALID_URL", "INVALID_VERSION", "LF_EXPECTED", "STRICT",
           "INVALID_EOF_STATE"}

ParserType ==
  [state : States, flags : SUBSET {"CHUNKED", "KEEP_ALIVE", "CLOSE", "TRAILING", "UPGRADE"},
   nread : Nat, content_length : 0 .. Unset, major : Nat, minor : Nat, method : Methods,
   index : Nat, header_state : NameStates \cup ValueStates, errno : Errors,
   upgrade : BOOLEAN]

SizeStates == {"s_chunk_size", "s_chunk_parameters", "s_chunk_size_almost_done"}

\* What holds of a parser q that has not failed, a being again.
ParserInv(q, a) ==
  /\ q.state \in ChunkStates => "CHUNKED" \in q.flags
  /\ q.state = "s_chunk_size_start" => q.nread = 0 /\ ~a
  /\ q.state \in SizeStates => q.content_length # Unset
  /\ q.state \in {"s_body_identity", "s_chunk_data"} => q.content_length \notin {0, Unset}
  /\ q.state = "s_chunk_data_almost_done" => q.content_length = 0
  /\ q.state = "s_header_field" => q.header_state \in NameStates
  /\ q.state = "s_header_value" => q.header_state \in ValueStates

\* The marks m that may be set in state s.
MarksFit(m, s) ==
  /\ m \in [Items -> Nat]
  /\ m["url"] # 0 => s \in UrlStartStates \cup UrlStates
  /\ m["header_field"] # 0 => s = "s_header_field"
  /\ m["header_value"] # 0 => s = "s_header_value"
  /\ m["body"] # 0 => s \in {"s_body_identity", "s_chunk_data", "s_chunk_data_almost_done"}

IInv ==
  /\ input \in Seq(STRING) /\ pos \in Nat /\ end \in Nat /\ again \in BOOLEAN
  /\ status \in {"idle", "reading", "closed"}
  /\ parser \in ParserType
  /\ status # "closed" => ParserInv(parser, again)
  /\ MarksFit(marks, parser.state)
  /\ status # "reading" => marks = NoMarks

(***************************************************************************)
(* Lemmas about the bytes.                                                 *)
(***************************************************************************)
\* The value of a decimal digit (parser content_length, http_major, http_minor).
LEMMA DigitRange == ASSUME NEW c, IsNum(c) PROVE DigitOf(c) \in 0 .. 9
<1>1. PICK i \in DOMAIN Digits : Digits[i] = c  BY DEF IsNum, InSeq
<1>2. PlaceIn(c, Digits) \in DOMAIN Digits  BY <1>1 DEF PlaceIn
<1>3. DOMAIN Digits = 1 .. 10  BY DEF Digits
<1> QED BY <1>2, <1>3 DEF DigitOf

\* The value of a hexadecimal digit, as the table unhex has it.
LEMMA HexRange == ASSUME NEW c, IsHex(c) PROVE HexOf(c) \in 0 .. 15
<1>1. CASE IsNum(c)  BY <1>1, DigitRange DEF HexOf
<1>2. CASE ~IsNum(c)
  <2>1. PICK i \in DOMAIN HexDigits : HexDigits[i] = Lower(c)  BY <1>2 DEF IsHex, InSeq
  <2>2. PlaceIn(Lower(c), HexDigits) \in DOMAIN HexDigits  BY <2>1 DEF PlaceIn
  <2>3. DOMAIN HexDigits = 1 .. 6  BY DEF HexDigits, Lowers
  <2> QED BY <1>2, <2>2, <2>3 DEF HexOf
<1> QED BY <1>1, <1>2

\* parse_url_char stays in the URL or fails.
LEMMA UrlCharRange ==
  ASSUME NEW s, NEW c
  PROVE ParseUrlChar(s, c) \in {"s_dead"} \cup UrlStartStates \cup UrlStates
BY DEF ParseUrlChar, UrlStartStates, UrlStates

\* The methods s_start_req and s_req_method settle on are those of the map.
LEMMA MethodsClosed ==
  /\ FirstMethods \subseteq Methods
  /\ \A x \in MethodSwitches : x[4] \in Methods
<1>1. FirstMethods \subseteq Methods  BY DEF FirstMethods, Methods
<1>2. ASSUME NEW x \in MethodSwitches PROVE x[4] \in Methods
  BY DEF MethodSwitches, Methods
<1> QED BY <1>1, <1>2

\* What a byte makes of header_state while a name is read.
LEMMA NameNextRange ==
  ASSUME NEW h \in NameStates, NEW i, NEW c PROVE NameNext(h, i, c) \in NameStates
<1>1. ASSUME h \in NameMatching PROVE MatchNext(h, i, c) \in NameStates
  BY <1>1 DEF MatchNext, MatchStep, MatchWhole, NameMatching, NameStates, NamesFound
<1> QED BY <1>1 DEF NameNext, NameStates, NameMatching, NamesFound

\* ... and while a value is compared with a word.
LEMMA ValueNextRange ==
  ASSUME NEW h \in ValueMatching, NEW i, NEW c
  PROVE MatchNext(h, i, c) \in {"h_general"} \cup ValueMatching \cup ValuesFound
BY DEF MatchNext, MatchStep, MatchWhole, ValueMatching, ValuesFound

(***************************************************************************)
(* What every step of the loop has in common.                              *)
(***************************************************************************)
\* Counting a byte changes nread alone.
LEMMA CountedKeeps ==
  ASSUME parser \in ParserType
  PROVE /\ Counted \in ParserType
        /\ Counted.state = parser.state /\ Counted.flags = parser.flags
        /\ Counted.content_length = parser.content_length
        /\ Counted.header_state = parser.header_state /\ Counted.index = parser.index
        /\ Counted.major = parser.major /\ Counted.minor = parser.minor
BY DEF Counted, ParserType

\* A step to another parser of the right kind, and marks that fit it.
LEMMA Moves ==
  ASSUME IInv, status = "reading", UNCHANGED <<input, end, status>>,
         pos' \in Nat, again' \in BOOLEAN, parser' \in ParserType,
         ParserInv(parser', again'), MarksFit(marks', parser'.state)
  PROVE IInv'
BY DEF IInv, ParserInv, MarksFit

\* A step that fails.
LEMMA Fails ==
  ASSUME IInv, NEW e \in Errors, Fail(e)
  PROVE IInv'
<1>1. [Counted EXCEPT !.errno = e] \in ParserType  BY CountedKeeps DEF IInv, ParserType
<1>2. MarksFit(NoMarks, parser'.state)  BY DEF MarksFit, NoMarks, Items
<1> QED BY <1>1, <1>2 DEF IInv, Fail

\* Consume and Reexecute leave the frame alone.
LEMMA Frames ==
  ASSUME IInv, NEW STATE q, Consume(q) \/ Reexecute(q)
  PROVE /\ parser' = q /\ pos' \in Nat /\ again' \in BOOLEAN
        /\ UNCHANGED <<input, end, status>>
<1>1. CASE Consume(q)
  <2>1. again' \in BOOLEAN  BY <1>1, Zenon DEF Consume
  <2>2. parser' = q /\ pos' \in Nat /\ UNCHANGED <<input, end, status>>
    BY <1>1 DEF Consume, IInv
  <2> QED BY <2>1, <2>2
<1>2. CASE Reexecute(q)
  <2>1. again' \in BOOLEAN  BY <1>2, Zenon DEF Reexecute
  <2>2. parser' = q /\ pos' \in Nat /\ UNCHANGED <<input, end, status>>
    BY <1>2 DEF Reexecute, IInv
  <2> QED BY <2>1, <2>2
<1> QED BY <1>1, <1>2

\* A step to a plain state, with no mark left.
LEMMA MovesPlainly ==
  ASSUME IInv, status = "reading", NEW STATE q, q \in ParserType, Consume(q) \/ Reexecute(q),
         q.state \in PlainStates, marks' = marks,
         \A i \in Items : marks[i] = 0
  PROVE IInv'
<1>1. /\ parser' = q /\ pos' \in Nat /\ again' \in BOOLEAN
      /\ UNCHANGED <<input, end, status>>
  BY Frames
<1>2. ParserInv(q, again')
  BY DEF ParserInv, PlainStates, ChunkStates, SizeStates
<1>3. MarksFit(marks, q.state)  BY DEF MarksFit, IInv, Items
<1> QED BY <1>1, <1>2, <1>3, Moves

\* break to a plain state in which nothing is being read.
LEMMA GoesPlainly ==
  ASSUME IInv, status = "reading", NEW s \in PlainStates, Goto(s), \A i \in Items : marks[i] = 0
  PROVE IInv'
<1>1. /\ [Counted EXCEPT !.state = s] \in ParserType
      /\ [Counted EXCEPT !.state = s].state = s
  BY CountedKeeps DEF IInv, ParserType, States
<1> QED BY <1>1, MovesPlainly DEF Goto, Quiet

\* The states in which no item is being read.
ItemStates == UrlStartStates \cup UrlStates
              \cup {"s_header_field", "s_header_value", "s_body_identity", "s_chunk_data",
                    "s_chunk_data_almost_done"}
LEMMA NothingMarked ==
  ASSUME IInv, parser.state \notin ItemStates
  PROVE \A i \in Items : marks[i] = 0
BY DEF IInv, MarksFit, Items, ItemStates

(***************************************************************************)
(* The request line.                                                       *)
(***************************************************************************)
LEMMA InitHolds == ParserInit => IInv
<1> SUFFICES ASSUME ParserInit PROVE IInv  OBVIOUS
<1>1. NewParser \in ParserType
  BY LimitsAssumption DEF NewParser, ParserType, Methods, States, PlainStates, NameStates, Errors
<1>2. ParserInv(NewParser, FALSE)
  BY DEF NewParser, ParserInv, ChunkStates, SizeStates
<1>3. MarksFit(NoMarks, NewParser.state)  BY DEF MarksFit, NoMarks, Items
<1>4. input \in Seq(STRING)  BY StreamsAssumption DEF ParserInit
<1> QED BY <1>1, <1>2, <1>3, <1>4 DEF ParserInit, IInv

LEMMA OverflowHolds == ASSUME IInv, HeaderOverflow PROVE IInv'
BY Fails DEF HeaderOverflow, Errors

LEMMA DeadCaseHolds == ASSUME IInv, DeadCase PROVE IInv'
<1>1. \A i \in Items : marks[i] = 0
  BY NothingMarked DEF DeadCase, Case, ItemStates, UrlStartStates, UrlStates
<1>2. CASE Goto("s_dead")
  BY <1>1, <1>2, GoesPlainly DEF DeadCase, Case, PlainStates, ChunkStates
<1> QED BY <1>2, Fails DEF DeadCase, Errors

LEMMA StartReqHolds == ASSUME IInv, StartReq PROVE IInv'
<1>1. status = "reading" /\ parser.state = "s_start_req"  BY DEF StartReq, Case
<1>2. \A i \in Items : marks[i] = 0
  BY <1>1, NothingMarked DEF ItemStates, UrlStartStates, UrlStates
<1>3. CASE Goto("s_start_req")
  BY <1>1, <1>2, <1>3, GoesPlainly DEF PlainStates
<1>4. ASSUME NEW m \in FirstMethods,
             Consume([Counted EXCEPT !.flags = {}, !.content_length = Unset, !.method = m,
                                     !.index = 1, !.state = "s_req_method"]),
             UNCHANGED marks
      PROVE IInv'
  <2> DEFINE q == [Counted EXCEPT !.flags = {}, !.content_length = Unset, !.method = m,
                                  !.index = 1, !.state = "s_req_method"]
  <2>0. m \in Methods /\ Unset \in 0 .. Unset  BY MethodsClosed, LimitsAssumption
  <2>3. "s_req_method" \in States  BY DEF States, PlainStates
  <2>1. q \in ParserType /\ q.state = "s_req_method"
    BY <2>0, <2>3, CountedKeeps DEF IInv, ParserType
  <2>2. q.state \in PlainStates  BY <2>1 DEF PlainStates
  <2> HIDE DEF q
  <2> QED BY <1>1, <1>2, <1>4, <2>1, <2>2, MovesPlainly DEF q
<1> QED BY <1>3, <1>4, Fails DEF StartReq, Errors

LEMMA ReqMethodHolds == ASSUME IInv, ReqMethod PROVE IInv'
<1>1. status = "reading" /\ parser.state = "s_req_method"  BY DEF ReqMethod, Case
<1>2. \A i \in Items : marks[i] = 0
  BY <1>1, NothingMarked DEF ItemStates, UrlStartStates, UrlStates
<1> DEFINE next == [Counted EXCEPT !.index = parser.index + 1]
<1>3. next \in ParserType /\ next.state = "s_req_method"
  BY <1>1, CountedKeeps DEF IInv, ParserType
<1>4. {"s_req_method", "s_req_spaces_before_url"} \subseteq PlainStates  BY DEF PlainStates
<1>5. CASE Consume([next EXCEPT !.state = "s_req_spaces_before_url"]) /\ Quiet
  <2>1. /\ [next EXCEPT !.state = "s_req_spaces_before_url"] \in ParserType
        /\ [next EXCEPT !.state = "s_req_spaces_before_url"].state = "s_req_spaces_before_url"
    BY <1>3, <1>4 DEF ParserType, States
  <2> QED BY <1>1, <1>2, <1>4, <1>5, <2>1, MovesPlainly DEF Quiet
<1>6. CASE Consume(next) /\ Quiet
  BY <1>1, <1>2, <1>3, <1>4, <1>6, MovesPlainly DEF Quiet
<1>7. ASSUME NEW x \in MethodSwitches, Consume([next EXCEPT !.method = x[4]]) /\ Quiet
      PROVE IInv'
  <2>1. /\ [next EXCEPT !.method = x[4]] \in ParserType
        /\ [next EXCEPT !.method = x[4]].state = "s_req_method"
    BY <1>3, MethodsClosed DEF ParserType
  <2> QED BY <1>1, <1>2, <1>4, <1>7, <2>1, MovesPlainly DEF Quiet
<1> HIDE DEF next
<1> QED BY <1>5, <1>6, <1>7, Fails DEF ReqMethod, Errors, next

(***************************************************************************)
(* Two more kinds of steps: to a plain state with marks that fit it, and   *)
(* from a state in which nothing is being read.                            *)
(***************************************************************************)
LEMMA MovesToPlain ==
  ASSUME IInv, status = "reading", NEW STATE q, q \in ParserType, Consume(q) \/ Reexecute(q),
         q.state \in PlainStates, MarksFit(marks', q.state)
  PROVE IInv'
<1>1. /\ parser' = q /\ pos' \in Nat /\ again' \in BOOLEAN
      /\ UNCHANGED <<input, end, status>>
  BY Frames
<1>2. ParserInv(q, again')
  BY DEF ParserInv, PlainStates, ChunkStates, SizeStates
<1> QED BY <1>1, <1>2, Moves

LEMMA CaseUnmarked ==
  ASSUME IInv, NEW S \in SUBSET (States \ ItemStates), Case(S)
  PROVE status = "reading" /\ parser.state \in S /\ \A i \in Items : marks[i] = 0
BY NothingMarked DEF Case

\* The callback of the item that is being read leaves no mark.
LEMMA CallBackUnmarks ==
  ASSUME IInv, NEW item \in Items, CallBack(item),
         \A i \in Items \ {item} : marks[i] = 0, NEW s \in States
  PROVE MarksFit(marks', s)
<1>1. marks' \in [Items -> Nat]  BY DEF CallBack, Unmarked, IInv, MarksFit
<1>2. \A i \in Items : marks'[i] = 0  BY DEF CallBack, Unmarked, IInv, MarksFit
<1> QED BY <1>1, <1>2 DEF MarksFit, Items

LEMMA SpacesBeforeUrlHolds == ASSUME IInv, SpacesBeforeUrl PROVE IInv'
<1>1. {"s_req_spaces_before_url"} \in SUBSET (States \ ItemStates)
  BY DEF States, PlainStates, ItemStates, UrlStartStates, UrlStates
<1>2. /\ status = "reading" /\ parser.state = "s_req_spaces_before_url"
      /\ \A i \in Items : marks[i] = 0
  BY <1>1, CaseUnmarked DEF SpacesBeforeUrl
<1> DEFINE from == IF parser.method = CONNECT THEN "s_req_server_start" ELSE parser.state
           to == ParseUrlChar(from, Byte)
<1>3. CASE Goto(parser.state)  BY <1>2, <1>3, GoesPlainly DEF PlainStates
<1>4. ASSUME to # "s_dead", Consume([Counted EXCEPT !.state = to]), marks' = Marked("url")
      PROVE IInv'
  <2>1. to \in UrlStartStates \cup UrlStates  BY <1>4, UrlCharRange
  <2> HIDE DEF to
  <2>2. to \in PlainStates  BY <2>1 DEF UrlStartStates, UrlStates, PlainStates
  <2>3. /\ [Counted EXCEPT !.state = to] \in ParserType
        /\ [Counted EXCEPT !.state = to].state = to
    BY <2>2, CountedKeeps DEF IInv, ParserType, States
  <2>4. MarksFit(Marked("url"), to)  BY <1>2, <2>1 DEF MarksFit, Marked, IInv, Items
  <2> QED BY <1>2, <1>4, <2>2, <2>3, <2>4, MovesToPlain
<1> HIDE DEF to
<1> QED BY <1>3, <1>4, Fails DEF SpacesBeforeUrl, Errors, to

\* While the URL is read only its mark may be set.
LEMMA InUrl ==
  ASSUME IInv, parser.state \in UrlStartStates \cup UrlStates
  PROVE \A i \in Items \ {"url"} : marks[i] = 0
BY DEF IInv, MarksFit, Items, UrlStartStates, UrlStates

LEMMA UrlGoesOn ==
  ASSUME IInv, status = "reading", parser.state \in UrlStartStates \cup UrlStates,
         NEW s \in UrlStartStates \cup UrlStates, Goto(s)
  PROVE IInv'
<1>1. s \in PlainStates  BY DEF UrlStartStates, UrlStates, PlainStates
<1>2. /\ [Counted EXCEPT !.state = s] \in ParserType
      /\ [Counted EXCEPT !.state = s].state = s
  BY <1>1, CountedKeeps DEF IInv, ParserType, States
<1>3. MarksFit(marks, s)  BY InUrl DEF MarksFit, IInv, Items
<1> QED BY <1>1, <1>2, <1>3, MovesToPlain DEF Goto, Quiet

LEMMA UrlStartHolds == ASSUME IInv, UrlStart PROVE IInv'
<1> DEFINE to == ParseUrlChar(parser.state, Byte)
<1>1. CASE Goto(to) /\ to # "s_dead"
  <2>1. to \in UrlStartStates \cup UrlStates  BY <1>1, UrlCharRange
  <2> QED BY <1>1, <2>1, UrlGoesOn DEF UrlStart, Case
<1> HIDE DEF to
<1> QED BY <1>1, Fails DEF UrlStart, Errors, to

LEMMA UrlHolds == ASSUME IInv, Url PROVE IInv'
<1> DEFINE to == ParseUrlChar(parser.state, Byte)
<1>1. status = "reading" /\ parser.state \in UrlStates  BY DEF Url, Case
<1>2. CASE Goto(to) /\ to # "s_dead"
  <2>1. to \in UrlStartStates \cup UrlStates  BY <1>2, UrlCharRange
  <2> QED BY <1>1, <1>2, <2>1, UrlGoesOn
<1>3. \A i \in Items \ {"url"} : marks[i] = 0  BY <1>1, InUrl
<1>4. "url" \in Items  BY DEF Items
<1>5. CASE Consume([Counted EXCEPT !.state = "s_req_http_start"]) /\ CallBack("url")
  <2>1. "s_req_http_start" \in PlainStates  BY DEF PlainStates
  <2>2. /\ [Counted EXCEPT !.state = "s_req_http_start"] \in ParserType
        /\ [Counted EXCEPT !.state = "s_req_http_start"].state = "s_req_http_start"
    BY <2>1, CountedKeeps DEF IInv, ParserType, States
  <2>3. MarksFit(marks', "s_req_http_start")
    BY <1>3, <1>4, <1>5, <2>1, CallBackUnmarks DEF States
  <2> QED BY <1>1, <1>5, <2>1, <2>2, <2>3, MovesToPlain
<1>6. ASSUME NEW s \in {"s_req_line_almost_done", "s_header_field_start"},
             Consume([Counted EXCEPT !.major = 0, !.minor = 9, !.state = s]), CallBack("url")
      PROVE IInv'
  <2>1. s \in PlainStates  BY DEF PlainStates
  <2>2. /\ [Counted EXCEPT !.major = 0, !.minor = 9, !.state = s] \in ParserType
        /\ [Counted EXCEPT !.major = 0, !.minor = 9, !.state = s].state = s
    BY <2>1, CountedKeeps DEF IInv, ParserType, States
  <2>3. MarksFit(marks', s)  BY <1>3, <1>4, <1>6, <2>1, CallBackUnmarks DEF States
  <2> QED BY <1>1, <1>6, <2>1, <2>2, <2>3, MovesToPlain
<1> HIDE DEF to
<1> QED BY <1>2, <1>5, <1>6, Fails DEF Url, Errors, to

LEMMA HttpHolds == ASSUME IInv, HttpStart \/ HttpLetter PROVE IInv'
<1> DEFINE S == {"s_req_http_start", "s_req_http_H", "s_req_http_HT", "s_req_http_HTT",
                 "s_req_http_HTTP", "s_req_first_http_major"}
<1>1. S \subseteq PlainStates  BY DEF PlainStates
<1>2. S \in SUBSET (States \ ItemStates)
  BY DEF States, PlainStates, ItemStates, UrlStartStates, UrlStates
<1>3. /\ status = "reading" /\ \A i \in Items : marks[i] = 0
  BY <1>2, NothingMarked DEF HttpStart, HttpLetter, HttpLetters, Case
<1>4. ASSUME NEW s \in S, Goto(s) PROVE IInv'  BY <1>1, <1>3, <1>4, GoesPlainly
<1>5. CASE HttpStart  BY <1>4, <1>5, Fails DEF HttpStart, Errors
<1>6. CASE HttpLetter  BY <1>4, <1>6, Fails DEF HttpLetter, HttpLetters, Errors
<1> QED BY <1>5, <1>6

LEMMA VersionHolds == ASSUME IInv, FirstMajor \/ Major \/ FirstMinor \/ Minor PROVE IInv'
<1> DEFINE S == {"s_req_first_http_major", "s_req_http_major", "s_req_first_http_minor",
                 "s_req_http_minor", "s_req_line_almost_done", "s_header_field_start"}
<1>1. S \subseteq PlainStates  BY DEF PlainStates
<1>2. S \in SUBSET (States \ ItemStates)
  BY DEF States, PlainStates, ItemStates, UrlStartStates, UrlStates
<1>3. /\ status = "reading" /\ parser.state \in S /\ \A i \in Items : marks[i] = 0
  BY <1>2, NothingMarked DEF FirstMajor, Major, FirstMinor, Minor, Case
<1>4. ASSUME NEW s \in S, Goto(s) PROVE IInv'  BY <1>1, <1>3, <1>4, GoesPlainly
<1>5. parser.major \in Nat /\ parser.minor \in Nat  BY DEF IInv, ParserType
<1>6. ASSUME NEW STATE n, n \in Nat, NEW STATE s, s \in S,
             \/ Consume([Counted EXCEPT !.major = n, !.state = s])
             \/ Consume([Counted EXCEPT !.minor = n, !.state = s])
             \/ s = parser.state /\ Consume([Counted EXCEPT !.major = n])
             \/ s = parser.state /\ Consume([Counted EXCEPT !.minor = n]),
             Quiet
      PROVE IInv'
  <2>1. /\ [Counted EXCEPT !.major = n, !.state = s] \in ParserType
        /\ [Counted EXCEPT !.minor = n, !.state = s] \in ParserType
        /\ [Counted EXCEPT !.major = n] \in ParserType
        /\ [Counted EXCEPT !.minor = n] \in ParserType
        /\ [Counted EXCEPT !.major = n, !.state = s].state = s
        /\ [Counted EXCEPT !.minor = n, !.state = s].state = s
        /\ [Counted EXCEPT !.major = n].state = parser.state
        /\ [Counted EXCEPT !.minor = n].state = parser.state
    BY <1>1, <1>6, CountedKeeps DEF IInv, ParserType, States
  <2> QED BY <1>1, <1>3, <1>6, <2>1, MovesPlainly DEF Quiet
<1>7. ASSUME IsNum(Byte)
      PROVE /\ DigitOf(Byte) \in Nat /\ parser.major * 10 + DigitOf(Byte) \in Nat
            /\ parser.minor * 10 + DigitOf(Byte) \in Nat
  BY <1>5, <1>7, DigitRange
<1>8. CASE FirstMajor  BY <1>6, <1>7, <1>8, Fails DEF FirstMajor, Errors
<1>9. CASE Major
  <2> DEFINE n == parser.major * 10 + DigitOf(Byte)
  <2>1. ASSUME IsNum(Byte), Consume([Counted EXCEPT !.major = n]), Quiet PROVE IInv'
    <3>1. n \in Nat  BY <1>7, <2>1
    <3> HIDE DEF n
    <3> QED BY <1>3, <1>6, <2>1, <3>1
  <2> HIDE DEF n
  <2> QED BY <1>4, <1>9, <2>1, Fails DEF Major, Errors, n
<1>10. CASE FirstMinor  BY <1>6, <1>7, <1>10, Fails DEF FirstMinor, Errors
<1>11. CASE Minor
  <2> DEFINE n == parser.minor * 10 + DigitOf(Byte)
  <2>1. ASSUME IsNum(Byte), Consume([Counted EXCEPT !.minor = n]), Quiet PROVE IInv'
    <3>1. n \in Nat  BY <1>7, <2>1
    <3> HIDE DEF n
    <3> QED BY <1>3, <1>6, <2>1, <3>1
  <2> HIDE DEF n
  <2> QED BY <1>4, <1>11, <2>1, Fails DEF Minor, Errors, n
<1> QED BY <1>8, <1>9, <1>10, <1>11

(***************************************************************************)
(* The headers.                                                            *)
(***************************************************************************)
\* The cases that only wait for the end of a line or skip blanks.
LEMMA LineEndsHold ==
  ASSUME IInv, ReqLineAlmostDone \/ HeaderAlmostDone \/ DiscardWsAlmostDone \/ ValueDiscardWs
  PROVE IInv'
<1> DEFINE S == {"s_req_line_almost_done", "s_header_almost_done", "s_header_value_discard_ws",
                 "s_header_value_discard_ws_almost_done", "s_header_value_lws",
                 "s_header_value_discard_lws", "s_header_field_start"}
<1>1. S \subseteq PlainStates  BY DEF PlainStates
<1>2. S \in SUBSET (States \ ItemStates)
  BY DEF States, PlainStates, ItemStates, UrlStartStates, UrlStates
<1>3. /\ status = "reading" /\ parser.state \in S /\ \A i \in Items : marks[i] = 0
  BY <1>2, NothingMarked
     DEF ReqLineAlmostDone, HeaderAlmostDone, DiscardWsAlmostDone, ValueDiscardWs, Case
<1>4. ASSUME NEW STATE s, s \in S, Goto(s) PROVE IInv'  BY <1>1, <1>3, <1>4, GoesPlainly
<1>5. CASE ReqLineAlmostDone  BY <1>4, <1>5, Fails DEF ReqLineAlmostDone, Errors
<1>6. CASE HeaderAlmostDone  BY <1>4, <1>6, Fails DEF HeaderAlmostDone, Errors
<1>7. CASE DiscardWsAlmostDone  BY <1>4, <1>7, Fails DEF DiscardWsAlmostDone, Errors
<1>8. CASE ValueDiscardWs
  <2> DEFINE to == CASE Byte = CR -> "s_header_value_discard_ws_almost_done"
                     [] Byte = LF -> "s_header_value_discard_lws"
                     [] OTHER -> parser.state
  <2>1. to \in S  BY <1>3
  <2>2. Goto(to)  BY <1>8 DEF ValueDiscardWs
  <2> HIDE DEF to
  <2> QED BY <1>4, <2>1, <2>2
<1> QED BY <1>5, <1>6, <1>7, <1>8

LEMMA HeaderFieldStartHolds == ASSUME IInv, HeaderFieldStart PROVE IInv'
<1>1. {"s_header_field_start"} \in SUBSET (States \ ItemStates)
  BY DEF States, PlainStates, ItemStates, UrlStartStates, UrlStates
<1>2. /\ status = "reading" /\ \A i \in Items : marks[i] = 0
  BY <1>1, CaseUnmarked DEF HeaderFieldStart
<1>3. "s_headers_almost_done" \in PlainStates  BY DEF PlainStates
<1>4. CASE Goto("s_headers_almost_done")  BY <1>2, <1>3, <1>4, GoesPlainly
<1>5. CASE Reexecute([Counted EXCEPT !.state = "s_headers_almost_done"]) /\ Quiet
  <2>1. /\ [Counted EXCEPT !.state = "s_headers_almost_done"] \in ParserType
        /\ [Counted EXCEPT !.state = "s_headers_almost_done"].state = "s_headers_almost_done"
    BY <1>3, CountedKeeps DEF IInv, ParserType, States
  <2> QED BY <1>2, <1>3, <1>5, <2>1, MovesPlainly DEF Quiet
<1>6. ASSUME NEW h \in NameStates, marks' = Marked("header_field"),
             Consume([Counted EXCEPT !.index = 0, !.state = "s_header_field", !.header_state = h])
      PROVE IInv'
  <2> DEFINE q == [Counted EXCEPT !.index = 0, !.state = "s_header_field", !.header_state = h]
  <2>1. "s_header_field" \in States  BY DEF States
  <2>2. q \in ParserType /\ q.state = "s_header_field" /\ q.header_state = h
    BY <2>1, CountedKeeps DEF IInv, ParserType
  <2> HIDE DEF q
  <2>3. ParserInv(q, again')  BY <2>2 DEF ParserInv, ChunkStates, SizeStates
  <2>4. MarksFit(Marked("header_field"), "s_header_field")
    BY <1>2 DEF MarksFit, Marked, IInv, Items
  <2>5. Consume(q)  BY <1>6 DEF q
  <2> QED BY <1>2, <1>6, <2>2, <2>3, <2>4, <2>5, Frames, Moves
<1> DEFINE h == CASE Lower(Byte) = "c" -> "h_C"
                  [] Lower(Byte) = "p" -> "h_matching_proxy_connection"
                  [] Lower(Byte) = "t" -> "h_matching_transfer_encoding"
                  [] Lower(Byte) = "u" -> "h_matching_upgrade"
                  [] OTHER -> "h_general"
<1>7. h \in NameStates  BY DEF NameStates, NameMatching
<1>8. \/ Goto("s_headers_almost_done")
      \/ Reexecute([Counted EXCEPT !.state = "s_headers_almost_done"]) /\ Quiet
      \/ Fail("INVALID_HEADER_TOKEN")
      \/ /\ marks' = Marked("header_field")
         /\ Consume([Counted EXCEPT !.index = 0, !.state = "s_header_field", !.header_state = h])
  BY DEF HeaderFieldStart
<1> HIDE DEF h
<1> QED BY <1>4, <1>5, <1>6, <1>7, <1>8, Fails DEF Errors

\* While a name is read only its mark may be set.
LEMMA InName ==
  ASSUME IInv, Case({"s_header_field"})
  PROVE /\ status = "reading" /\ parser.header_state \in NameStates
        /\ parser.state = "s_header_field"
        /\ \A i \in Items \ {"header_field"} : marks[i] = 0
<1>1. status = "reading" /\ parser.state = "s_header_field"  BY DEF Case
<1>2. parser.header_state \in NameStates  BY <1>1 DEF IInv, ParserInv
<1>3. \A i \in Items \ {"header_field"} : marks[i] = 0
  BY <1>1 DEF IInv, MarksFit, Items, UrlStartStates, UrlStates
<1> QED BY <1>1, <1>2, <1>3

LEMMA HeaderFieldTokenHolds == ASSUME IInv, HeaderFieldToken PROVE IInv'
<1>1. /\ status = "reading" /\ parser.header_state \in NameStates
      /\ parser.state = "s_header_field" /\ parser.index \in Nat
  BY InName DEF HeaderFieldToken, IInv, ParserType
<1> DEFINE h == parser.header_state
           i == IF h \in NameMatching \cup {"h_C", "h_CO", "h_CON"} THEN parser.index + 1
                ELSE parser.index
           to == NameNext(h, i, Lower(Byte))
           q == [Counted EXCEPT !.index = i, !.header_state = to]
<1>2. Consume(q) /\ Quiet  BY DEF HeaderFieldToken
<1>3. i \in Nat /\ to \in NameStates  BY <1>1, NameNextRange
<1> HIDE DEF i, to
<1>4. q \in ParserType /\ q.state = "s_header_field" /\ q.header_state = to
  BY <1>1, <1>3, CountedKeeps DEF IInv, ParserType
<1> HIDE DEF q
<1>5. ParserInv(q, again')  BY <1>3, <1>4 DEF ParserInv, ChunkStates, SizeStates
<1>6. MarksFit(marks', q.state)  BY <1>1, <1>2, <1>4 DEF IInv, Quiet
<1> QED BY <1>1, <1>2, <1>4, <1>5, <1>6, Frames, Moves

LEMMA HeaderFieldEndHolds == ASSUME IInv, HeaderFieldEnd PROVE IInv'
<1>1. status = "reading" /\ \A i \in Items \ {"header_field"} : marks[i] = 0
  BY InName DEF HeaderFieldEnd
<1> DEFINE to == CASE Byte = ":" -> "s_header_value_discard_ws"
                   [] Byte = CR -> "s_header_almost_done"
                   [] Byte = LF -> "s_header_field_start"
<1>2. CASE Consume([Counted EXCEPT !.state = to]) /\ CallBack("header_field") /\ Byte \in {":", CR, LF}
  <2>1. to \in PlainStates  BY <1>2 DEF PlainStates
  <2> HIDE DEF to
  <2>2. /\ [Counted EXCEPT !.state = to] \in ParserType
        /\ [Counted EXCEPT !.state = to].state = to
    BY <2>1, CountedKeeps DEF IInv, ParserType, States
  <2>3. MarksFit(marks', to)  BY <1>1, <1>2, <2>1, CallBackUnmarks DEF States, Items
  <2> QED BY <1>1, <1>2, <2>1, <2>2, <2>3, MovesToPlain
<1> HIDE DEF to
<1> QED BY <1>2, Fails DEF HeaderFieldEnd, Errors, to

LEMMA ValueStartHolds == ASSUME IInv, ValueStart PROVE IInv'
<1>1. {"s_header_value_discard_ws", "s_header_value_start"} \in SUBSET (States \ ItemStates)
  BY DEF States, PlainStates, ItemStates, UrlStartStates, UrlStates
<1>2. /\ status = "reading" /\ parser.state \notin ItemStates
      /\ \A i \in Items : marks[i] = 0
  BY <1>1, NothingMarked DEF ValueStart, Case
<1> DEFINE started == [Counted EXCEPT !.state = "s_header_value", !.index = 0]
           h == parser.header_state
           q == CASE h = "h_upgrade" ->
                       [started EXCEPT !.flags = @ \cup {"UPGRADE"}, !.header_state = "h_general"]
                  [] h = "h_content_length" -> [started EXCEPT !.content_length = DigitOf(Byte)]
                  [] h = "h_transfer_encoding" /\ Lower(Byte) = "c" ->
                       [started EXCEPT !.header_state = "h_matching_transfer_encoding_chunked"]
                  [] h = "h_connection" /\ Lower(Byte) = "k" ->
                       [started EXCEPT !.header_state = "h_matching_connection_keep_alive"]
                  [] h = "h_connection" /\ Lower(Byte) = "c" ->
                       [started EXCEPT !.header_state = "h_matching_connection_close"]
                  [] OTHER -> [started EXCEPT !.header_state = "h_general"]
<1>3. /\ started \in ParserType /\ started.state = "s_header_value"
      /\ started.header_state = h
  BY CountedKeeps DEF IInv, ParserType, States
<1>4. CASE /\ ~(h = "h_content_length" /\ ~IsNum(Byte)) /\ Consume(q)
           /\ marks' = Marked("header_value")
  <2>1. h = "h_content_length" => DigitOf(Byte) \in 0 .. Unset
    BY <1>4, DigitRange, LimitsAssumption
  <2> HIDE DEF started
  <2>2. q \in ParserType /\ q.state = "s_header_value" /\ q.header_state \in ValueStates
    <3>1. CASE h = "h_upgrade"
      BY <1>3, <3>1 DEF ParserType, ValueStates
    <3>2. CASE h = "h_content_length"
      BY <1>3, <2>1, <3>2 DEF ParserType, ValueStates
    <3>3. CASE h \notin {"h_upgrade", "h_content_length"}
      BY <1>3, <3>3 DEF ParserType, ValueStates, ValueMatching
    <3> QED BY <3>1, <3>2, <3>3
  <2>3. Consume(q)  BY <1>4
  <2> HIDE DEF q
  <2>4. ParserInv(q, again')  BY <2>2 DEF ParserInv, ChunkStates, SizeStates
  <2>5. MarksFit(Marked("header_value"), "s_header_value")
    BY <1>2 DEF MarksFit, Marked, IInv, Items
  <2> QED BY <1>2, <1>4, <2>2, <2>3, <2>4, <2>5, Frames, Moves
<1> HIDE DEF q
<1> QED BY <1>4, Fails DEF ValueStart, Errors, q

\* While a value is read only its mark may be set.
LEMMA InValue ==
  ASSUME IInv, Case({"s_header_value"})
  PROVE /\ status = "reading" /\ parser.header_state \in ValueStates
        /\ parser.state = "s_header_value"
        /\ \A i \in Items \ {"header_value"} : marks[i] = 0
<1>1. status = "reading" /\ parser.state = "s_header_value"  BY DEF Case
<1>2. parser.header_state \in ValueStates  BY <1>1 DEF IInv, ParserInv
<1>3. \A i \in Items \ {"header_value"} : marks[i] = 0
  BY <1>1 DEF IInv, MarksFit, Items, UrlStartStates, UrlStates
<1> QED BY <1>1, <1>2, <1>3

\* The check of the length so far leaves room for the next digit.
LEMMA LengthFits ==
  ASSUME parser \in ParserType, NEW base \in {10, 16}, ~LengthOverflows(parser, base),
         NEW d, d \in 0 .. base - 1
  PROVE parser.content_length * base + d \in 0 .. Unset - 1
<1>1. parser.content_length \in Nat /\ parser.content_length <= (Unset - base) \div base
  BY LimitsAssumption DEF LengthOverflows, ParserType
<1>2. CASE base = 10  BY <1>1, <1>2, LimitsAssumption
<1>3. CASE base = 16  BY <1>1, <1>3, LimitsAssumption
<1> QED BY <1>2, <1>3

LEMMA HeaderValueHolds == ASSUME IInv, HeaderValue PROVE IInv'
<1>1. /\ status = "reading" /\ parser.header_state \in ValueStates
      /\ parser.state = "s_header_value" /\ parser \in ParserType
      /\ parser.index \in Nat /\ parser.header_state \in NameStates \cup ValueStates
  BY InValue DEF HeaderValue, IInv, ParserType
<1> DEFINE h == parser.header_state
           i == IF h \in ValueMatching THEN parser.index + 1 ELSE parser.index
           digit == h = "h_content_length" /\ Byte # SP
           q == CASE digit -> [Counted EXCEPT !.content_length = @ * 10 + DigitOf(Byte)]
                  [] h \in ValueMatching ->
                       [Counted EXCEPT !.index = i, !.header_state = MatchNext(h, i, Lower(Byte))]
                  [] h \in ValuesFound /\ Byte # SP -> [Counted EXCEPT !.header_state = "h_general"]
                  [] h \in ValuesFound /\ Byte = SP -> Counted
                  [] h = "h_content_length" /\ Byte = SP -> Counted
                  [] OTHER -> [Counted EXCEPT !.header_state = "h_general"]
<1>2. CASE ~(digit /\ (~IsNum(Byte) \/ LengthOverflows(parser, 10))) /\ Consume(q) /\ Quiet
  <2>1. /\ Counted \in ParserType /\ Counted.state = "s_header_value" /\ Counted.header_state = h
        /\ Counted.content_length = parser.content_length
    BY <1>1, CountedKeeps
  <2>2. q \in ParserType /\ q.state = "s_header_value" /\ q.header_state \in ValueStates
    <3>1. CASE digit
      <4>1. parser.content_length * 10 + DigitOf(Byte) \in 0 .. Unset - 1
        BY <1>1, <1>2, <3>1, DigitRange, LengthFits
      <4>2. parser.content_length * 10 + DigitOf(Byte) \in 0 .. Unset
        BY <4>1, LimitsAssumption
      <4>3. q = [Counted EXCEPT !.content_length = parser.content_length * 10 + DigitOf(Byte)]
        BY <2>1, <3>1 DEF ValueMatching, ValuesFound
      <4>5. h \in ValueStates  BY <1>1
      <4> HIDE DEF q
      <4> QED BY <2>1, <4>2, <4>3, <4>5 DEF ParserType
    <3>2. CASE ~digit /\ h \in ValueMatching
      <4> DEFINE to == MatchNext(h, i, Lower(Byte))
      <4>1. to \in ValueStates  BY <3>2, ValueNextRange DEF ValueStates
      <4>2. i \in Nat  BY <1>1
      <4>3. q = [Counted EXCEPT !.index = i, !.header_state = to]
        BY <3>2 DEF ValueMatching, ValuesFound
      <4> HIDE DEF q, to, i
      <4> QED BY <2>1, <4>1, <4>2, <4>3 DEF ParserType
    <3>3. CASE ~digit /\ h \notin ValueMatching
      BY <1>1, <2>1, <3>3 DEF ParserType, ValueStates
    <3> QED BY <3>1, <3>2, <3>3
  <2>3. Consume(q) /\ Quiet  BY <1>2
  <2> HIDE DEF q
  <2>4. ParserInv(q, again')  BY <2>2 DEF ParserInv, ChunkStates, SizeStates
  <2>5. MarksFit(marks', q.state)  BY <1>1, <2>2, <2>3 DEF IInv, Quiet
  <2> QED BY <1>1, <2>2, <2>3, <2>4, <2>5, Frames, Moves
<1> HIDE DEF q
<1> QED BY <1>2, Fails DEF HeaderValue, Errors, q

LEMMA HeaderValueEndHolds == ASSUME IInv, HeaderValueEnd PROVE IInv'
<1>1. status = "reading" /\ \A i \in Items \ {"header_value"} : marks[i] = 0
  BY InValue DEF HeaderValueEnd
<1>2. "s_header_almost_done" \in PlainStates  BY DEF PlainStates
<1> DEFINE q == [Counted EXCEPT !.state = "s_header_almost_done"]
<1>3. q \in ParserType /\ q.state = "s_header_almost_done"
  BY <1>2, CountedKeeps DEF IInv, ParserType, States
<1>4. (Consume(q) \/ Reexecute(q)) /\ CallBack("header_value")  BY DEF HeaderValueEnd
<1> HIDE DEF q
<1>5. MarksFit(marks', q.state)  BY <1>1, <1>2, <1>3, <1>4, CallBackUnmarks DEF States, Items
<1> QED BY <1>1, <1>2, <1>3, <1>4, <1>5, MovesToPlain

LEMMA HeaderValueLwsHolds == ASSUME IInv, HeaderValueLws PROVE IInv'
<1>1. {"s_header_value_lws"} \in SUBSET (States \ ItemStates)
  BY DEF States, PlainStates, ItemStates, UrlStartStates, UrlStates
<1>2. status = "reading" /\ \A i \in Items : marks[i] = 0
  BY <1>1, CaseUnmarked DEF HeaderValueLws
<1>3. {"s_header_value_start", "s_header_field_start"} \subseteq PlainStates  BY DEF PlainStates
<1>4. CASE Reexecute([Counted EXCEPT !.state = "s_header_value_start"]) /\ Quiet
  <2>1. /\ [Counted EXCEPT !.state = "s_header_value_start"] \in ParserType
        /\ [Counted EXCEPT !.state = "s_header_value_start"].state = "s_header_value_start"
    BY <1>3, CountedKeeps DEF IInv, ParserType, States
  <2> QED BY <1>2, <1>3, <1>4, <2>1, MovesPlainly DEF Quiet
<1>5. ASSUME NEW F \in SUBSET {"KEEP_ALIVE", "CLOSE", "CHUNKED"}, Quiet,
             Reexecute([Counted EXCEPT !.flags = @ \cup F, !.state = "s_header_field_start"])
      PROVE IInv'
  <2> DEFINE q == [Counted EXCEPT !.flags = @ \cup F, !.state = "s_header_field_start"]
  <2>1. q \in ParserType /\ q.state = "s_header_field_start"
    BY <1>3, CountedKeeps DEF IInv, ParserType, States
  <2>2. Reexecute(q)  BY <1>5
  <2> HIDE DEF q
  <2> QED BY <1>2, <1>3, <1>5, <2>1, <2>2, MovesPlainly DEF Quiet
<1> DEFINE flag == CASE parser.header_state = "h_connection_keep_alive" -> {"KEEP_ALIVE"}
                     [] parser.header_state = "h_connection_close" -> {"CLOSE"}
                     [] parser.header_state = "h_transfer_encoding_chunked" -> {"CHUNKED"}
                     [] OTHER -> {}
<1>6. flag \in SUBSET {"KEEP_ALIVE", "CLOSE", "CHUNKED"}  OBVIOUS
<1>7. /\ Quiet
      /\ \/ Reexecute([Counted EXCEPT !.state = "s_header_value_start"])
         \/ Reexecute([Counted EXCEPT !.flags = @ \cup flag, !.state = "s_header_field_start"])
  BY DEF HeaderValueLws
<1> HIDE DEF flag
<1> QED BY <1>4, <1>5, <1>6, <1>7

LEMMA DiscardLwsHolds == ASSUME IInv, DiscardLws PROVE IInv'
<1>1. {"s_header_value_discard_lws"} \in SUBSET (States \ ItemStates)
  BY DEF States, PlainStates, ItemStates, UrlStartStates, UrlStates
<1>2. status = "reading" /\ \A i \in Items : marks[i] = 0
  BY <1>1, CaseUnmarked DEF DiscardLws
<1>3. {"s_header_value_discard_ws", "s_header_field_start"} \subseteq PlainStates
  BY DEF PlainStates
<1>4. CASE Goto("s_header_value_discard_ws")  BY <1>2, <1>3, <1>4, GoesPlainly
<1>5. CASE Reexecute([Counted EXCEPT !.state = "s_header_field_start"]) /\ UNCHANGED marks
  <2>1. /\ [Counted EXCEPT !.state = "s_header_field_start"] \in ParserType
        /\ [Counted EXCEPT !.state = "s_header_field_start"].state = "s_header_field_start"
    BY <1>3, CountedKeeps DEF IInv, ParserType, States
  <2> QED BY <1>2, <1>3, <1>5, <2>1, MovesPlainly
<1> QED BY <1>4, <1>5 DEF DiscardLws

LEMMA NewMessagePlain == ASSUME NEW q PROVE NewMessage(q) \in PlainStates
BY DEF NewMessage, PlainStates

LEMMA HeadersAlmostDoneHolds == ASSUME IInv, HeadersAlmostDone PROVE IInv'
<1>1. {"s_headers_almost_done"} \in SUBSET (States \ ItemStates)
  BY DEF States, PlainStates, ItemStates, UrlStartStates, UrlStates
<1>2. status = "reading" /\ \A i \in Items : marks[i] = 0
  BY <1>1, CaseUnmarked DEF HeadersAlmostDone
<1> DEFINE fresh == [Counted EXCEPT !.state = NewMessage(parser)]
           u == "UPGRADE" \in parser.flags \/ parser.method = CONNECT
           on == [Counted EXCEPT !.state = "s_headers_done", !.upgrade = u]
<1>3. CASE Consume(fresh) /\ Complete(fresh)
  <2>1. fresh \in ParserType /\ fresh.state \in PlainStates
    BY NewMessagePlain, CountedKeeps DEF IInv, ParserType, States
  <2> HIDE DEF fresh
  <2> QED BY <1>2, <1>3, <2>1, MovesPlainly DEF Complete
<1>4. CASE Reexecute(on) /\ UNCHANGED marks
  <2>1. "s_headers_done" \in PlainStates  BY DEF PlainStates
  <2>2. u \in BOOLEAN  OBVIOUS
  <2> HIDE DEF u
  <2>3. on \in ParserType /\ on.state = "s_headers_done"
    BY <2>1, <2>2, CountedKeeps DEF IInv, ParserType, States
  <2> HIDE DEF on
  <2> QED BY <1>2, <1>4, <2>1, <2>3, MovesPlainly
<1> HIDE DEF fresh
<1> QED BY <1>3, <1>4, Fails DEF HeadersAlmostDone, Errors, fresh

LEMMA HeadersDoneHolds == ASSUME IInv, HeadersDone PROVE IInv'
<1>1. {"s_headers_done"} \in SUBSET (States \ ItemStates)
  BY DEF States, PlainStates, ItemStates, UrlStartStates, UrlStates
<1>2. status = "reading" /\ \A i \in Items : marks[i] = 0
  BY <1>1, CaseUnmarked DEF HeadersDone
<1> DEFINE ready == [Counted EXCEPT !.nread = 0]
           fresh == [ready EXCEPT !.state = NewMessage(parser)]
           body == [ready EXCEPT !.state = IF "CHUNKED" \in parser.flags THEN "s_chunk_size_start"
                                           ELSE "s_body_identity"]
<1>3. /\ ready \in ParserType /\ ready.nread = 0 /\ ready.flags = parser.flags
      /\ ready.content_length = parser.content_length
  BY CountedKeeps DEF IInv, ParserType
<1> HIDE DEF ready
<1>4. fresh \in ParserType /\ fresh.state \in PlainStates
  BY <1>3, NewMessagePlain DEF ParserType, States
<1>5. CASE Consume(fresh) /\ Complete(fresh)
  <2> HIDE DEF fresh
  <2> QED BY <1>2, <1>4, <1>5, MovesPlainly DEF Complete
<1>6. CASE /\ parser' = fresh /\ pos' = pos + 1 /\ again' = FALSE
           /\ status' = IF pos + 1 = end THEN "idle" ELSE "closed"
           /\ Complete(fresh) /\ UNCHANGED <<input, end>>
  <2> HIDE DEF fresh
  <2>1. again' \in BOOLEAN  BY <1>6, Zenon
  <2>2. ParserInv(fresh, again')
    BY <1>4 DEF ParserInv, PlainStates, ChunkStates, SizeStates
  <2>3. marks' = NoMarks  BY <1>2, <1>6 DEF Complete, NoMarks, IInv, MarksFit
  <2>4. MarksFit(NoMarks, fresh.state)  BY DEF MarksFit, NoMarks, Items
  <2>5. parser' = fresh /\ pos' \in Nat /\ status' \in {"idle", "closed"} /\ UNCHANGED <<input, end>>
    BY <1>6 DEF IInv
  <2> QED BY <1>4, <2>1, <2>2, <2>3, <2>4, <2>5 DEF IInv
<1>7. CASE /\ ~("CHUNKED" \notin parser.flags /\ parser.content_length \in {0, Unset})
           /\ Consume(body) /\ Quiet
  <2>1. {"s_chunk_size_start", "s_body_identity"} \subseteq States  BY DEF States, ChunkStates
  <2>2. /\ body \in ParserType /\ body.flags = parser.flags /\ body.nread = 0
        /\ body.content_length = parser.content_length
        /\ body.state = IF "CHUNKED" \in parser.flags THEN "s_chunk_size_start" ELSE "s_body_identity"
    BY <1>3, <2>1 DEF ParserType
  <2>3. Consume(body) /\ Quiet  BY <1>7
  <2> HIDE DEF body
  <2>4. ~again'  BY <2>3 DEF Consume
  <2>5. ParserInv(body, again')
    BY <1>7, <2>2, <2>4 DEF ParserInv, ChunkStates, SizeStates
  <2>6. MarksFit(marks', body.state)  BY <1>2, <2>3 DEF MarksFit, Quiet, IInv, Items
  <2> QED BY <1>2, <2>2, <2>3, <2>5, <2>6, Frames, Moves
<1> HIDE DEF fresh, body
<1> QED BY <1>5, <1>6, <1>7, Fails DEF HeadersDone, Errors, fresh, body, ready

(***************************************************************************)
(* The body.                                                               *)
(***************************************************************************)
\* What a read holds of a body or of a chunk.
LEMMA Reading ==
  ASSUME IInv, pos < end, parser.content_length \notin {0, Unset}
  PROVE /\ ToRead \in Nat /\ ToRead >= 1
        /\ Left \in 0 .. Unset /\ Left # Unset
        /\ pos + ToRead \in Nat /\ pos + ToRead - 1 \in Nat
BY LimitsAssumption DEF IInv, ParserType, ToRead, Left

\* While a body is read only its mark may be set.
LEMMA InBody ==
  ASSUME IInv, parser.state \in {"s_body_identity", "s_chunk_data", "s_chunk_data_almost_done"}
  PROVE \A i \in Items \ {"body"} : marks[i] = 0
BY DEF IInv, MarksFit, Items, UrlStartStates, UrlStates

LEMMA BodyMarked ==
  ASSUME IInv, parser.state \in {"s_body_identity", "s_chunk_data"},
         NEW s \in {"s_body_identity", "s_chunk_data", "s_chunk_data_almost_done"}
  PROVE MarksFit(Marked("body"), s)
BY InBody DEF IInv, MarksFit, Items, Marked

LEMMA BodyIdentityHolds == ASSUME IInv, BodyIdentity PROVE IInv'
<1>1. /\ status = "reading" /\ pos < end /\ parser.state = "s_body_identity"
      /\ parser \in ParserType /\ pos \in Nat
  BY DEF BodyIdentity, Case, IInv
<1>2. parser.content_length \notin {0, Unset}  BY <1>1 DEF IInv, ParserInv
<1>3. /\ Left \in 0 .. Unset /\ Left # Unset
      /\ pos + ToRead \in Nat /\ pos + ToRead - 1 \in Nat
  BY <1>1, <1>2, Reading
<1>4. again' \in BOOLEAN  BY Zenon DEF BodyIdentity
<1>5. {"s_message_done", "s_body_identity"} \subseteq States  BY DEF States, PlainStates
<1>6. UNCHANGED <<input, end, status>> /\ pos' \in Nat  BY <1>3 DEF BodyIdentity
<1>7. CASE Left = 0
  <2> DEFINE q == [parser EXCEPT !.content_length = Left, !.state = "s_message_done"]
  <2>1. parser' = q  BY <1>7 DEF BodyIdentity
  <2>2. q \in ParserType /\ q.state = "s_message_done"  BY <1>1, <1>3, <1>5 DEF ParserType
  <2> HIDE DEF q
  <2>3. ParserInv(q, again')  BY <2>2 DEF ParserInv, ChunkStates, SizeStates
  <2>4. marks' = Unmarked("body")  BY <1>7 DEF BodyIdentity
  <2>5. MarksFit(Unmarked("body"), q.state)
    BY <1>1, InBody DEF Unmarked, MarksFit, IInv, Items
  <2> QED BY <1>1, <1>4, <1>6, <2>1, <2>2, <2>3, <2>4, <2>5, Moves
<1>8. CASE Left # 0
  <2> DEFINE q == [parser EXCEPT !.content_length = Left, !.state = "s_body_identity"]
  <2>1. parser' = q  BY <1>1, <1>8 DEF BodyIdentity
  <2>2. q \in ParserType /\ q.state = "s_body_identity" /\ q.content_length = Left
    BY <1>1, <1>3, <1>5 DEF ParserType
  <2> HIDE DEF q
  <2>3. ParserInv(q, again')
    BY <1>3, <1>8, <2>2 DEF ParserInv, ChunkStates, SizeStates
  <2>4. marks' = Marked("body")  BY <1>8 DEF BodyIdentity
  <2>5. MarksFit(Marked("body"), q.state)  BY <1>1, <2>2, BodyMarked
  <2> QED BY <1>1, <1>4, <1>6, <2>1, <2>2, <2>3, <2>4, <2>5, Moves
<1> QED BY <1>7, <1>8

LEMMA MessageDoneHolds == ASSUME IInv, MessageDone PROVE IInv'
<1>1. {"s_message_done"} \in SUBSET (States \ ItemStates)
  BY DEF States, PlainStates, ItemStates, UrlStartStates, UrlStates
<1>2. status = "reading" /\ \A i \in Items : marks[i] = 0
  BY <1>1, CaseUnmarked DEF MessageDone
<1> DEFINE fresh == [Counted EXCEPT !.state = NewMessage(parser)]
<1>3. fresh \in ParserType /\ fresh.state \in PlainStates
  BY NewMessagePlain, CountedKeeps DEF IInv, ParserType, States
<1>4. Consume(fresh) /\ Complete(fresh)  BY DEF MessageDone
<1> HIDE DEF fresh
<1> QED BY <1>2, <1>3, <1>4, MovesPlainly DEF Complete

\* A step from one state in which a chunk is announced to another.
LEMMA ChunkMoves ==
  ASSUME IInv, status = "reading", \A i \in Items : marks[i] = 0, "CHUNKED" \in parser.flags,
         NEW STATE q, q \in ParserType, Consume(q), Quiet, q.flags = parser.flags,
         q.state \in ChunkStates \ {"s_chunk_data_almost_done"},
         q.state = "s_chunk_size_start" => q.nread = 0,
         q.state \in SizeStates => q.content_length # Unset,
         q.state = "s_chunk_data" => q.content_length \notin {0, Unset}
  PROVE IInv'
<1>1. ~again'  BY DEF Consume
<1>2. ParserInv(q, again')  BY <1>1 DEF ParserInv, ChunkStates
<1>3. MarksFit(marks', q.state)  BY DEF MarksFit, Quiet, IInv, Items
<1> QED BY <1>2, <1>3, Frames, Moves

\* Between chunks nothing is marked, and the message is chunked.
LEMMA InChunks ==
  ASSUME IInv, NEW S \in SUBSET (ChunkStates \ {"s_chunk_data", "s_chunk_data_almost_done"}),
         Case(S)
  PROVE /\ status = "reading" /\ parser.state \in S /\ "CHUNKED" \in parser.flags
        /\ parser.state \in SizeStates => parser.content_length # Unset
        /\ \A i \in Items : marks[i] = 0
        /\ parser \in ParserType
<1>1. S \in SUBSET (States \ ItemStates)
  BY DEF States, ChunkStates, ItemStates, UrlStartStates, UrlStates
<1> QED BY <1>1, CaseUnmarked DEF IInv, ParserInv

LEMMA ChunkSizeStartHolds == ASSUME IInv, ChunkSizeStart PROVE IInv'
<1>1. {"s_chunk_size_start"} \in SUBSET (ChunkStates \ {"s_chunk_data", "s_chunk_data_almost_done"})
  BY DEF ChunkStates
<1>2. /\ status = "reading" /\ "CHUNKED" \in parser.flags /\ parser \in ParserType
      /\ \A i \in Items : marks[i] = 0
  BY <1>1, InChunks DEF ChunkSizeStart
<1> DEFINE q == [Counted EXCEPT !.content_length = HexOf(Byte), !.state = "s_chunk_size"]
<1>3. CASE IsHex(Byte) /\ Consume(q) /\ Quiet
  <2>1. HexOf(Byte) \in 0 .. Unset /\ HexOf(Byte) # Unset
    BY <1>3, HexRange, LimitsAssumption
  <2>2. "s_chunk_size" \in States  BY DEF States, ChunkStates
  <2>3. /\ q \in ParserType /\ q.state = "s_chunk_size" /\ q.flags = parser.flags
        /\ q.content_length # Unset
    BY <1>2, <2>1, <2>2, CountedKeeps DEF ParserType
  <2> HIDE DEF q
  <2> QED BY <1>2, <1>3, <2>3, ChunkMoves DEF ChunkStates
<1> HIDE DEF q
<1> QED BY <1>3, Fails DEF ChunkSizeStart, Errors, q

LEMMA ChunkSizeHolds == ASSUME IInv, ChunkSize \/ ChunkParameters PROVE IInv'
<1> DEFINE S == {"s_chunk_size", "s_chunk_parameters", "s_chunk_size_almost_done"}
<1>1. S \in SUBSET (ChunkStates \ {"s_chunk_data", "s_chunk_data_almost_done"})
  BY DEF ChunkStates
<1>2. /\ status = "reading" /\ "CHUNKED" \in parser.flags /\ parser \in ParserType
      /\ parser.state \in S /\ \A i \in Items : marks[i] = 0
      /\ parser.content_length # Unset
  BY <1>1, InChunks DEF ChunkSize, ChunkParameters, SizeStates, Case
<1>3. ASSUME NEW STATE s, s \in S, Goto(s) PROVE IInv'
  <2> DEFINE q == [Counted EXCEPT !.state = s]
  <2>1. /\ q \in ParserType /\ q.state = s /\ q.flags = parser.flags
        /\ q.content_length = parser.content_length
    BY <1>1, <1>2, <1>3, CountedKeeps DEF ParserType, States
  <2>2. Consume(q) /\ Quiet  BY <1>3 DEF Goto
  <2> HIDE DEF q
  <2> QED BY <1>2, <1>3, <2>1, <2>2, ChunkMoves DEF ChunkStates
<1>4. CASE ChunkParameters  BY <1>2, <1>3, <1>4 DEF ChunkParameters
<1>5. ASSUME IsHex(Byte), ~LengthOverflows(parser, 16), Case({"s_chunk_size"}), Quiet,
             Consume([Counted EXCEPT !.content_length = @ * 16 + HexOf(Byte)])
      PROVE IInv'
  <2> DEFINE n == parser.content_length * 16 + HexOf(Byte)
             q == [Counted EXCEPT !.content_length = n]
  <2>1. n \in 0 .. Unset /\ n # Unset
    BY <1>2, <1>5, HexRange, LengthFits, LimitsAssumption
  <2>2. Consume(q)  BY <1>2, <1>5, CountedKeeps
  <2> HIDE DEF n
  <2>3. /\ q \in ParserType /\ q.state = "s_chunk_size" /\ q.flags = parser.flags
        /\ q.content_length = n
    BY <1>2, <1>5, <2>1, CountedKeeps DEF ParserType, Case
  <2> HIDE DEF q
  <2> QED BY <1>2, <1>5, <2>1, <2>2, <2>3, ChunkMoves DEF ChunkStates
<1>6. CASE ChunkSize  BY <1>3, <1>5, <1>6, Fails DEF ChunkSize, Errors
<1> QED BY <1>4, <1>6

LEMMA ChunkSizeAlmostDoneHolds == ASSUME IInv, ChunkSizeAlmostDone PROVE IInv'
<1>1. {"s_chunk_size_almost_done"}
        \in SUBSET (ChunkStates \ {"s_chunk_data", "s_chunk_data_almost_done"})
  BY DEF ChunkStates
<1>2. /\ status = "reading" /\ "CHUNKED" \in parser.flags /\ parser \in ParserType
      /\ parser.content_length # Unset /\ \A i \in Items : marks[i] = 0
  BY <1>1, InChunks DEF ChunkSizeAlmostDone, SizeStates, Case
<1> DEFINE last == [Counted EXCEPT !.nread = 0, !.flags = @ \cup {"TRAILING"},
                                   !.state = "s_header_field_start"]
           data == [Counted EXCEPT !.nread = 0, !.state = "s_chunk_data"]
<1>3. CASE Consume(last) /\ Quiet
  <2>1. "s_header_field_start" \in PlainStates  BY DEF PlainStates
  <2>2. last \in ParserType /\ last.state = "s_header_field_start"
    BY <1>2, <2>1, CountedKeeps DEF ParserType, States
  <2> HIDE DEF last
  <2> QED BY <1>2, <1>3, <2>1, <2>2, MovesPlainly DEF Quiet
<1>4. CASE parser.content_length # 0 /\ Consume(data) /\ Quiet
  <2>1. "s_chunk_data" \in States  BY DEF States, ChunkStates
  <2>2. /\ data \in ParserType /\ data.state = "s_chunk_data" /\ data.flags = parser.flags
        /\ data.content_length = parser.content_length
    BY <1>2, <2>1, CountedKeeps DEF ParserType
  <2> HIDE DEF data
  <2> QED BY <1>2, <1>4, <2>2, ChunkMoves DEF ChunkStates, SizeStates
<1> HIDE DEF last, data
<1> QED BY <1>3, <1>4, Fails DEF ChunkSizeAlmostDone, Errors, last, data

LEMMA ChunkDataHolds == ASSUME IInv, ChunkData PROVE IInv'
<1>1. /\ status = "reading" /\ pos < end /\ parser.state = "s_chunk_data"
      /\ parser \in ParserType /\ pos \in Nat
  BY DEF ChunkData, Case, IInv
<1>2. parser.content_length \notin {0, Unset} /\ "CHUNKED" \in parser.flags
  BY <1>1 DEF IInv, ParserInv, ChunkStates
<1>3. /\ Left \in 0 .. Unset /\ Left # Unset /\ pos + ToRead \in Nat
  BY <1>1, <1>2, Reading
<1>4. ~again' /\ again' \in BOOLEAN  BY Zenon DEF ChunkData
<1> DEFINE s == IF Left = 0 THEN "s_chunk_data_almost_done" ELSE "s_chunk_data"
           q == [parser EXCEPT !.content_length = Left, !.state = s]
<1>5. s \in States  BY DEF States, ChunkStates
<1>6. parser' = q  BY <1>1 DEF ChunkData
<1>7. /\ q \in ParserType /\ q.state = s /\ q.content_length = Left /\ q.flags = parser.flags
  BY <1>1, <1>3, <1>5 DEF ParserType
<1> HIDE DEF q
<1>8. ParserInv(q, again')
  BY <1>2, <1>3, <1>4, <1>7 DEF ParserInv, ChunkStates, SizeStates
<1>9. marks' = Marked("body")  BY DEF ChunkData
<1>10. MarksFit(Marked("body"), q.state)  BY <1>1, <1>7, BodyMarked
<1>11. UNCHANGED <<input, end, status>> /\ pos' \in Nat  BY <1>3 DEF ChunkData
<1> QED BY <1>1, <1>4, <1>6, <1>7, <1>8, <1>9, <1>10, <1>11, Moves

LEMMA ChunkDataAlmostDoneHolds == ASSUME IInv, ChunkDataAlmostDone PROVE IInv'
<1>1. /\ status = "reading" /\ parser.state = "s_chunk_data_almost_done"
      /\ parser \in ParserType
  BY DEF ChunkDataAlmostDone, Case, IInv
<1>2. "CHUNKED" \in parser.flags  BY <1>1 DEF IInv, ParserInv, ChunkStates
<1> DEFINE q == [Counted EXCEPT !.state = "s_chunk_data_done"]
<1>3. CASE Consume(q) /\ CallBack("body")
  <2>1. "s_chunk_data_done" \in States  BY DEF States, ChunkStates
  <2>2. q \in ParserType /\ q.state = "s_chunk_data_done" /\ q.flags = parser.flags
    BY <1>1, <2>1, CountedKeeps DEF ParserType
  <2> HIDE DEF q
  <2>3. ParserInv(q, again')  BY <1>2, <2>2 DEF ParserInv, SizeStates
  <2>4. MarksFit(marks', q.state)
    BY <1>1, <1>3, <2>1, <2>2, InBody, CallBackUnmarks DEF Items
  <2> QED BY <1>1, <1>3, <2>2, <2>3, <2>4, Frames, Moves
<1> HIDE DEF q
<1> QED BY <1>3, Fails DEF ChunkDataAlmostDone, Errors, q

LEMMA ChunkDataDoneHolds == ASSUME IInv, ChunkDataDone PROVE IInv'
<1>1. {"s_chunk_data_done"} \in SUBSET (ChunkStates \ {"s_chunk_data", "s_chunk_data_almost_done"})
  BY DEF ChunkStates
<1>2. /\ status = "reading" /\ "CHUNKED" \in parser.flags /\ parser \in ParserType
      /\ \A i \in Items : marks[i] = 0
  BY <1>1, InChunks DEF ChunkDataDone
<1> DEFINE q == [Counted EXCEPT !.nread = 0, !.state = "s_chunk_size_start"]
<1>3. CASE Consume(q) /\ Quiet
  <2>1. "s_chunk_size_start" \in States  BY DEF States, ChunkStates
  <2>2. /\ q \in ParserType /\ q.state = "s_chunk_size_start" /\ q.nread = 0
        /\ q.flags = parser.flags
    BY <1>2, <2>1, CountedKeeps DEF ParserType
  <2> HIDE DEF q
  <2> QED BY <1>2, <1>3, <2>2, ChunkMoves DEF ChunkStates, SizeStates
<1> HIDE DEF q
<1> QED BY <1>3, Fails DEF ChunkDataDone, Errors, q

(***************************************************************************)
(* Reads.                                                                  *)
(***************************************************************************)
LEMMA FeedHolds == ASSUME IInv, Feed PROVE IInv'
<1>1. Len(input) \in Nat /\ pos \in Nat  BY DEF IInv
<1>2. PICK n \in 1 .. Len(input) - pos : end' = pos + n  BY DEF Feed
<1>3. end' \in Nat  BY <1>1, <1>2
<1>4. MarksFit(MarkAtStart(parser.state), parser.state)
  BY <1>1 DEF MarkAtStart, MarksFit, NoMarks, Items, UrlStartStates, UrlStates
<1>5. /\ status = "idle" /\ status' = "reading" /\ marks' = MarkAtStart(parser.state)
      /\ UNCHANGED <<input, pos, again, parser>>
  BY DEF Feed
<1> QED BY <1>3, <1>4, <1>5 DEF IInv

LEMMA NoMarksFit == ASSUME NEW s PROVE MarksFit(NoMarks, s)
BY DEF MarksFit, NoMarks, Items

LEMMA ReadEndsHolds == ASSUME IInv, ReadEnds PROVE IInv'
BY NoMarksFit DEF IInv, ReadEnds

LEMMA DoneHolds == ASSUME IInv, Done PROVE IInv'
<1>1. /\ status' = "closed" /\ UNCHANGED <<input, pos, end, again, marks>> /\ marks = NoMarks
  BY DEF Done, IInv
<1>2. parser' \in ParserType  BY DEF Done, IInv, ParserType, Errors
<1> QED BY <1>1, <1>2, NoMarksFit DEF IInv

LEMMA StepHolds == IInv /\ [Next]_vars => IInv'
<1> SUFFICES ASSUME IInv, [Next]_vars PROVE IInv'  OBVIOUS
<1>1. CASE RequestLine
  BY <1>1, DeadCaseHolds, StartReqHolds, ReqMethodHolds, SpacesBeforeUrlHolds, UrlStartHolds,
     UrlHolds, HttpHolds, VersionHolds, LineEndsHold DEF RequestLine
<1>2. CASE Headers
  BY <1>2, HeaderFieldStartHolds, HeaderFieldTokenHolds, HeaderFieldEndHolds, LineEndsHold,
     ValueStartHolds, HeaderValueHolds, HeaderValueEndHolds, HeaderValueLwsHolds,
     DiscardLwsHolds, HeadersAlmostDoneHolds, HeadersDoneHolds DEF Headers
<1>3. CASE Body
  BY <1>3, BodyIdentityHolds, MessageDoneHolds, ChunkSizeStartHolds, ChunkSizeHolds,
     ChunkSizeAlmostDoneHolds, ChunkDataHolds, ChunkDataAlmostDoneHolds, ChunkDataDoneHolds
     DEF Body
<1>4. CASE UNCHANGED vars
  BY <1>4 DEF vars, IInv, ParserInv, MarksFit
<1> QED BY <1>1, <1>2, <1>3, <1>4, OverflowHolds, FeedHolds, ReadEndsHolds, DoneHolds DEF Next

\* The invariant says what the assertions say.
LEMMA InvImplies == IInv => AssertsHold
<1> SUFFICES ASSUME IInv, status # "closed" PROVE AssertsHold  BY DEF AssertsHold
<1>1. ParserInv(parser, again)  BY DEF IInv
<1>2. \A i, j \in Items : marks[i] # 0 /\ marks[j] # 0 => i = j
  BY DEF IInv, MarksFit, Items, UrlStartStates, UrlStates
<1>3. {"h_connection", "h_transfer_encoding"} \cap ValueStates = {}
  BY DEF ValueStates, ValueMatching, ValuesFound
<1> QED BY <1>1, <1>2, <1>3 DEF AssertsHold, ParserInv

(***************************************************************************)
(* No assertion of http_parser_execute fails, for every set of streams a   *)
(* client may send, however they are cut into reads, and for every limit   *)
(* on the headers and on a length (http_parser_merged.h:1698-2219).        *)
(***************************************************************************)
THEOREM ParserAssertionsHold == ParserSpec => []AssertsHold
<1>1. ParserInit => IInv  BY InitHolds
<1>2. IInv /\ [Next]_vars => IInv'  BY StepHolds
<1>3. IInv => AssertsHold  BY InvImplies
<1> QED BY <1>1, <1>2, <1>3, PTL DEF ParserSpec

(***************************************************************************)
(* WebSocket connections.                                                   *)
(***************************************************************************)

-----------------------------------------------------------------------------
(* Runs of messages.                                                        *)

\* What Follow (of InOrder) says, with its bounds in order.
Follows(P, s, all, a, b) == a \in Nat /\ b \in Nat /\ a <= b /\ Follow(P, s, all, a, b)

\* Numbers f the places of s.
Numbers(f, P, s, all, a, b) ==
    /\ f \in [P -> a + 1 .. b]
    /\ \A i \in P : s[i].load = all[f[i]]
    /\ \A i, j \in P : i < j => f[i] < f[j]
    /\ \A n \in a + 1 .. b : \E i \in P : f[i] = n

\* A numbering shows that the loads follow.
LEMMA FollowsNumbers ==
    ASSUME NEW P, NEW s, NEW all, NEW a \in Nat, NEW b \in Nat, a <= b,
           NEW f, Numbers(f, P, s, all, a, b)
    PROVE  Follows(P, s, all, a, b)
BY DEF Follows, Follow, Numbers

\* Loads that follow can be numbered.
LEMMA NumbersFollows ==
    ASSUME NEW P, NEW s, NEW all, NEW a, NEW b, Follows(P, s, all, a, b)
    PROVE  a \in Nat /\ b \in Nat /\ a <= b /\ \E f : Numbers(f, P, s, all, a, b)
BY DEF Follows, Follow, Numbers

\* No places.
LEMMA FollowsNone ==
    ASSUME NEW P, P = {}, NEW s, NEW all, NEW a \in Nat
    PROVE  Follows(P, s, all, a, a)
<1> DEFINE f == [i \in P |-> 0]
<1>1. Numbers(f, P, s, all, a, a)
  BY DEF Numbers
<1> QED BY <1>1, FollowsNumbers

\* Only what is at the places counts, and what is between a and b.
LEMMA FollowsSame ==
    ASSUME NEW P, NEW s, NEW t, NEW all, NEW more, NEW a, NEW b, Follows(P, s, all, a, b),
           \A i \in P : t[i].load = s[i].load,
           \A n \in a + 1 .. b : more[n] = all[n]
    PROVE  Follows(P, t, more, a, b)
<1>1. PICK f : a \in Nat /\ b \in Nat /\ a <= b /\ Numbers(f, P, s, all, a, b)
  BY NumbersFollows
<1>2. Numbers(f, P, t, more, a, b)
  BY <1>1 DEF Numbers
<1> QED BY <1>1, <1>2, FollowsNumbers

\* One more at the end.
LEMMA FollowsNext ==
    ASSUME NEW P \in SUBSET Nat, NEW s, NEW t, NEW all, NEW a, NEW b, Follows(P, s, all, a, b),
           NEW n \in Nat, \A i \in P : i < n /\ t[i].load = s[i].load,
           t[n].load = all[b + 1]
    PROVE  Follows(P \cup {n}, t, all, a, b + 1)
<1>1. PICK f : a \in Nat /\ b \in Nat /\ a <= b /\ Numbers(f, P, s, all, a, b)
  BY NumbersFollows
<1> DEFINE g == [i \in P \cup {n} |-> IF i = n THEN b + 1 ELSE f[i]]
<1>0. n \notin P
  OBVIOUS
<1>2. /\ g \in [P \cup {n} -> a + 1 .. b + 1] /\ g[n] = b + 1
      /\ \A i \in P : g[i] = f[i] /\ f[i] \in a + 1 .. b
  BY <1>0, <1>1 DEF Numbers
<1> HIDE DEF g
<1>3. \A i \in P \cup {n} : t[i].load = all[g[i]]
  BY <1>1, <1>2 DEF Numbers
<1>4. ASSUME NEW i \in P \cup {n}, NEW j \in P \cup {n}, i < j PROVE g[i] < g[j]
  <2>1. CASE j = n
    <3>1. i \in P
      BY <2>1, <1>4
    <3> QED BY <3>1, <2>1, <1>1, <1>2
  <2>2. CASE j # n
    <3>1. i \in P /\ j \in P
      BY <2>2, <1>4
    <3>2. f[i] < f[j]
      BY <3>1, <1>1, <1>4 DEF Numbers
    <3> QED BY <3>1, <3>2, <1>2
  <2> QED BY <2>1, <2>2
<1>5. ASSUME NEW m \in a + 1 .. b + 1 PROVE \E i \in P \cup {n} : g[i] = m
  <2>1. CASE m = b + 1
    BY <2>1, <1>2
  <2>2. CASE m # b + 1
    <3>1. m \in a + 1 .. b
      BY <1>1, <2>2
    <3>2. PICK i \in P : f[i] = m
      BY <3>1, <1>1 DEF Numbers
    <3> QED BY <3>2, <1>2
  <2> QED BY <2>1, <2>2
<1>6. Numbers(g, P \cup {n}, t, all, a, b + 1)
  BY <1>2, <1>3, <1>4, <1>5 DEF Numbers
<1>7. b + 1 \in Nat /\ a <= b + 1
  BY <1>1
<1> QED BY <1>1, <1>6, <1>7, FollowsNumbers

\* The places of what is left without the first, and those of two joined.
Shifted(Q, P) == Q = {i \in Nat \ {0} : i + 1 \in P}
Merged(R, P, Q, n) == R = P \cup {n + i : i \in Q}
SameLoads(P, s, t, n) == \A i \in P : t[n + i].load = s[i].load
ShiftedLoads(Q, s, t) == \A i \in Q : t[i].load = s[i + 1].load

\* Without the first place of the sequence.
LEMMA FollowsRest ==
    ASSUME NEW P \in SUBSET (Nat \ {0}), NEW s, NEW t, NEW all, NEW a, NEW b,
           Follows(P, s, all, a, b),
           NEW Q, Shifted(Q, P), ShiftedLoads(Q, s, t)
    PROVE  /\ 1 \notin P => Follows(Q, t, all, a, b)
           /\ 1 \in P => a < b /\ s[1].load = all[a + 1] /\ Follows(Q, t, all, a + 1, b)
<1>1. PICK f : a \in Nat /\ b \in Nat /\ a <= b /\ Numbers(f, P, s, all, a, b)
  BY NumbersFollows
<1> DEFINE g == [i \in Q |-> f[i + 1]]
<1>0. Q = {i \in Nat \ {0} : i + 1 \in P}
  BY DEF Shifted
<1>2. \A i \in Q : i + 1 \in P /\ i \in Nat /\ i >= 1
  BY <1>0
<1>3. \A i \in P : f[i] \in Nat /\ f[i] >= a + 1 /\ f[i] <= b /\ i \in Nat /\ i >= 1
  BY <1>1 DEF Numbers
<1>4. \A i \in Q : t[i].load = all[g[i]]
  BY <1>1, <1>2 DEF Numbers, ShiftedLoads
<1>5. ASSUME NEW i \in Q, NEW j \in Q, i < j PROVE g[i] < g[j]
  <2>1. i + 1 \in P /\ j + 1 \in P /\ i + 1 < j + 1
    BY <1>2, <1>5
  <2>2. f[i + 1] < f[j + 1]
    BY <2>1, <1>1 DEF Numbers
  <2> QED BY <2>2
<1>6. ASSUME 1 \notin P PROVE Follows(Q, t, all, a, b)
  <2>1. g \in [Q -> a + 1 .. b]
    BY <1>2, <1>3, <1>1
  <2>2. ASSUME NEW m \in a + 1 .. b PROVE \E i \in Q : g[i] = m
    <3>1. PICK i \in P : f[i] = m
      BY <1>1 DEF Numbers
    <3>2. i - 1 \in Q /\ (i - 1) + 1 = i
      BY <1>0, <1>3, <1>6
    <3>3. g[i - 1] = m
      BY <3>1, <3>2
    <3> QED BY <3>2, <3>3
  <2> HIDE DEF g
  <2>3. Numbers(g, Q, t, all, a, b)
    BY <1>4, <1>5, <2>1, <2>2 DEF Numbers
  <2> QED BY <2>3, <1>1, FollowsNumbers
<1>7. ASSUME 1 \in P PROVE a < b /\ s[1].load = all[a + 1] /\ Follows(Q, t, all, a + 1, b)
  <2>1. a < b
    BY <1>3, <1>7, <1>1
  <2>2. f[1] = a + 1
    <3>1. PICK i \in P : f[i] = a + 1
      <4>1. a + 1 \in a + 1 .. b
        BY <2>1, <1>1
      <4> QED BY <4>1, <1>1 DEF Numbers
    <3>2. i # 1 => f[1] < f[i]
      <4>1. i # 1 => 1 < i
        BY <1>3
      <4> QED BY <4>1, <1>7, <1>1 DEF Numbers
    <3> QED BY <3>1, <3>2, <1>3, <1>7, <1>1
  <2>3. s[1].load = all[a + 1]
    BY <2>2, <1>7, <1>1 DEF Numbers
  <2>4. \A i \in Q : g[i] \in (a + 1) + 1 .. b
    <3>1. ASSUME NEW i \in Q PROVE g[i] \in (a + 1) + 1 .. b
      <4>1. i + 1 \in P /\ 1 < i + 1
        BY <1>2
      <4>2. f[1] < f[i + 1]
        BY <4>1, <1>7, <1>1 DEF Numbers
      <4>3. g[i] = f[i + 1] /\ f[i + 1] \in Nat /\ f[i + 1] <= b
        BY <4>1, <1>3
      <4>4. f[i + 1] > a + 1
        BY <4>2, <2>2
      <4>. HIDE DEF g
      <4> QED BY <4>3, <4>4, <1>1
    <3> QED BY <3>1
  <2>5. ASSUME NEW m \in (a + 1) + 1 .. b PROVE \E i \in Q : g[i] = m
    <3>1. m \in a + 1 .. b /\ m # a + 1
      BY <1>1
    <3>2. PICK i \in P : f[i] = m
      BY <3>1, <1>1 DEF Numbers
    <3>3. i # 1
      BY <3>1, <3>2, <2>2
    <3>4. i - 1 \in Q /\ (i - 1) + 1 = i
      BY <1>0, <1>3, <3>3
    <3>5. g[i - 1] = m
      BY <3>2, <3>4
    <3> QED BY <3>4, <3>5
  <2>6. g \in [Q -> (a + 1) + 1 .. b]
    BY <2>4
  <2> HIDE DEF g
  <2>7. Numbers(g, Q, t, all, a + 1, b)
    BY <1>4, <1>5, <2>5, <2>6 DEF Numbers
  <2>8. a + 1 \in Nat /\ a + 1 <= b
    BY <2>1, <1>1
  <2> QED BY <2>1, <2>3, <2>7, <2>8, <1>1, FollowsNumbers
<1> QED BY <1>6, <1>7

\* One sequence after the other.
LEMMA FollowsBoth ==
    ASSUME NEW n \in Nat, NEW P \in SUBSET (1 .. n), NEW Q \in SUBSET (Nat \ {0}),
           NEW s, NEW t, NEW u, NEW all, NEW a, NEW b, NEW c,
           Follows(P, s, all, a, b), Follows(Q, t, all, b, c),
           NEW R, Merged(R, P, Q, n),
           SameLoads(P, s, u, 0), SameLoads(Q, t, u, n)
    PROVE  Follows(R, u, all, a, c)
<1>1. PICK f : a \in Nat /\ b \in Nat /\ a <= b /\ Numbers(f, P, s, all, a, b)
  BY NumbersFollows
<1>2. PICK g : c \in Nat /\ b <= c /\ Numbers(g, Q, t, all, b, c)
  BY NumbersFollows
<1> DEFINE h == [i \in R |-> IF i <= n THEN f[i] ELSE g[i - n]]
<1>0. /\ R = P \cup {n + i : i \in Q}
      /\ \A i \in P : u[i].load = s[i].load
      /\ \A i \in Q : u[n + i].load = t[i].load
  <2>1. \A i \in P : 0 + i = i
    OBVIOUS
  <2> QED BY <2>1 DEF Merged, SameLoads
<1>3. \A i \in P : i \in Nat /\ i <= n /\ f[i] \in Nat /\ f[i] >= a + 1 /\ f[i] <= b
  BY <1>1 DEF Numbers
<1>4. \A i \in Q : i \in Nat /\ ~(n + i <= n) /\ (n + i) - n = i /\ g[i] \in Nat /\ g[i] >= b + 1 /\ g[i] <= c
  <2>1. ASSUME NEW i \in Q PROVE g[i] \in b + 1 .. c /\ i \in Nat /\ i >= 1
    BY <1>2 DEF Numbers
  <2> QED BY <2>1, <1>1, <1>2
<1>5. (\A i \in P : i \in R /\ h[i] = f[i]) /\ \A i \in Q : n + i \in R /\ h[n + i] = g[i]
  BY <1>0, <1>3, <1>4
<1>6. h \in [R -> a + 1 .. c]
  <2>1. ASSUME NEW i \in R PROVE h[i] \in a + 1 .. c
    <3>1. CASE i \in P
      BY <3>1, <1>5, <1>3, <1>1, <1>2
    <3>2. CASE i \notin P
      <4>1. PICK j \in Q : i = n + j
        BY <1>0, <3>2
      <4>2. h[i] = g[j]
        BY <4>1, <1>5
      <4> QED BY <4>2, <1>4, <1>1, <1>2
    <3> QED BY <3>1, <3>2
  <2> QED BY <2>1
<1> HIDE DEF h
<1>7. \A i \in R : u[i].load = all[h[i]]
  BY <1>0, <1>5, <1>1, <1>2 DEF Numbers
<1>8. ASSUME NEW i \in R, NEW j \in R, i < j PROVE h[i] < h[j]
  <2>1. CASE i \in P /\ j \in P
    BY <2>1, <1>5, <1>8, <1>1 DEF Numbers
  <2>2. CASE i \in P /\ j \notin P
    <3>1. PICK y \in Q : j = n + y
      BY <1>0, <2>2
    <3>2. h[j] = g[y] /\ h[i] = f[i]
      BY <3>1, <2>2, <1>5
    <3> QED BY <3>2, <2>2, <1>3, <1>4, <1>1
  <2>3. CASE i \notin P
    <3>1. PICK x \in Q : i = n + x
      BY <1>0, <2>3
    <3>2. j \notin P
      <4>1. i \in Nat /\ i > n
        BY <3>1, <1>4
      <4> QED BY <4>1, <1>3, <1>8
    <3>3. PICK y \in Q : j = n + y
      BY <1>0, <3>2
    <3>4. x < y
      BY <3>1, <3>3, <1>4, <1>8
    <3>5. g[x] < g[y]
      BY <3>4, <1>2 DEF Numbers
    <3> QED BY <3>1, <3>3, <3>5, <1>5
  <2> QED BY <2>1, <2>2, <2>3
<1>9. ASSUME NEW m \in a + 1 .. c PROVE \E i \in R : h[i] = m
  <2>1. CASE m <= b
    <3>1. m \in a + 1 .. b
      BY <2>1, <1>1
    <3>2. PICK i \in P : f[i] = m
      BY <3>1, <1>1 DEF Numbers
    <3> QED BY <3>2, <1>5
  <2>2. CASE m > b
    <3>1. m \in b + 1 .. c
      BY <2>2, <1>1, <1>2
    <3>2. PICK i \in Q : g[i] = m
      BY <3>1, <1>2 DEF Numbers
    <3> QED BY <3>2, <1>5
  <2> QED BY <2>1, <2>2, <1>1, <1>2
<1>10. Numbers(h, R, u, all, a, c)
  BY <1>6, <1>7, <1>8, <1>9 DEF Numbers
<1>11. a <= c
  BY <1>1, <1>2
<1> QED BY <1>1, <1>2, <1>10, <1>11, FollowsNumbers

-----------------------------------------------------------------------------
(* The invariant.                                                           *)

\* The values of what websocket.h writes, posts and keeps.
WsItems == [is : {"hello", "message", "pong", "close", "none"}, by : Conns \cup {"nobody"}, load : Units]
Events == [what : {"read", "write", "send", "close"}, ok : BOOLEAN, n : Nat, item : WsItems]
Members ==
    [state : {"free", "live", "deleted"}, open : BOOLEAN,
     at : {"header", "length", "mask", "payload"}, frame : Frame, left : Int,
     fragment : Units, message : Units, sending : Seq(WsItems), queue : Seq(WsItems),
     reading : BOOLEAN, closing : BOOLEAN, sentClose : BOOLEAN, recvClose : BOOLEAN,
     called : BOOLEAN]
Servers ==
    [conn : [Conns -> Members], reads : SUBSET Conns, writes : SUBSET Conns,
     ready : [Conns -> Seq(Events)], users : SUBSET Conns, broken : SUBSET Conns]

\* A read, or a write, is under way once at most - pending, or complete - and
\* the members of the connection say that it is.
OneAtATime(what, pending, q, known) ==
    /\ pending => known /\ \A i \in DOMAIN q : q[i].what # what
    /\ \A i \in DOMAIN q : q[i].what = what => known
    /\ \A i, j \in DOMAIN q : q[i].what = what /\ q[j].what = what => i = j

\* A payload is read only from its beginning.
FromTheBeginning(c, q) ==
    /\ c.reading => c.fragment = <<>>
    /\ c.reading /\ c.at # "header" => c.left = Len(c.frame.load)
    /\ \A i \in DOMAIN q : q[i].what = "read" /\ c.at = "payload" => q[i].n <= Len(c.frame.load)

\* A frame is at hand from its header on until it is handled.
HasFrame(q) == \E i \in DOMAIN q : q[i].what = "read" /\ q[i].ok

\* The read that is begun after the closing handshake gets nothing.
LastRead(c, q) == c.sentClose /\ c.recvClose /\ ~HasFrame(q)

\* What is not there, or no more, has nothing but that: it is no user, and nothing is pending.
OnlyLive(c, has, q) ==
    /\ c.state # "live" => c.sending = <<>> /\ ~c.open /\ ~has /\ (c.reading => LastRead(c, q))
    /\ c.state = "free" => c = Fresh /\ q = <<>>

\* What holds of the reads, the writes and the end of the connection k (websocket.h:485-493):
\* is_reading and sending_buffers_ tell what is under way, and only a live one has anything.
FineAt(s, k) ==
    LET c == s.conn[k]
        q == s.ready[k]
    IN  /\ OneAtATime("read", k \in s.reads, q, c.reading)
        /\ OneAtATime("write", k \in s.writes, q, c.sending # <<>>)
        /\ (k \in s.writes => c.open)
        /\ FromTheBeginning(c, q)
        /\ OnlyLive(c, k \in s.users \/ k \in s.reads, q) /\ (k \in s.users => ~c.called)

\* What is said by k, on its way to a client: in a write that is pending, queued
\* for the next, posted.  It goes on where what the client has got ends; as
\* long as the client is a user, up to the last that was handed on.
Under(s, r) == IF r \in s.writes THEN s.conn[r].sending ELSE <<>>
Carried(e) == IF e.what = "send" THEN e.item ELSE NoItem
Posted(q) == [i \in DOMAIN q |-> Carried(q[i])]
Says(k, items, all, a, b) == Follows(Places(k, items), items, all, a, b)

OnItsWay(k, r, s, g, all) ==
    \E a, b, d, e, f \in Nat :
        /\ Says(k, g, all, a, b) /\ Says(k, Under(s, r), all, b, d)
        /\ Says(k, s.conn[r].queue, all, d, e) /\ Says(k, Posted(s.ready[r]), all, e, f)
        /\ f <= Len(all) /\ (r \in s.users => f = Len(all))
Arrived(k, g, all) == \E a, b \in Nat : Says(k, g, all, a, b) /\ b <= Len(all)

\* A client that is gone, or that cannot be written to, gets no more.
Ordered(k, r, s, g, gone, all) ==
    /\ IF s.conn[r].open /\ r \notin gone THEN OnItsWay(k, r, s, g, all) ELSE Arrived(k, g, all)
    /\ r = k => Places(k, Posted(s.ready[r])) = {}

\* The frames of a sequence that are texts.
Texts(frames) == {i \in DOMAIN frames : frames[i].op = "text"}
Whole(frame) == frame.op \in {"text", "ping", "close"} /\ (frame.op = "text" => frame.fin)
InHand(c, q) == (c.at # "header" \/ HasFrame(q)) /\ c.frame.op = "text"

\* What was handed on, the text at hand, and those to be read are what was said.
AllHanded(c, q, i, all, h) ==
    /\ c.message = <<>>
    /\ (c.at # "header" \/ HasFrame(q)) => Whole(c.frame)
    /\ \A j \in DOMAIN i : Whole(i[j])
    /\ Len(h) <= Len(all) /\ \A j \in 1 .. Len(h) : h[j] = all[j]
    /\ LET n == Len(h) + (IF InHand(c, q) THEN 1 ELSE 0)
       IN  /\ InHand(c, q) => n <= Len(all) /\ c.frame.load = all[n]
           /\ Follows(Texts(i), i, all, n, Len(all))

\* Clients that have sent a message in two frames, or whose stream the server is out of step with.
Odd == pieces \cup cut

\* The same for all the others.
CompleteAt(s, h, k) == AllHanded(s.conn[k], s.ready[k], in[k], said[k], h[k])
AllComplete(s, h) == \A k \in Conns \ Odd : CompleteAt(s, h, k)

\* Of the other variables, the types that are needed.
WsTyped ==
    /\ in \in [Conns -> Seq(Frame)] /\ got \in [Conns -> Seq(WsItems)]
    /\ said \in [Conns -> Seq(Units)] /\ sends \in Nat

\* All that is known of the connection k.
Safe(s, h, k) ==
    /\ FineAt(s, k)
    /\ \A x \in Conns : Ordered(x, k, s, got[k], hung, h[x])
    /\ s.conn[k].state = "free" => got[k] = <<>>
AllSafe(s, h) ==
    /\ s \in Servers /\ h \in [Conns -> Seq(Units)]
    /\ \A k \in Conns : Safe(s, h, k)

\* The inductive invariant.
WsInv == WsTyped /\ AllSafe(ws, handed) /\ AllComplete(ws, handed)

-----------------------------------------------------------------------------
(* Items.                                                                   *)

\* A message that k has said.
Mine(k, x) == x.is = "message" /\ x.by = k

\* The places of a sequence at which k speaks are some of its positions.
LEMMA PlacesIn ==
    ASSUME NEW k, NEW T, NEW s \in Seq(T)
    PROVE  /\ Places(k, s) \in SUBSET (1 .. Len(s)) /\ Places(k, s) \in SUBSET (Nat \ {0})
           /\ Places(k, s) \in SUBSET Nat
           /\ \A i \in 1 .. Len(s) : i \in Places(k, s) <=> Mine(k, s[i])
BY DEF Places, Mine

\* What one more element makes of a sequence.
LEMMA AppendIs ==
    ASSUME NEW T, NEW s \in Seq(T), NEW x \in T
    PROVE  /\ Append(s, x) \in Seq(T) /\ Len(Append(s, x)) = Len(s) + 1
           /\ \A i \in 1 .. Len(s) : Append(s, x)[i] = s[i]
           /\ Append(s, x)[Len(s) + 1] = x
OBVIOUS

\* An empty sequence says nothing.
LEMMA SaysNone ==
    ASSUME NEW k, NEW all, NEW a \in Nat
    PROVE  Says(k, <<>>, all, a, a)
<1>1. Places(k, <<>>) = {}
  BY DEF Places
<1> QED BY <1>1, FollowsNone DEF Says

\* The bounds of what is said are numbers.
LEMMA SaysNumbers ==
    ASSUME NEW k, NEW s, NEW all, NEW a, NEW b, Says(k, s, all, a, b)
    PROVE  a \in Nat /\ b \in Nat /\ a <= b
BY DEF Says, Follows

\* What is not said by k makes no difference to k (a pong, the answer to the upgrade, websocket.h:108).
LEMMA SaysOther ==
    ASSUME NEW k, NEW T, NEW s \in Seq(T), NEW x \in T, ~Mine(k, x)
    PROVE  /\ Places(k, Append(s, x)) = Places(k, s)
           /\ \A all, a, b : Says(k, s, all, a, b) => Says(k, Append(s, x), all, a, b)
<1>1. Places(k, Append(s, x)) = Places(k, s)
  <2>1. /\ Places(k, s) \in SUBSET (1 .. Len(s))
        /\ Places(k, Append(s, x)) \in SUBSET (1 .. Len(Append(s, x)))
        /\ \A i \in 1 .. Len(s) : i \in Places(k, s) <=> Mine(k, s[i])
        /\ \A i \in 1 .. Len(Append(s, x)) :
              i \in Places(k, Append(s, x)) <=> Mine(k, Append(s, x)[i])
    BY PlacesIn, AppendIs
  <2>2. Len(s) \in Nat /\ Len(Append(s, x)) = Len(s) + 1
    BY AppendIs
  <2>3. ASSUME NEW i \in 1 .. Len(s) + 1 PROVE i \in Places(k, Append(s, x)) <=> i \in Places(k, s)
    <3>1. CASE i \in 1 .. Len(s)
      BY <3>1, <2>1, <2>2, AppendIs
    <3>2. CASE i = Len(s) + 1
      <4>1. i \notin Places(k, s)
        BY <3>2, <2>1, <2>2
      <4> QED BY <4>1, <3>2, <2>1, <2>2, AppendIs
    <3> QED BY <3>1, <3>2, <2>2
  <2>4. Places(k, Append(s, x)) \subseteq 1 .. Len(s) + 1 /\ Places(k, s) \subseteq 1 .. Len(s) + 1
    BY <2>1, <2>2
  <2> QED BY <2>3, <2>4
<1>2. \A i \in Places(k, s) : Append(s, x)[i].load = s[i].load
  BY PlacesIn, AppendIs
<1>3. ASSUME NEW all, NEW a, NEW b, Says(k, s, all, a, b)
      PROVE  Says(k, Append(s, x), all, a, b)
  BY <1>1, <1>2, <1>3, FollowsSame DEF Says
<1> QED BY <1>1, <1>3

\* One more message of k, the next of all.
LEMMA SaysNext ==
    ASSUME NEW k, NEW T, NEW s \in Seq(T), NEW x \in T, Mine(k, x), NEW all, NEW a, NEW b,
           Says(k, s, all, a, b), x.load = all[b + 1]
    PROVE  Says(k, Append(s, x), all, a, b + 1)
<1>0. Len(s) \in Nat /\ Len(s) + 1 \in Nat
  OBVIOUS
<1>1. Places(k, Append(s, x)) = Places(k, s) \cup {Len(s) + 1}
  <2>1. /\ Places(k, s) \in SUBSET (1 .. Len(s))
        /\ Places(k, Append(s, x)) \in SUBSET (1 .. Len(Append(s, x)))
        /\ \A i \in 1 .. Len(s) : i \in Places(k, s) <=> Mine(k, s[i])
        /\ \A i \in 1 .. Len(Append(s, x)) :
              i \in Places(k, Append(s, x)) <=> Mine(k, Append(s, x)[i])
    BY PlacesIn, AppendIs
  <2> QED BY <2>1, <1>0, AppendIs
<1>2. \A i \in Places(k, s) : i < Len(s) + 1 /\ Append(s, x)[i].load = s[i].load
  BY PlacesIn, AppendIs, <1>0
<1>3. Append(s, x)[Len(s) + 1].load = all[b + 1]
  BY AppendIs
<1>4. Places(k, s) \in SUBSET Nat
  BY PlacesIn
<1>5. Follows(Places(k, s), s, all, a, b)
  BY DEF Says
<1>6. Follows(Places(k, s) \cup {Len(s) + 1}, Append(s, x), all, a, b + 1)
  BY <1>0, <1>2, <1>3, <1>4, <1>5, FollowsNext
<1> QED BY <1>1, <1>6 DEF Says

\* What was said stays said when more is handed on.
LEMMA SaysLonger ==
    ASSUME NEW k, NEW s, NEW T, NEW all \in Seq(T), NEW x \in T, NEW a, NEW b,
           Says(k, s, all, a, b), b <= Len(all)
    PROVE  Says(k, s, Append(all, x), a, b)
<1>1. a \in Nat /\ b \in Nat /\ Len(all) \in Nat
  BY SaysNumbers
<1>2. \A n \in a + 1 .. b : Append(all, x)[n] = all[n]
  BY <1>1, AppendIs
<1> QED BY <1>2, FollowsSame DEF Says

\* What is written after what has arrived goes on where that ends.
LEMMA SaysBoth ==
    ASSUME NEW k, NEW T, NEW s \in Seq(T), NEW t \in Seq(T), NEW all, NEW a, NEW b, NEW c,
           Says(k, s, all, a, b), Says(k, t, all, b, c)
    PROVE  Says(k, s \o t, all, a, c)
<1>1. /\ s \o t \in Seq(T) /\ Len(s \o t) = Len(s) + Len(t)
      /\ \A i \in 1 .. Len(s) : (s \o t)[i] = s[i]
      /\ \A i \in 1 .. Len(t) : (s \o t)[Len(s) + i] = t[i]
      /\ Len(s) \in Nat /\ Len(t) \in Nat
  OBVIOUS
<1>2. /\ Places(k, s) \in SUBSET (1 .. Len(s)) /\ Places(k, t) \in SUBSET (1 .. Len(t))
      /\ Places(k, s \o t) \in SUBSET (1 .. Len(s \o t))
      /\ Places(k, t) \in SUBSET (Nat \ {0})
      /\ \A i \in 1 .. Len(s) : i \in Places(k, s) <=> Mine(k, s[i])
      /\ \A i \in 1 .. Len(t) : i \in Places(k, t) <=> Mine(k, t[i])
      /\ \A i \in 1 .. Len(s \o t) : i \in Places(k, s \o t) <=> Mine(k, (s \o t)[i])
  BY <1>1, PlacesIn
<1>3. Merged(Places(k, s \o t), Places(k, s), Places(k, t), Len(s))
  <2>1. ASSUME NEW j \in Places(k, s \o t)
        PROVE  j \in Places(k, s) \/ \E i \in Places(k, t) : j = Len(s) + i
    <3>1. CASE j <= Len(s)
      BY <3>1, <1>1, <1>2
    <3>2. CASE j > Len(s)
      <4>1. j - Len(s) \in 1 .. Len(t) /\ j = Len(s) + (j - Len(s))
        BY <3>2, <1>1, <1>2
      <4> QED BY <4>1, <1>1, <1>2
    <3> QED BY <3>1, <3>2, <1>1, <1>2
  <2>2. ASSUME NEW j \in Places(k, s) PROVE j \in Places(k, s \o t)
    <3>1. j \in 1 .. Len(s \o t) /\ (s \o t)[j] = s[j]
      BY <1>1, <1>2
    <3> QED BY <3>1, <1>2
  <2>3. ASSUME NEW i \in Places(k, t) PROVE Len(s) + i \in Places(k, s \o t)
    <3>1. Len(s) + i \in 1 .. Len(s \o t) /\ (s \o t)[Len(s) + i] = t[i]
      BY <1>1, <1>2
    <3> QED BY <3>1, <1>2
  <2> QED BY <2>1, <2>2, <2>3 DEF Merged
<1>4. SameLoads(Places(k, s), s, s \o t, 0) /\ SameLoads(Places(k, t), t, s \o t, Len(s))
  <2>1. \A i \in Places(k, s) : 0 + i = i /\ (s \o t)[i].load = s[i].load
    BY <1>1, <1>2
  <2>2. \A i \in Places(k, t) : (s \o t)[Len(s) + i].load = t[i].load
    BY <1>1, <1>2
  <2> QED BY <2>1, <2>2 DEF SameLoads
<1>5. Follows(Places(k, s), s, all, a, b) /\ Follows(Places(k, t), t, all, b, c)
  BY DEF Says
<1>6. Follows(Places(k, s \o t), s \o t, all, a, c)
  BY <1>1, <1>2, <1>3, <1>4, <1>5, FollowsBoth
<1> QED BY <1>6 DEF Says

\* Without its first, a sequence goes on after it.
LEMMA SaysRest ==
    ASSUME NEW k, NEW T, NEW s \in Seq(T), s # <<>>, NEW all, NEW a, NEW b, Says(k, s, all, a, b)
    PROVE  /\ ~Mine(k, Head(s)) => Says(k, Tail(s), all, a, b)
           /\ Mine(k, Head(s)) => a < b /\ Head(s).load = all[a + 1] /\ Says(k, Tail(s), all, a + 1, b)
<1>1. /\ Tail(s) \in Seq(T) /\ Len(Tail(s)) = Len(s) - 1 /\ Len(s) \in Nat /\ Len(s) >= 1
      /\ \A i \in 1 .. Len(s) - 1 : Tail(s)[i] = s[i + 1]
      /\ Head(s) = s[1]
  OBVIOUS
<1>2. /\ Places(k, s) \in SUBSET (1 .. Len(s)) /\ Places(k, s) \in SUBSET (Nat \ {0})
      /\ Places(k, Tail(s)) \in SUBSET (1 .. Len(Tail(s)))
      /\ \A i \in 1 .. Len(s) : i \in Places(k, s) <=> Mine(k, s[i])
      /\ \A i \in 1 .. Len(Tail(s)) : i \in Places(k, Tail(s)) <=> Mine(k, Tail(s)[i])
  BY <1>1, PlacesIn
<1>3. Shifted(Places(k, Tail(s)), Places(k, s))
  <2>1. ASSUME NEW i \in Nat \ {0}, i + 1 \in Places(k, s) PROVE i \in Places(k, Tail(s))
    <3>1. i \in 1 .. Len(s) - 1 /\ i + 1 \in 1 .. Len(s) /\ i \in 1 .. Len(Tail(s))
      BY <2>1, <1>1, <1>2
    <3> QED BY <3>1, <2>1, <1>1, <1>2
  <2>2. ASSUME NEW i \in Places(k, Tail(s)) PROVE i \in Nat \ {0} /\ i + 1 \in Places(k, s)
    <3>1. i \in 1 .. Len(s) - 1 /\ i + 1 \in 1 .. Len(s) /\ i \in 1 .. Len(Tail(s))
      BY <1>1, <1>2
    <3> QED BY <3>1, <1>1, <1>2
  <2> QED BY <2>1, <2>2 DEF Shifted
<1>4. ShiftedLoads(Places(k, Tail(s)), s, Tail(s))
  BY <1>1, <1>2 DEF ShiftedLoads
<1>5. Follows(Places(k, s), s, all, a, b)
  BY DEF Says
<1>6. /\ 1 \notin Places(k, s) => Follows(Places(k, Tail(s)), Tail(s), all, a, b)
      /\ 1 \in Places(k, s) =>
            a < b /\ s[1].load = all[a + 1] /\ Follows(Places(k, Tail(s)), Tail(s), all, a + 1, b)
  BY <1>2, <1>3, <1>4, <1>5, FollowsRest
<1>7. 1 \in Places(k, s) <=> Mine(k, Head(s))
  BY <1>1, <1>2
<1> QED BY <1>1, <1>6, <1>7 DEF Says

\* A posted handler carries an item, if only the empty one.
LEMMA CarriedIs ==
    ASSUME NEW e \in Events
    PROVE  Carried(e) \in WsItems
<1>1. <<>> \in Units
  BY EmptySeq DEF Units
<1>2. NoItem \in WsItems
  BY <1>1 DEF NoItem, Item, WsItems
<1> QED BY <1>2 DEF Carried, Events

\* The messages in the queue of an io_service.
LEMMA PostedIs ==
    ASSUME NEW q \in Seq(Events)
    PROVE  /\ Posted(q) \in Seq(WsItems) /\ Len(Posted(q)) = Len(q)
           /\ \A i \in 1 .. Len(q) : Posted(q)[i] = Carried(q[i])
<1>1. DOMAIN q = 1 .. Len(q) /\ Len(q) \in Nat /\ \A i \in 1 .. Len(q) : q[i] \in Events
  OBVIOUS
<1>2. \A i \in 1 .. Len(q) : Carried(q[i]) \in WsItems
  BY <1>1, CarriedIs
<1>3. Posted(q) = [i \in 1 .. Len(q) |-> Carried(q[i])]
  BY <1>1 DEF Posted
<1> QED BY <1>1, <1>2, <1>3

\* One more handler is posted (websocket.h:83).
LEMMA PostedAppend ==
    ASSUME NEW q \in Seq(Events), NEW e \in Events
    PROVE  Posted(Append(q, e)) = Append(Posted(q), Carried(e))
<1>0. Append(q, e) \in Seq(Events) /\ Carried(e) \in WsItems
  BY AppendIs, CarriedIs
<1>1. /\ Len(Posted(Append(q, e))) = Len(q) + 1 /\ Len(q) \in Nat
      /\ Posted(Append(q, e)) \in Seq(WsItems) /\ Append(Posted(q), Carried(e)) \in Seq(WsItems)
      /\ Len(Append(Posted(q), Carried(e))) = Len(q) + 1
  <2>1. Posted(Append(q, e)) \in Seq(WsItems) /\ Len(Posted(Append(q, e))) = Len(Append(q, e))
    BY <1>0, PostedIs
  <2>2. Posted(q) \in Seq(WsItems) /\ Len(Posted(q)) = Len(q)
    BY PostedIs
  <2>3. Len(Append(q, e)) = Len(q) + 1
    BY AppendIs
  <2>4. Append(Posted(q), Carried(e)) \in Seq(WsItems) /\ Len(Append(Posted(q), Carried(e))) = Len(q) + 1
    BY <1>0, <2>2, AppendIs
  <2> QED BY <2>1, <2>2, <2>3, <2>4
<1>2. ASSUME NEW i \in 1 .. Len(q) + 1
      PROVE  Posted(Append(q, e))[i] = Append(Posted(q), Carried(e))[i]
  <2>1. Posted(Append(q, e))[i] = Carried(Append(q, e)[i])
    <3>1. i \in 1 .. Len(Append(q, e))
      BY AppendIs
    <3> QED BY <3>1, <1>0, PostedIs
  <2>2. CASE i \in 1 .. Len(q)
    BY <2>1, <2>2, PostedIs, AppendIs, <1>0
  <2>3. CASE i = Len(q) + 1
    <3>1. Append(q, e)[i] = e
      BY <2>3, AppendIs
    <3>2. Append(Posted(q), Carried(e))[i] = Carried(e)
      BY <2>3, PostedIs, <1>0, AppendIs
    <3> QED BY <2>1, <3>1, <3>2
  <2> QED BY <2>2, <2>3, <1>1
<1> QED BY <1>0, <1>1, <1>2, SeqEqual

\* The next handler of the queue is taken.
LEMMA PostedRest ==
    ASSUME NEW q \in Seq(Events), q # <<>>
    PROVE  /\ Posted(Tail(q)) = Tail(Posted(q)) /\ Head(Posted(q)) = Carried(Head(q))
           /\ Posted(q) # <<>> /\ Tail(q) \in Seq(Events) /\ Head(q) \in Events
<1>1. /\ Tail(q) \in Seq(Events) /\ Len(Tail(q)) = Len(q) - 1 /\ Len(q) \in Nat /\ Len(q) >= 1
      /\ \A i \in 1 .. Len(q) - 1 : Tail(q)[i] = q[i + 1]
      /\ Head(q) = q[1] /\ Head(q) \in Events
  OBVIOUS
<1>2. /\ Posted(q) \in Seq(WsItems) /\ Len(Posted(q)) = Len(q) /\ Posted(Tail(q)) \in Seq(WsItems)
      /\ Len(Posted(Tail(q))) = Len(q) - 1
      /\ \A i \in 1 .. Len(q) - 1 : Posted(Tail(q))[i] = Carried(q[i + 1])
      /\ \A i \in 1 .. Len(q) : Posted(q)[i] = Carried(q[i])
  <2>1. /\ Posted(q) \in Seq(WsItems) /\ Len(Posted(q)) = Len(q)
        /\ \A i \in 1 .. Len(q) : Posted(q)[i] = Carried(q[i])
    BY PostedIs
  <2>2. /\ Posted(Tail(q)) \in Seq(WsItems) /\ Len(Posted(Tail(q))) = Len(Tail(q))
        /\ \A i \in 1 .. Len(Tail(q)) : Posted(Tail(q))[i] = Carried(Tail(q)[i])
    BY <1>1, PostedIs
  <2> QED BY <2>1, <2>2, <1>1
<1>3. Posted(q) # <<>>
  BY <1>1, <1>2
<1>4. /\ Tail(Posted(q)) \in Seq(WsItems) /\ Len(Tail(Posted(q))) = Len(q) - 1
      /\ \A i \in 1 .. Len(q) - 1 : Tail(Posted(q))[i] = Posted(q)[i + 1]
      /\ Head(Posted(q)) = Posted(q)[1]
  BY <1>2, <1>3
<1>5. \A i \in 1 .. Len(q) - 1 : Posted(Tail(q))[i] = Tail(Posted(q))[i]
  BY <1>1, <1>2, <1>4
<1>6. Posted(Tail(q)) = Tail(Posted(q))
  BY <1>2, <1>4, <1>5, SeqEqual
<1> QED BY <1>1, <1>2, <1>3, <1>4, <1>6

\* Without its first, a sequence that says nothing still says nothing.
LEMMA PlacesRest ==
    ASSUME NEW k, NEW T, NEW s \in Seq(T), s # <<>>, Places(k, s) = {}
    PROVE  Places(k, Tail(s)) = {} /\ ~Mine(k, Head(s))
<1>1. /\ Tail(s) \in Seq(T) /\ Len(Tail(s)) = Len(s) - 1 /\ Len(s) \in Nat /\ Len(s) >= 1
      /\ \A i \in 1 .. Len(s) - 1 : Tail(s)[i] = s[i + 1]
      /\ Head(s) = s[1]
  OBVIOUS
<1>2. /\ \A i \in 1 .. Len(s) : ~Mine(k, s[i])
      /\ Places(k, Tail(s)) \in SUBSET (1 .. Len(Tail(s)))
      /\ \A i \in 1 .. Len(Tail(s)) : i \in Places(k, Tail(s)) <=> Mine(k, Tail(s)[i])
  BY <1>1, PlacesIn
<1>3. \A i \in 1 .. Len(Tail(s)) : ~Mine(k, Tail(s)[i])
  BY <1>1, <1>2
<1> QED BY <1>1, <1>2, <1>3

\* What says nothing ends where it begins.
LEMMA SaysNothing ==
    ASSUME NEW k, NEW s, NEW all, NEW a, NEW b, Says(k, s, all, a, b), Places(k, s) = {}
    PROVE  a = b
<1>1. a \in Nat /\ b \in Nat /\ a <= b /\ \A n \in a + 1 .. b : FALSE
  BY DEF Says, Follows, Follow
<1>2. CASE a < b
  <2>1. b \in a + 1 .. b
    BY <1>1, <1>2
  <2> QED BY <2>1, <1>1
<1> QED BY <1>1, <1>2

\* In an empty queue there is nothing.
LEMMA NothingPlaced == ASSUME NEW k PROVE Places(k, <<>>) = {}
BY DEF Places

-----------------------------------------------------------------------------
(* What a step does to the messages on their way.                           *)

\* The parts of a server.
LEMMA PartsAre ==
    ASSUME NEW s \in Servers, NEW k \in Conns
    PROVE  /\ s.conn[k] \in Members /\ s.ready[k] \in Seq(Events)
           /\ s.conn[k].queue \in Seq(WsItems) /\ s.conn[k].sending \in Seq(WsItems)
           /\ s.conn[k].frame \in Frame /\ s.conn[k].fragment \in Units /\ s.conn[k].message \in Units
           /\ s.conn[k].left \in Int /\ s.conn[k].open \in BOOLEAN /\ s.conn[k].reading \in BOOLEAN
           /\ Under(s, k) \in Seq(WsItems) /\ Posted(s.ready[k]) \in Seq(WsItems)
<1>1. s.conn[k] \in Members /\ s.ready[k] \in Seq(Events)
  BY DEF Servers
<1>2. Posted(s.ready[k]) \in Seq(WsItems)
  BY <1>1, PostedIs
<1>3. Under(s, k) \in Seq(WsItems)
  BY <1>1, EmptySeq DEF Under, Members
<1> QED BY <1>1, <1>2, <1>3 DEF Members

\* From its parts, the way of the messages of k to r.
LEMMA SomeWay ==
    ASSUME NEW k, NEW r, NEW s, NEW g, NEW all,
           NEW a, NEW b, NEW d, NEW e, NEW f,
           Says(k, g, all, a, b), Says(k, Under(s, r), all, b, d),
           Says(k, s.conn[r].queue, all, d, e), Says(k, Posted(s.ready[r]), all, e, f),
           f <= Len(all), r \in s.users => f = Len(all)
    PROVE  OnItsWay(k, r, s, g, all)
<1>1. a \in Nat /\ b \in Nat /\ d \in Nat /\ e \in Nat /\ f \in Nat
  BY SaysNumbers
<1> QED BY <1>1 DEF OnItsWay

\* What is on its way goes on where what has arrived ends.
LEMMA WayArrives ==
    ASSUME NEW k, NEW r, NEW s, NEW g, NEW T, NEW all \in Seq(T), OnItsWay(k, r, s, g, all)
    PROVE  Arrived(k, g, all)
<1>1. PICK a, b, d, e, f \in Nat :
        /\ Says(k, g, all, a, b) /\ Says(k, Under(s, r), all, b, d)
        /\ Says(k, s.conn[r].queue, all, d, e) /\ Says(k, Posted(s.ready[r]), all, e, f)
        /\ f <= Len(all)
  BY DEF OnItsWay
<1>2. b <= d /\ d <= e /\ e <= f
  BY <1>1, SaysNumbers
<1>3. b <= Len(all)
  BY <1>1, <1>2
<1> QED BY <1>1, <1>3 DEF Arrived

\* In any case, what the client has got is in order.
LEMMA OrderedArrives ==
    ASSUME NEW k, NEW r, NEW s, NEW g, NEW gone, NEW T, NEW all \in Seq(T),
           Ordered(k, r, s, g, gone, all)
    PROVE  Arrived(k, g, all)
BY WayArrives DEF Ordered

\* Closing, or taking away from users, what is there stays in order.
LEMMA OrderedSame ==
    ASSUME NEW k, NEW r, NEW s, NEW t, NEW g, NEW gone, NEW T, NEW all \in Seq(T),
           Ordered(k, r, s, g, gone, all),
           t.conn[r].open => s.conn[r].open /\ Under(t, r) = Under(s, r) /\ t.conn[r].queue = s.conn[r].queue,
           t.ready[r] = s.ready[r], r \in t.users => r \in s.users
    PROVE  Ordered(k, r, t, g, gone, all)
<1>1. Arrived(k, g, all) /\ (r = k => Places(k, Posted(t.ready[r])) = {})
  BY OrderedArrives DEF Ordered
<1>2. ASSUME t.conn[r].open, r \notin gone PROVE OnItsWay(k, r, t, g, all)
  <2>1. OnItsWay(k, r, s, g, all)
    BY <1>2 DEF Ordered
  <2>2. PICK a, b, d, e, f \in Nat :
          /\ Says(k, g, all, a, b) /\ Says(k, Under(s, r), all, b, d)
          /\ Says(k, s.conn[r].queue, all, d, e) /\ Says(k, Posted(s.ready[r]), all, e, f)
          /\ f <= Len(all) /\ (r \in s.users => f = Len(all))
    BY <2>1 DEF OnItsWay
  <2>3. /\ Says(k, Under(t, r), all, b, d) /\ Says(k, t.conn[r].queue, all, d, e)
        /\ Says(k, Posted(t.ready[r]), all, e, f) /\ (r \in t.users => f = Len(all))
    BY <1>2, <2>2
  <2> QED BY <2>2, <2>3, SomeWay
<1> QED BY <1>1, <1>2 DEF Ordered

\* The same, but for the handlers in the queue.
SameButReady(s, t, r) ==
    /\ t.conn[r].open => s.conn[r].open /\ t.conn[r].queue = s.conn[r].queue /\ Under(t, r) = Under(s, r)
    /\ r \in t.users => r \in s.users

\* A handler that carries no message is posted.
LEMMA OrderedPost ==
    ASSUME NEW k, NEW r \in Conns, NEW s \in Servers, NEW t \in Servers, NEW g, NEW gone,
           NEW T, NEW all \in Seq(T), Ordered(k, r, s, g, gone, all),
           SameButReady(s, t, r), NEW e \in Events, ~Mine(k, Carried(e)),
           t.ready[r] = Append(s.ready[r], e)
    PROVE  Ordered(k, r, t, g, gone, all)
<1>0. s.ready[r] \in Seq(Events) /\ Posted(s.ready[r]) \in Seq(WsItems)
  BY PartsAre
<1>1. /\ Posted(t.ready[r]) = Append(Posted(s.ready[r]), Carried(e))
      /\ Carried(e) \in WsItems /\ ~Mine(k, Carried(e))
  BY <1>0, PostedAppend, CarriedIs
<1>2. /\ Places(k, Posted(t.ready[r])) = Places(k, Posted(s.ready[r]))
      /\ \A l, m : Says(k, Posted(s.ready[r]), all, l, m) => Says(k, Posted(t.ready[r]), all, l, m)
  BY <1>0, <1>1, SaysOther
<1>3. Arrived(k, g, all) /\ (r = k => Places(k, Posted(t.ready[r])) = {})
  BY <1>2, OrderedArrives DEF Ordered
<1>4. ASSUME t.conn[r].open, r \notin gone PROVE OnItsWay(k, r, t, g, all)
  <2>1. PICK a, b, d, l, f \in Nat :
          /\ Says(k, g, all, a, b) /\ Says(k, Under(s, r), all, b, d)
          /\ Says(k, s.conn[r].queue, all, d, l) /\ Says(k, Posted(s.ready[r]), all, l, f)
          /\ f <= Len(all) /\ (r \in s.users => f = Len(all))
    BY <1>4 DEF Ordered, OnItsWay, SameButReady
  <2>2. /\ Says(k, Under(t, r), all, b, d) /\ Says(k, t.conn[r].queue, all, d, l)
        /\ Says(k, Posted(t.ready[r]), all, l, f) /\ (r \in t.users => f = Len(all))
    BY <1>2, <1>4, <2>1 DEF SameButReady
  <2> QED BY <2>1, <2>2, SomeWay
<1> QED BY <1>3, <1>4 DEF Ordered

\* Such a handler is taken.
LEMMA OrderedPop ==
    ASSUME NEW k, NEW r \in Conns, NEW s \in Servers, NEW t \in Servers, NEW g, NEW gone,
           NEW T, NEW all \in Seq(T), Ordered(k, r, s, g, gone, all),
           SameButReady(s, t, r), s.ready[r] # <<>>, Carried(Head(s.ready[r])).is # "message",
           t.ready[r] = Tail(s.ready[r])
    PROVE  Ordered(k, r, t, g, gone, all)
<1>0. s.ready[r] \in Seq(Events) /\ Posted(s.ready[r]) \in Seq(WsItems)
  BY PartsAre
<1>1. /\ Posted(t.ready[r]) = Tail(Posted(s.ready[r])) /\ Posted(s.ready[r]) # <<>>
      /\ ~Mine(k, Head(Posted(s.ready[r])))
  BY <1>0, PostedRest DEF Mine
<1>2. /\ Places(k, Posted(s.ready[r])) = {} => Places(k, Posted(t.ready[r])) = {}
      /\ \A l, m : Says(k, Posted(s.ready[r]), all, l, m) => Says(k, Posted(t.ready[r]), all, l, m)
  BY <1>0, <1>1, PlacesRest, SaysRest
<1>3. Arrived(k, g, all) /\ (r = k => Places(k, Posted(t.ready[r])) = {})
  BY <1>2, OrderedArrives DEF Ordered
<1>4. ASSUME t.conn[r].open, r \notin gone PROVE OnItsWay(k, r, t, g, all)
  <2>1. PICK a, b, d, l, f \in Nat :
          /\ Says(k, g, all, a, b) /\ Says(k, Under(s, r), all, b, d)
          /\ Says(k, s.conn[r].queue, all, d, l) /\ Says(k, Posted(s.ready[r]), all, l, f)
          /\ f <= Len(all) /\ (r \in s.users => f = Len(all))
    BY <1>4 DEF Ordered, OnItsWay, SameButReady
  <2>2. /\ Says(k, Under(t, r), all, b, d) /\ Says(k, t.conn[r].queue, all, d, l)
        /\ Says(k, Posted(t.ready[r]), all, l, f) /\ (r \in t.users => f = Len(all))
    BY <1>2, <1>4, <2>1 DEF SameButReady
  <2> QED BY <2>1, <2>2, SomeWay
<1> QED BY <1>3, <1>4 DEF Ordered

\* Something that is no message is queued.
LEMMA OrderedQueue ==
    ASSUME NEW k, NEW r \in Conns, NEW s \in Servers, NEW t \in Servers, NEW g, NEW gone,
           NEW T, NEW all \in Seq(T), Ordered(k, r, s, g, gone, all),
           NEW item \in WsItems, ~Mine(k, item), t.conn[r].queue = Append(s.conn[r].queue, item),
           t.conn[r].open = s.conn[r].open, Under(t, r) = Under(s, r), t.ready[r] = s.ready[r],
           r \in t.users => r \in s.users
    PROVE  Ordered(k, r, t, g, gone, all)
<1>1. s.conn[r].queue \in Seq(WsItems)
  BY PartsAre
<1>2. \A l, m : Says(k, s.conn[r].queue, all, l, m) => Says(k, t.conn[r].queue, all, l, m)
  BY <1>1, SaysOther
<1>3. Arrived(k, g, all) /\ (r = k => Places(k, Posted(t.ready[r])) = {})
  BY OrderedArrives DEF Ordered
<1>4. ASSUME t.conn[r].open, r \notin gone PROVE OnItsWay(k, r, t, g, all)
  <2>1. PICK a, b, d, l, f \in Nat :
          /\ Says(k, g, all, a, b) /\ Says(k, Under(s, r), all, b, d)
          /\ Says(k, s.conn[r].queue, all, d, l) /\ Says(k, Posted(s.ready[r]), all, l, f)
          /\ f <= Len(all) /\ (r \in s.users => f = Len(all))
    BY <1>4 DEF Ordered, OnItsWay
  <2>2. /\ Says(k, Under(t, r), all, b, d) /\ Says(k, t.conn[r].queue, all, d, l)
        /\ Says(k, Posted(t.ready[r]), all, l, f) /\ (r \in t.users => f = Len(all))
    BY <1>2, <1>4, <2>1
  <2> QED BY <2>1, <2>2, SomeWay
<1> QED BY <1>3, <1>4 DEF Ordered

\* The queue becomes a write.
LEMMA OrderedSwap ==
    ASSUME NEW k, NEW r \in Conns, NEW s \in Servers, NEW t \in Servers, NEW g, NEW gone,
           NEW T, NEW all \in Seq(T), Ordered(k, r, s, g, gone, all),
           Under(s, r) = <<>>, Under(t, r) = s.conn[r].queue, t.conn[r].queue = <<>>,
           t.conn[r].open = s.conn[r].open, t.ready[r] = s.ready[r],
           r \in t.users => r \in s.users
    PROVE  Ordered(k, r, t, g, gone, all)
<1>3. Arrived(k, g, all) /\ (r = k => Places(k, Posted(t.ready[r])) = {})
  BY OrderedArrives DEF Ordered
<1>4. ASSUME t.conn[r].open, r \notin gone PROVE OnItsWay(k, r, t, g, all)
  <2>1. PICK a, b, d, l, f \in Nat :
          /\ Says(k, g, all, a, b) /\ Says(k, Under(s, r), all, b, d)
          /\ Says(k, s.conn[r].queue, all, d, l) /\ Says(k, Posted(s.ready[r]), all, l, f)
          /\ f <= Len(all) /\ (r \in s.users => f = Len(all))
    BY <1>4 DEF Ordered, OnItsWay
  <2>2. b = d
    BY <2>1, SaysNothing, NothingPlaced
  <2>3. /\ Says(k, Under(t, r), all, b, l) /\ Says(k, t.conn[r].queue, all, l, l)
        /\ Says(k, Posted(t.ready[r]), all, l, f) /\ (r \in t.users => f = Len(all))
    BY <1>4, <2>1, <2>2, SaysNone
  <2> QED BY <2>1, <2>3, SomeWay
<1> QED BY <1>3, <1>4 DEF Ordered

\* A message that was posted is queued.
LEMMA OrderedTake ==
    ASSUME NEW k, NEW r \in Conns, NEW s \in Servers, NEW t \in Servers, NEW g, NEW gone,
           NEW T, NEW all \in Seq(T), Ordered(k, r, s, g, gone, all),
           s.ready[r] # <<>>, t.ready[r] = Tail(s.ready[r]),
           t.conn[r].queue = Append(s.conn[r].queue, Carried(Head(s.ready[r]))),
           t.conn[r].open = s.conn[r].open, Under(t, r) = Under(s, r), r \in t.users => r \in s.users
    PROVE  Ordered(k, r, t, g, gone, all)
<1>0. /\ s.ready[r] \in Seq(Events) /\ Posted(s.ready[r]) \in Seq(WsItems)
      /\ s.conn[r].queue \in Seq(WsItems)
  BY PartsAre
<1> DEFINE p == Posted(s.ready[r])
<1>1. Posted(t.ready[r]) = Tail(p) /\ p # <<>> /\ Head(p) = Carried(Head(s.ready[r])) /\ Head(p) \in WsItems
  BY <1>0, PostedRest, CarriedIs
<1> HIDE DEF p
<1>2. Places(k, p) = {} => Places(k, Posted(t.ready[r])) = {}
  BY <1>0, <1>1, PlacesRest DEF p
<1>3. Arrived(k, g, all) /\ (r = k => Places(k, Posted(t.ready[r])) = {})
  BY <1>2, OrderedArrives DEF Ordered, p
<1>4. ASSUME t.conn[r].open, r \notin gone PROVE OnItsWay(k, r, t, g, all)
  <2>1. PICK a, b, d, l, f \in Nat :
          /\ Says(k, g, all, a, b) /\ Says(k, Under(s, r), all, b, d)
          /\ Says(k, s.conn[r].queue, all, d, l) /\ Says(k, p, all, l, f)
          /\ f <= Len(all) /\ (r \in s.users => f = Len(all))
    BY <1>4 DEF Ordered, OnItsWay, p
  <2>2. r \in t.users => f = Len(all)
    BY <2>1
  <2>3. CASE Mine(k, Head(p))
    <3>1. Head(p).load = all[l + 1] /\ Says(k, Tail(p), all, l + 1, f)
      BY <1>0, <1>1, <2>1, <2>3, SaysRest DEF p
    <3>2. Says(k, t.conn[r].queue, all, d, l + 1)
      BY <1>0, <1>1, <2>1, <2>3, <3>1, SaysNext
    <3> QED BY <1>1, <2>1, <2>2, <3>1, <3>2, SomeWay
  <2>4. CASE ~Mine(k, Head(p))
    <3>1. Says(k, Tail(p), all, l, f)
      BY <1>0, <1>1, <2>1, <2>4, SaysRest DEF p
    <3>2. Says(k, t.conn[r].queue, all, d, l)
      BY <1>0, <1>1, <2>1, <2>4, SaysOther
    <3> QED BY <1>1, <2>1, <2>2, <3>1, <3>2, SomeWay
  <2> QED BY <2>3, <2>4
<1> QED BY <1>3, <1>4 DEF Ordered

\* Arrived, when more is handed on.
LEMMA ArrivedLonger ==
    ASSUME NEW k, NEW g, NEW all \in Seq(Units), NEW x \in Units, Arrived(k, g, all)
    PROVE  Arrived(k, g, Append(all, x))
<1>1. PICK a, b \in Nat : Says(k, g, all, a, b) /\ b <= Len(all)
  BY DEF Arrived
<1>2. Says(k, g, Append(all, x), a, b)
  BY <1>1, SaysLonger
<1>3. b <= Len(Append(all, x))
  BY <1>1, AppendIs
<1> QED BY <1>2, <1>3 DEF Arrived

\* A way, with the numbers of the messages at which its parts meet.
Way(k, r, s, g, all, a, b, d, e, f) ==
    /\ Says(k, g, all, a, b) /\ Says(k, Under(s, r), all, b, d)
    /\ Says(k, s.conn[r].queue, all, d, e) /\ Says(k, Posted(s.ready[r]), all, e, f)
    /\ f <= Len(all)

\* A way, when more is handed on.
LEMMA WayLonger ==
    ASSUME NEW k, NEW r, NEW s, NEW g, NEW all \in Seq(Units), NEW x \in Units,
           NEW a, NEW b, NEW d, NEW e, NEW f,
           Way(k, r, s, g, all, a, b, d, e, f)
    PROVE  /\ Way(k, r, s, g, Append(all, x), a, b, d, e, f)
           /\ e \in Nat /\ f \in Nat
           /\ (f = Len(all) => f + 1 = Len(Append(all, x)) /\ Append(all, x)[f + 1] = x)
<1>1. a \in Nat /\ b \in Nat /\ d \in Nat /\ e \in Nat /\ f \in Nat /\ b <= d /\ d <= e /\ e <= f
  BY SaysNumbers DEF Way
<1>2. f <= Len(all) /\ Len(all) \in Nat /\ Len(Append(all, x)) = Len(all) + 1 /\ Append(all, x)[Len(all) + 1] = x
  BY AppendIs DEF Way
<1>3. b <= Len(all) /\ d <= Len(all) /\ e <= Len(all)
  BY <1>1, <1>2
<1>0. /\ Says(k, g, all, a, b) /\ Says(k, Under(s, r), all, b, d)
      /\ Says(k, s.conn[r].queue, all, d, e) /\ Says(k, Posted(s.ready[r]), all, e, f)
  BY DEF Way
<1>4. Says(k, g, Append(all, x), a, b) /\ Says(k, Under(s, r), Append(all, x), b, d)
  BY <1>0, <1>3, SaysLonger
<1>5. Says(k, s.conn[r].queue, Append(all, x), d, e)
  BY <1>0, <1>3, SaysLonger
<1>7. Says(k, Posted(s.ready[r]), Append(all, x), e, f)
  BY <1>0, <1>2, SaysLonger
<1>6. f <= Len(Append(all, x)) /\ (f = Len(all) => f + 1 = Len(Append(all, x)))
  BY <1>1, <1>2
<1> QED BY <1>1, <1>2, <1>4, <1>5, <1>6, <1>7 DEF Way

\* One who is no user gets nothing of what is handed on.
LEMMA OrderedLonger ==
    ASSUME NEW k, NEW r, NEW s, NEW t, NEW g, NEW gone, NEW all \in Seq(Units), NEW x \in Units,
           Ordered(k, r, s, g, gone, all), r \notin t.users,
           t.conn[r].open => s.conn[r].open /\ Under(t, r) = Under(s, r) /\ t.conn[r].queue = s.conn[r].queue,
           t.ready[r] = s.ready[r]
    PROVE  Ordered(k, r, t, g, gone, Append(all, x))
<1>1. Arrived(k, g, Append(all, x)) /\ (r = k => Places(k, Posted(t.ready[r])) = {})
  BY OrderedArrives, ArrivedLonger DEF Ordered
<1>2. ASSUME t.conn[r].open, r \notin gone PROVE OnItsWay(k, r, t, g, Append(all, x))
  <2>1. PICK a, b, d, l, f \in Nat :
          /\ Says(k, g, all, a, b) /\ Says(k, Under(s, r), all, b, d)
          /\ Says(k, s.conn[r].queue, all, d, l) /\ Says(k, Posted(s.ready[r]), all, l, f)
          /\ f <= Len(all)
    BY <1>2 DEF Ordered, OnItsWay
  <2>0. Way(k, r, s, g, all, a, b, d, l, f)
    BY <2>1 DEF Way
  <2>9. /\ Way(k, r, s, g, Append(all, x), a, b, d, l, f)
        /\ (f = Len(all) => f + 1 = Len(Append(all, x)) /\ Append(all, x)[f + 1] = x)
    BY <2>0, WayLonger
  <2>2. /\ Says(k, g, Append(all, x), a, b) /\ Says(k, Under(s, r), Append(all, x), b, d)
        /\ Says(k, s.conn[r].queue, Append(all, x), d, l)
        /\ Says(k, Posted(s.ready[r]), Append(all, x), l, f) /\ f <= Len(Append(all, x))
    BY <2>1, <2>9 DEF Way
  <2>3. /\ Says(k, Under(t, r), Append(all, x), b, d)
        /\ Says(k, t.conn[r].queue, Append(all, x), d, l)
        /\ Says(k, Posted(t.ready[r]), Append(all, x), l, f)
    BY <1>2, <2>2
  <2> QED BY <2>2, <2>3, SomeWay
<1> QED BY <1>1, <1>2 DEF Ordered

\* A user who says something has it in his own queue at once.
LEMMA OrderedGive ==
    ASSUME NEW r \in Conns, NEW s \in Servers, NEW t \in Servers, NEW g, NEW gone,
           NEW all \in Seq(Units), NEW x \in Units, Ordered(r, r, s, g, gone, all), r \in s.users,
           NEW item \in WsItems, Mine(r, item), item.load = x,
           t.conn[r].queue = Append(s.conn[r].queue, item),
           t.conn[r].open = s.conn[r].open, Under(t, r) = Under(s, r), t.ready[r] = s.ready[r]
    PROVE  Ordered(r, r, t, g, gone, Append(all, x))
<1>0. s.conn[r].queue \in Seq(WsItems) /\ Places(r, Posted(s.ready[r])) = {}
  BY PartsAre DEF Ordered
<1>1. Arrived(r, g, Append(all, x)) /\ Places(r, Posted(t.ready[r])) = {}
  BY <1>0, OrderedArrives, ArrivedLonger
<1>2. ASSUME t.conn[r].open, r \notin gone PROVE OnItsWay(r, r, t, g, Append(all, x))
  <2>1. PICK a, b, d, l, f \in Nat :
          /\ Says(r, g, all, a, b) /\ Says(r, Under(s, r), all, b, d)
          /\ Says(r, s.conn[r].queue, all, d, l) /\ Says(r, Posted(s.ready[r]), all, l, f)
          /\ f <= Len(all) /\ f = Len(all)
    BY <1>2 DEF Ordered, OnItsWay
  <2>2. l = f
    BY <1>0, <2>1, SaysNothing
  <2>0. Way(r, r, s, g, all, a, b, d, l, f)
    BY <2>1 DEF Way
  <2>9. /\ Way(r, r, s, g, Append(all, x), a, b, d, l, f)
        /\ (f = Len(all) => f + 1 = Len(Append(all, x)) /\ Append(all, x)[f + 1] = x)
    BY <2>0, WayLonger
  <2>3. /\ Says(r, g, Append(all, x), a, b) /\ Says(r, Under(s, r), Append(all, x), b, d)
        /\ Says(r, s.conn[r].queue, Append(all, x), d, l)
        /\ f + 1 = Len(Append(all, x)) /\ Append(all, x)[f + 1] = x
    BY <2>1, <2>9 DEF Way
  <2>4. Says(r, t.conn[r].queue, Append(all, x), d, l + 1)
    BY <1>0, <2>2, <2>3, SaysNext
  <2>5. Says(r, Posted(t.ready[r]), Append(all, x), l + 1, l + 1)
    <3>1. l + 1 \in Nat
      BY <2>1
    <3> QED BY <3>1, <1>1, FollowsNone DEF Says
  <2>6. Says(r, Under(t, r), Append(all, x), b, d)
    BY <2>3
  <2>7. l + 1 = Len(Append(all, x)) /\ Len(Append(all, x)) \in Nat
    BY <2>2, <2>3, AppendIs
  <2>8. l + 1 <= Len(Append(all, x))
    BY <2>7
  <2> QED BY <2>3, <2>4, <2>5, <2>6, <2>7, <2>8, SomeWay
<1> QED BY <1>1, <1>2 DEF Ordered

\* To the other users it is posted.
LEMMA OrderedPosted ==
    ASSUME NEW k, NEW r \in Conns, NEW s \in Servers, NEW t \in Servers, NEW g, NEW gone,
           NEW all \in Seq(Units), NEW x \in Units, Ordered(k, r, s, g, gone, all),
           k # r, r \in s.users,
           NEW e \in Events, Mine(k, Carried(e)), Carried(e).load = x,
           t.ready[r] = Append(s.ready[r], e), t.conn[r].queue = s.conn[r].queue,
           t.conn[r].open = s.conn[r].open, Under(t, r) = Under(s, r)
    PROVE  Ordered(k, r, t, g, gone, Append(all, x))
<1>0. s.ready[r] \in Seq(Events) /\ Posted(s.ready[r]) \in Seq(WsItems)
  BY PartsAre
<1>1. Posted(t.ready[r]) = Append(Posted(s.ready[r]), Carried(e)) /\ Carried(e) \in WsItems
  BY <1>0, PostedAppend, CarriedIs
<1>2. Arrived(k, g, Append(all, x))
  BY OrderedArrives, ArrivedLonger
<1>3. ASSUME t.conn[r].open, r \notin gone PROVE OnItsWay(k, r, t, g, Append(all, x))
  <2>1. PICK a, b, d, l, f \in Nat :
          /\ Says(k, g, all, a, b) /\ Says(k, Under(s, r), all, b, d)
          /\ Says(k, s.conn[r].queue, all, d, l) /\ Says(k, Posted(s.ready[r]), all, l, f)
          /\ f <= Len(all) /\ f = Len(all)
    BY <1>3 DEF Ordered, OnItsWay
  <2>0. Way(k, r, s, g, all, a, b, d, l, f)
    BY <2>1 DEF Way
  <2>9. /\ Way(k, r, s, g, Append(all, x), a, b, d, l, f)
        /\ (f = Len(all) => f + 1 = Len(Append(all, x)) /\ Append(all, x)[f + 1] = x)
    BY <2>0, WayLonger
  <2>2. /\ Says(k, g, Append(all, x), a, b) /\ Says(k, Under(s, r), Append(all, x), b, d)
        /\ Says(k, s.conn[r].queue, Append(all, x), d, l)
        /\ Says(k, Posted(s.ready[r]), Append(all, x), l, f)
        /\ f + 1 = Len(Append(all, x)) /\ Append(all, x)[f + 1] = x
    BY <2>1, <2>9 DEF Way
  <2>3. Says(k, Posted(t.ready[r]), Append(all, x), l, f + 1)
    BY <1>0, <1>1, <2>2, SaysNext
  <2>4. /\ Says(k, Under(t, r), Append(all, x), b, d)
        /\ Says(k, t.conn[r].queue, Append(all, x), d, l)
    BY <2>2
  <2>5. f + 1 <= Len(Append(all, x))
    BY <2>1, <2>2
  <2> QED BY <2>2, <2>3, <2>4, <2>5, SomeWay
<1> QED BY <1>2, <1>3 DEF Ordered

\* What was under way has arrived, or is lost with the client.
LEMMA OrderedWritten ==
    ASSUME NEW k, NEW r \in Conns, NEW s \in Servers, NEW t \in Servers, NEW g \in Seq(WsItems), NEW gone,
           NEW all \in Seq(Units), Ordered(k, r, s, g, gone, all),
           s.conn[r].open, r \in s.writes, r \notin t.writes, r \notin gone, r \in t.users => r \in s.users,
           t.conn[r].queue = s.conn[r].queue, t.ready[r] = s.ready[r], t.conn[r].open = s.conn[r].open
    PROVE  Ordered(k, r, t, g \o s.conn[r].sending, gone, all)
<1>0. s.conn[r].sending \in Seq(WsItems)
  BY PartsAre
<1>1. PICK a, b, d, l, f \in Nat :
        /\ Says(k, g, all, a, b) /\ Says(k, s.conn[r].sending, all, b, d)
        /\ Says(k, s.conn[r].queue, all, d, l) /\ Says(k, Posted(s.ready[r]), all, l, f)
        /\ f <= Len(all) /\ (r \in s.users => f = Len(all))
  BY DEF Ordered, OnItsWay, Under
<1>2. Says(k, g \o s.conn[r].sending, all, a, d)
  BY <1>0, <1>1, SaysBoth
<1>3. Says(k, Under(t, r), all, d, d)
  BY <1>1, SaysNone DEF Under
<1>4. OnItsWay(k, r, t, g \o s.conn[r].sending, all)
  BY <1>1, <1>2, <1>3, SomeWay
<1> QED BY <1>4 DEF Ordered

\* A client that is gone keeps what it has got.
LEMMA OrderedGone ==
    ASSUME NEW k, NEW r, NEW s, NEW t, NEW g, NEW gone, NEW more, NEW all \in Seq(Units),
           Ordered(k, r, s, g, gone, all), r \in more, t.ready[r] = s.ready[r]
    PROVE  Ordered(k, r, t, g, more, all)
BY OrderedArrives DEF Ordered

\* A connection that is made has nothing of anybody.
LEMMA OrderedOpens ==
    ASSUME NEW k, NEW r, NEW t, NEW gone, NEW all \in Seq(Units),
           Under(t, r) = <<>>, t.conn[r].queue = <<>>, t.ready[r] = <<>>
    PROVE  Ordered(k, r, t, <<>>, gone, all)
<1>1. Len(all) \in Nat
  OBVIOUS
<1>2. Posted(t.ready[r]) = <<>>
  BY DEF Posted
<1>3. OnItsWay(k, r, t, <<>>, all)
  <2>1. Says(k, <<>>, all, Len(all), Len(all)) /\ Len(all) <= Len(all)
    BY <1>1, SaysNone
  <2> QED BY <1>2, <2>1, SomeWay
<1>4. Arrived(k, <<>>, all)
  BY <1>1, SaysNone DEF Arrived
<1> QED BY <1>2, <1>3, <1>4, NothingPlaced DEF Ordered

-----------------------------------------------------------------------------
(* What a step does for a connection leaves the others alone.               *)

\* Only k is changed.
Kept(s, t, k) ==
    /\ t \in Servers
    /\ \A x \in Conns \ {k} :
         /\ t.conn[x] = s.conn[x] /\ t.ready[x] = s.ready[x]
         /\ (x \in t.reads <=> x \in s.reads) /\ (x \in t.writes <=> x \in s.writes)
         /\ (x \in t.users <=> x \in s.users)

\* What is there of k but for the members that nothing here depends on.
SameAt(s, t, k) ==
    /\ t.conn[k] = s.conn[k] /\ t.ready[k] = s.ready[k]
    /\ (k \in t.reads <=> k \in s.reads) /\ (k \in t.writes <=> k \in s.writes)
    /\ (k \in t.users <=> k \in s.users)

\* What does not concern k leaves it as it was.
LEMMA FineSame ==
    ASSUME NEW s, NEW t, NEW k, FineAt(s, k), SameAt(s, t, k)
    PROVE  FineAt(t, k)
<1>1. /\ (k \in t.reads) = (k \in s.reads) /\ (k \in t.writes) = (k \in s.writes)
      /\ (k \in t.users) = (k \in s.users)
  BY DEF SameAt
<1> QED BY <1>1 DEF FineAt, SameAt

\* The parts of AllSafe.
LEMMA SafeParts ==
    ASSUME NEW s, NEW h, AllSafe(s, h), NEW k \in Conns
    PROVE  /\ s \in Servers /\ h \in [Conns -> Seq(Units)] /\ h[k] \in Seq(Units)
           /\ FineAt(s, k) /\ Safe(s, h, k)
           /\ \A x \in Conns : Ordered(x, k, s, got[k], hung, h[x])
           /\ (s.conn[k].state = "free" => got[k] = <<>>)
BY DEF AllSafe, Safe

\* The same of the messages on their way.
LEMMA SafeSame ==
    ASSUME NEW s, NEW t, NEW h, AllSafe(s, h), NEW k \in Conns, SameAt(s, t, k)
    PROVE  Safe(t, h, k)
<1>1. FineAt(t, k)
  BY SafeParts, FineSame
<1>2. ASSUME NEW x \in Conns PROVE Ordered(x, k, t, got[k], hung, h[x])
  <2>1. Ordered(x, k, s, got[k], hung, h[x]) /\ h[x] \in Seq(Units)
    BY SafeParts
  <2>2. /\ t.conn[k].open => s.conn[k].open /\ Under(t, k) = Under(s, k) /\ t.conn[k].queue = s.conn[k].queue
        /\ t.ready[k] = s.ready[k] /\ (k \in t.users => k \in s.users)
    BY DEF SameAt, Under
  <2> QED BY <2>1, <2>2, OrderedSame
<1> QED BY <1>1, <1>2, SafeParts DEF Safe, SameAt

\* A step at k need only keep what holds of k.
LEMMA KeptSafe ==
    ASSUME NEW s, NEW t, NEW h, AllSafe(s, h), NEW k, Kept(s, t, k), Safe(t, h, k)
    PROVE  AllSafe(t, h)
<1>1. ASSUME NEW x \in Conns, x # k PROVE Safe(t, h, x)
  BY <1>1, SafeSame DEF Kept, SameAt
<1> QED BY <1>1 DEF AllSafe, Kept

-----------------------------------------------------------------------------
(* What the handlers do, one thing at a time.                               *)

\* Members are set that say nothing of what is under way.
Quietly(s, t, k) ==
    LET c == s.conn[k]
        d == t.conn[k]
    IN  /\ Kept(s, t, k)
        /\ d.state = c.state /\ d.open = c.open /\ d.sending = c.sending /\ d.queue = c.queue
        /\ d.reading = c.reading /\ d.frame = c.frame
        /\ c.reading /\ c.state # "live" => d.sentClose /\ d.recvClose
        /\ c.reading => d.at = c.at /\ d.left = c.left /\ d.fragment = c.fragment
        /\ t.ready[k] = s.ready[k] /\ (k \in t.reads <=> k \in s.reads) /\ (k \in t.writes <=> k \in s.writes)
        /\ (k \in t.users => k \in s.users /\ ~d.called)

\* Such a step keeps what holds of reads and writes.
LEMMA QuietFine ==
    ASSUME NEW s \in Servers, NEW t, NEW k \in Conns, FineAt(s, k), s.conn[k].state # "free", Quietly(s, t, k)
    PROVE  FineAt(t, k)
<1>1. OneAtATime("read", k \in t.reads, t.ready[k], t.conn[k].reading)
  BY DEF FineAt, Quietly, OneAtATime
<1>2. OneAtATime("write", k \in t.writes, t.ready[k], t.conn[k].sending # <<>>)
  BY DEF FineAt, Quietly, OneAtATime
<1>3. FromTheBeginning(t.conn[k], t.ready[k])
  BY DEF FineAt, Quietly, OneAtATime, FromTheBeginning
<1>4. OnlyLive(t.conn[k], k \in t.users \/ k \in t.reads, t.ready[k]) /\ (k \in t.users => ~t.conn[k].called)
  BY DEF FineAt, OnlyLive, LastRead, Quietly
<1>5. k \in t.writes => t.conn[k].open
  BY DEF FineAt, Quietly
<1> QED BY <1>1, <1>2, <1>3, <1>4, <1>5 DEF FineAt

\* And the order of the messages.
LEMMA QuietSafe ==
    ASSUME NEW s, NEW t, NEW h, AllSafe(s, h), NEW k \in Conns, s.conn[k].state # "free", Quietly(s, t, k)
    PROVE  AllSafe(t, h)
<1>1. FineAt(t, k)
  BY SafeParts, QuietFine
<1>2. ASSUME NEW x \in Conns PROVE Ordered(x, k, t, got[k], hung, h[x])
  <2>1. Ordered(x, k, s, got[k], hung, h[x]) /\ h[x] \in Seq(Units)
    BY SafeParts
  <2>2. /\ t.conn[k].open => s.conn[k].open /\ Under(t, k) = Under(s, k) /\ t.conn[k].queue = s.conn[k].queue
        /\ t.ready[k] = s.ready[k] /\ (k \in t.users => k \in s.users)
    BY DEF Quietly, Under
  <2> QED BY <2>1, <2>2, OrderedSame
<1>3. Safe(t, h, k)
  BY <1>1, <1>2 DEF Safe, Quietly
<1> QED BY <1>3, KeptSafe DEF Quietly

-----------------------------------------------------------------------------
(* What is written.                                                         *)

\* Nothing is changed of what is being read.
Aside(s, t, k) ==
    LET c == s.conn[k]
        d == t.conn[k]
    IN  /\ d.at = c.at /\ d.frame = c.frame /\ d.left = c.left /\ d.fragment = c.fragment
        /\ d.message = c.message /\ d.reading = c.reading
        /\ (HasFrame(t.ready[k]) <=> HasFrame(s.ready[k]))

\* The others have the same frames at hand.
Rest(s, t, k) ==
    \A x \in Conns \ {k} : t.conn[x] = s.conn[x] /\ (HasFrame(t.ready[x]) <=> HasFrame(s.ready[x]))

\* After a method that writes, posts, or closes: all is well, and what is being read is as it was.
Onward(s, t, h, k) ==
    AllSafe(t, h) /\ Rest(s, t, k) /\ Aside(s, t, k) /\ t.conn[k].state # "free"

\* What is kept of the others includes their frames.
LEMMA KeptRest == ASSUME NEW s, NEW t, NEW k, Kept(s, t, k) PROVE Rest(s, t, k)
BY DEF Kept, Rest

\* One method after the other.
LEMMA OnwardOn ==
    ASSUME NEW s, NEW t, NEW u, NEW h, NEW g, NEW k, Onward(s, t, g, k), Onward(t, u, h, k)
    PROVE  Onward(s, u, h, k)
BY DEF Onward, Rest, Aside

\* What post (websocket.h:81-85) makes of a queue.
LEMMA PostIs ==
    ASSUME NEW q \in Seq(Events), NEW e \in Events
    PROVE  /\ Append(q, e) \in Seq(Events) /\ DOMAIN Append(q, e) = 1 .. Len(q) + 1
           /\ DOMAIN q = 1 .. Len(q) /\ Len(q) \in Nat /\ Append(q, e)[Len(q) + 1] = e
           /\ \A i \in 1 .. Len(q) : Append(q, e)[i] = q[i]
OBVIOUS

\* A frame is at hand only once its read is answered.
LEMMA HasFramePost ==
    ASSUME NEW q \in Seq(Events), NEW e \in Events
    PROVE  /\ HasFrame(Append(q, e)) <=> (HasFrame(q) \/ (e.what = "read" /\ e.ok))
<1>1. /\ DOMAIN Append(q, e) = 1 .. Len(q) + 1 /\ DOMAIN q = 1 .. Len(q) /\ Len(q) \in Nat
      /\ Append(q, e)[Len(q) + 1] = e /\ \A i \in 1 .. Len(q) : Append(q, e)[i] = q[i]
  BY PostIs
<1> QED BY <1>1 DEF HasFrame

\* Once more under way.
LEMMA OnePosted ==
    ASSUME NEW q \in Seq(Events), NEW e \in Events, NEW what, NEW pending, NEW known,
           OneAtATime(what, pending, q, known),
           e.what # what \/ (~pending /\ ~known)
    PROVE  /\ e.what # what => OneAtATime(what, pending, Append(q, e), known)
           /\ ~pending /\ ~known => OneAtATime(what, FALSE, Append(q, e), TRUE)
<1>1. /\ DOMAIN Append(q, e) = 1 .. Len(q) + 1 /\ DOMAIN q = 1 .. Len(q) /\ Len(q) \in Nat
      /\ Append(q, e)[Len(q) + 1] = e /\ \A i \in 1 .. Len(q) : Append(q, e)[i] = q[i]
  BY PostIs
<1>2. \A i \in 1 .. Len(q) + 1 : i \in 1 .. Len(q) \/ i = Len(q) + 1
  BY <1>1
<1>3. ASSUME e.what # what PROVE OneAtATime(what, pending, Append(q, e), known)
  BY <1>1, <1>2, <1>3 DEF OneAtATime
<1>4. ASSUME ~pending, ~known PROVE OneAtATime(what, FALSE, Append(q, e), TRUE)
  BY <1>1, <1>2, <1>4 DEF OneAtATime
<1> QED BY <1>3, <1>4

\* A handler that is posted reads no more than there is.
LEMMA BeginningPosted ==
    ASSUME NEW q \in Seq(Events), NEW e \in Events, NEW c, FromTheBeginning(c, q),
           e.what = "read" /\ c.at = "payload" => e.n <= Len(c.frame.load)
    PROVE  FromTheBeginning(c, Append(q, e))
<1>1. /\ DOMAIN Append(q, e) = 1 .. Len(q) + 1 /\ DOMAIN q = 1 .. Len(q) /\ Len(q) \in Nat
      /\ Append(q, e)[Len(q) + 1] = e /\ \A i \in 1 .. Len(q) : Append(q, e)[i] = q[i]
  BY PostIs
<1>2. \A i \in 1 .. Len(q) + 1 : i \in 1 .. Len(q) \/ i = Len(q) + 1
  BY <1>1
<1> QED BY <1>1, <1>2 DEF FromTheBeginning

\* Nothing is a load, and nothing a queue.
LEMMA EmptyUnits == <<>> \in Units /\ <<>> \in Seq(WsItems)
BY EmptySeq DEF Units

\* The handler of a read, a write or a close carries no message.
LEMMA ResultIs ==
    ASSUME NEW what \in {"read", "write", "send", "close"}, NEW ok \in BOOLEAN
    PROVE  /\ Result(what, ok) \in Events /\ Result(what, ok).what = what /\ Result(what, ok).ok = ok
           /\ Result(what, ok).n = 0 /\ \A k : ~Mine(k, Carried(Result(what, ok)))
<1>1. NoItem \in WsItems /\ NoItem.is = "none"
  BY EmptyUnits DEF NoItem, Item, WsItems
<1> QED BY <1>1 DEF Result, Event, Events, Mine, Carried

\* The read, or the write, whose handler is posted was under way, or is from now on.
LEMMA OneAnswered ==
    ASSUME NEW q \in Seq(Events), NEW e \in Events, NEW what, NEW pending, NEW known,
           OneAtATime(what, pending, q, known), e.what = what, pending \/ ~known
    PROVE  OneAtATime(what, FALSE, Append(q, e), TRUE)
<1>1. OneAtATime(what, FALSE, q, FALSE)
  BY DEF OneAtATime
<1> QED BY <1>1, OnePosted

\* A handler is posted; what it is the handler of is not pending any more.
PostedTo(s, t, k, e) ==
    LET c == s.conn[k]
        d == t.conn[k]
    IN  /\ s \in Servers /\ t \in Servers /\ e \in Events
        /\ d.state # "free" /\ t.ready[k] = Append(s.ready[k], e)
        /\ d.state = "live" \/ OnlyLive(d, k \in t.users \/ k \in t.reads, t.ready[k])
        /\ IF e.what = "read" THEN d.reading /\ k \notin t.reads /\ (k \in s.reads \/ ~c.reading)
           ELSE d.reading = c.reading /\ (k \in t.reads <=> k \in s.reads)
        /\ IF e.what = "write" THEN d.sending # <<>> /\ k \notin t.writes /\ (k \in s.writes \/ c.sending = <<>>)
           ELSE d.sending = c.sending /\ (k \in t.writes <=> k \in s.writes)
        /\ FromTheBeginning(d, s.ready[k])
        /\ e.what = "read" /\ d.at = "payload" => e.n <= Len(d.frame.load)
        /\ k \in t.writes => d.open
        /\ k \in t.users => ~d.called

\* What holds of reads and writes still does when one is answered.
LEMMA FinePosted ==
    ASSUME NEW s, NEW t, NEW k \in Conns, NEW e, FineAt(s, k), PostedTo(s, t, k, e)
    PROVE  FineAt(t, k)
<1>0. /\ s \in Servers /\ t \in Servers /\ e \in Events /\ s.ready[k] \in Seq(Events)
      /\ t.ready[k] = Append(s.ready[k], e)
      /\ OneAtATime("read", k \in s.reads, s.ready[k], s.conn[k].reading)
      /\ OneAtATime("write", k \in s.writes, s.ready[k], s.conn[k].sending # <<>>)
  BY PartsAre DEF PostedTo, FineAt
<1>1. OneAtATime("read", k \in t.reads, t.ready[k], t.conn[k].reading)
  <2>1. CASE e.what = "read"
    <3>0. k \in s.reads \/ ~s.conn[k].reading
      BY <2>1 DEF PostedTo
    <3>1. (k \in t.reads) = FALSE /\ t.conn[k].reading = TRUE
      BY <2>1, <1>0, PartsAre DEF PostedTo
    <3>2. OneAtATime("read", FALSE, Append(s.ready[k], e), TRUE)
      <4>1. OneAtATime("read", FALSE, s.ready[k], FALSE)
        BY <1>0, <3>0 DEF OneAtATime
      <4> QED BY <1>0, <2>1, <4>1, OnePosted
    <3> QED BY <1>0, <3>1, <3>2
  <2>2. CASE e.what # "read"
    <3>1. (k \in t.reads) = (k \in s.reads) /\ t.conn[k].reading = s.conn[k].reading
      BY <2>2 DEF PostedTo
    <3>2. OneAtATime("read", k \in s.reads, Append(s.ready[k], e), s.conn[k].reading)
      BY <1>0, <2>2, OnePosted
    <3> QED BY <1>0, <3>1, <3>2
  <2> QED BY <2>1, <2>2
<1>2. OneAtATime("write", k \in t.writes, t.ready[k], t.conn[k].sending # <<>>)
  <2>1. CASE e.what = "write"
    <3>1. (k \in t.writes) = FALSE /\ (t.conn[k].sending # <<>>) = TRUE
          /\ (k \in s.writes \/ ~(s.conn[k].sending # <<>>))
      BY <2>1 DEF PostedTo
    <3>2. OneAtATime("write", FALSE, Append(s.ready[k], e), TRUE)
      BY <1>0, <2>1, <3>1, OneAnswered
    <3> QED BY <1>0, <3>1, <3>2
  <2>2. CASE e.what # "write"
    <3>1. (k \in t.writes) = (k \in s.writes) /\ t.conn[k].sending = s.conn[k].sending
      BY <2>2 DEF PostedTo
    <3>2. OneAtATime("write", k \in s.writes, Append(s.ready[k], e), s.conn[k].sending # <<>>)
      BY <1>0, <2>2, OnePosted
    <3> QED BY <1>0, <3>1, <3>2
  <2> QED BY <2>1, <2>2
<1>3. FromTheBeginning(t.conn[k], t.ready[k])
  <2>1. /\ FromTheBeginning(t.conn[k], s.ready[k])
        /\ e.what = "read" /\ t.conn[k].at = "payload" => e.n <= Len(t.conn[k].frame.load)
    BY DEF PostedTo
  <2>2. FromTheBeginning(t.conn[k], Append(s.ready[k], e))
    BY <1>0, <2>1, BeginningPosted
  <2> QED BY <1>0, <2>2
<1> QED BY <1>1, <1>2, <1>3 DEF FineAt, OnlyLive, PostedTo

\* So does what holds of the messages, which the answer does not carry.
LEMMA SafePosted ==
    ASSUME NEW s, NEW t, NEW h, AllSafe(s, h), NEW k \in Conns, NEW e, PostedTo(s, t, k, e),
           \A x \in Conns : ~Mine(x, Carried(e)), SameButReady(s, t, k), Kept(s, t, k)
    PROVE  AllSafe(t, h) /\ Rest(s, t, k) /\ (HasFrame(t.ready[k]) <=> HasFrame(s.ready[k]) \/ (e.what = "read" /\ e.ok))
<1>0. /\ s \in Servers /\ t \in Servers /\ e \in Events /\ s.ready[k] \in Seq(Events)
      /\ t.ready[k] = Append(s.ready[k], e) /\ t.conn[k].state # "free"
  BY PartsAre DEF PostedTo
<1>1. FineAt(t, k)
  BY SafeParts, FinePosted
<1>2. ASSUME NEW x \in Conns PROVE Ordered(x, k, t, got[k], hung, h[x])
  <2>1. Ordered(x, k, s, got[k], hung, h[x]) /\ h[x] \in Seq(Units)
    BY SafeParts
  <2> QED BY <1>0, <2>1, OrderedPost
<1>3. Safe(t, h, k)
  BY <1>0, <1>1, <1>2 DEF Safe
<1> QED BY <1>0, <1>3, KeptSafe, KeptRest, HasFramePost

-----------------------------------------------------------------------------
(* The servers that the operators make.                                     *)

\* A server whose connection k is c, with the queue q.
Made(s, k, c, q, R, W, U) ==
    [s EXCEPT !.conn = [s.conn EXCEPT ![k] = c], !.ready = [s.ready EXCEPT ![k] = q],
              !.reads = R, !.writes = W, !.users = U]

\* What such a server is.
LEMMA MadeIs ==
    ASSUME NEW s \in Servers, NEW k \in Conns, NEW c \in Members, NEW q \in Seq(Events),
           NEW R \in SUBSET Conns, NEW W \in SUBSET Conns, NEW U \in SUBSET Conns,
           R \ {k} = s.reads \ {k}, W \ {k} = s.writes \ {k}, U \ {k} = s.users \ {k},
           NEW t, t = Made(s, k, c, q, R, W, U)
    PROVE  /\ Kept(s, t, k) /\ t \in Servers /\ t.conn[k] = c /\ t.ready[k] = q
           /\ t.reads = R /\ t.writes = W /\ t.users = U
<1>1. t \in Servers
  BY DEF Made, Servers
<1>2. \A x \in Conns \ {k} : t.conn[x] = s.conn[x] /\ t.ready[x] = s.ready[x]
  BY DEF Made, Servers
<1>3. \A x \in Conns \ {k} : (x \in R <=> x \in s.reads) /\ (x \in W <=> x \in s.writes) /\ (x \in U <=> x \in s.users)
  OBVIOUS
<1>4. t.reads = R /\ t.writes = W /\ t.users = U
  BY DEF Made, Servers
<1>5. t.conn[k] = c /\ t.ready[k] = q
  BY DEF Made, Servers
<1> QED BY <1>1, <1>2, <1>3, <1>4, <1>5 DEF Kept

\* Setting the queue of k to what it is changes nothing.
LEMMA ReadySame == ASSUME NEW s \in Servers, NEW k \in Conns PROVE s.ready = [s.ready EXCEPT ![k] = s.ready[k]]
BY DEF Servers

\* Setting the members of k to what they are changes nothing.
LEMMA ConnSame == ASSUME NEW s \in Servers, NEW k \in Conns PROVE s.conn = [s.conn EXCEPT ![k] = s.conn[k]]
BY DEF Servers

\* A handler of k is posted.
LEMMA MadePost ==
    ASSUME NEW s \in Servers, NEW k \in Conns, NEW e
    PROVE  Post(s, k, e) = Made(s, k, s.conn[k], Append(s.ready[k], e), s.reads, s.writes, s.users)
BY ConnSame DEF Made, Servers, Post

\* Reads, writes and users are of connections.
LEMMA Subsets ==
    ASSUME NEW s \in Servers
    PROVE  s.reads \in SUBSET Conns /\ s.writes \in SUBSET Conns /\ s.users \in SUBSET Conns
BY DEF Servers

\* The two buffers are swapped.
Swapped(c) == [c EXCEPT !.sending = c.queue, !.queue = <<>>]

\* What the swap (websocket.h:459) leaves as it was.
LEMMA SwappedIs ==
    ASSUME NEW c \in Members
    PROVE  /\ Swapped(c) \in Members /\ Swapped(c).sending = c.queue /\ Swapped(c).queue = <<>>
           /\ Swapped(c).open = c.open /\ Swapped(c).state = c.state /\ Swapped(c).at = c.at
           /\ Swapped(c).left = c.left /\ Swapped(c).frame = c.frame /\ Swapped(c).fragment = c.fragment
           /\ Swapped(c).message = c.message /\ Swapped(c).reading = c.reading
           /\ Swapped(c).called = c.called /\ Swapped(c).sentClose = c.sentClose
<1>1. <<>> \in Seq(WsItems)
  BY EmptyUnits
<1> QED BY <1>1 DEF Members, Swapped

\* What is queued is written, now or with the next write.
LEMMA WriteSafe ==
    ASSUME NEW s, NEW h, AllSafe(s, h), NEW k \in Conns, s.conn[k].state = "live", s.conn[k].queue # <<>>
    PROVE  /\ Onward(s, do_write(s, k), h, k) /\ do_write(s, k).conn[k].state = "live"
           /\ do_write(s, k).conn[k].sentClose = s.conn[k].sentClose
           /\ do_write(s, k).users = s.users
<1>0. s \in Servers /\ s.conn[k] \in Members /\ s.ready[k] \in Seq(Events) /\ FineAt(s, k)
  BY SafeParts, PartsAre
<1>1. CASE s.conn[k].sending # <<>>
  <2>1. do_write(s, k) = s
    BY <1>1 DEF do_write
  <2> QED BY <2>1 DEF Onward, Rest, Aside
<1>0a. /\ s.ready[k] \in Seq(Events) /\ s.reads \in SUBSET Conns /\ s.writes \in SUBSET Conns
       /\ s.users \in SUBSET Conns
  BY <1>0, Subsets
<1> DEFINE c == s.conn[k]
           d == Swapped(c)
<1>0b. /\ d \in Members /\ d.sending = c.queue /\ d.queue = <<>> /\ d.open = c.open
       /\ d.state = c.state /\ d.at = c.at /\ d.left = c.left
       /\ d.frame = c.frame /\ d.fragment = c.fragment /\ d.message = c.message
       /\ d.reading = c.reading /\ d.called = c.called /\ d.sentClose = c.sentClose
  BY <1>0, SwappedIs
<1> HIDE DEF d
<1>2. CASE c.sending = <<>> /\ c.open
  <2> DEFINE t == do_write(s, k)
  <2>1. t = Made(s, k, d, s.ready[k], s.reads, s.writes \cup {k}, s.users)
    <3>1. t = [s EXCEPT !.conn = [s.conn EXCEPT ![k] = d], !.writes = s.writes \cup {k}]
      BY <1>2, <1>0 DEF do_write, Servers, d, Swapped
    <3> HIDE DEF t
    <3> QED BY <1>0, <3>1, ReadySame DEF Made, Servers
  <2> HIDE DEF t
  <2>3. /\ Kept(s, t, k) /\ t.conn[k] = d /\ t.ready[k] = s.ready[k] /\ t \in Servers
        /\ t.reads = s.reads /\ t.writes = s.writes \cup {k} /\ t.users = s.users
    BY <1>0, <1>0a, <1>0b, <2>1, MadeIs
  <2>5. FineAt(t, k)
    <3>1. OneAtATime("read", k \in t.reads, t.ready[k], t.conn[k].reading)
      BY <1>0, <1>0b, <2>3 DEF FineAt
    <3>2. OneAtATime("write", k \in t.writes, t.ready[k], t.conn[k].sending # <<>>)
      BY <1>0, <1>0b, <1>2, <2>3 DEF FineAt, OneAtATime
    <3>3. FromTheBeginning(t.conn[k], t.ready[k])
      BY <1>0, <1>0b, <2>3 DEF FineAt, FromTheBeginning
    <3>4. OnlyLive(t.conn[k], k \in t.users \/ k \in t.reads, t.ready[k]) /\ (k \in t.users => ~t.conn[k].called)
      BY <1>0, <1>0b, <2>3 DEF FineAt, OnlyLive
    <3> QED BY <1>0b, <1>2, <2>3, <3>1, <3>2, <3>3, <3>4 DEF FineAt
  <2>6. ASSUME NEW x \in Conns PROVE Ordered(x, k, t, got[k], hung, h[x])
    <3>1. Ordered(x, k, s, got[k], hung, h[x]) /\ h[x] \in Seq(Units)
      BY SafeParts
    <3>2. Under(s, k) = <<>> /\ Under(t, k) = s.conn[k].queue
      BY <1>2, <1>0b, <2>3 DEF Under
    <3> QED BY <1>0, <1>0b, <2>3, <3>1, <3>2, OrderedSwap
  <2>7. AllSafe(t, h)
    <3>1. Safe(t, h, k)
      BY <1>0b, <2>3, <2>5, <2>6 DEF Safe
    <3> QED BY <2>3, <3>1, KeptSafe
  <2> QED BY <1>0b, <2>3, <2>7, KeptRest DEF Onward, Aside, t
<1>3. CASE c.sending = <<>> /\ ~c.open
  <2> DEFINE e == Result("write", FALSE)
             t == do_write(s, k)
             q == Append(s.ready[k], e)
  <2>0. e \in Events /\ e.what = "write" /\ \A x : ~Mine(x, Carried(e))
    BY ResultIs
  <2> HIDE DEF e
  <2>1. t = Made(s, k, d, q, s.reads, s.writes, s.users)
    <3>1. t = [s EXCEPT !.conn = [s.conn EXCEPT ![k] = d], !.ready = [s.ready EXCEPT ![k] = Append(s.ready[k], e)]]
      BY <1>3, <1>0 DEF do_write, Servers, Post, d, Swapped, e
    <3> HIDE DEF t
    <3> QED BY <1>0, <3>1 DEF Made, Servers
  <2> HIDE DEF t
  <2>2. q \in Seq(Events)
    BY <1>0, <2>0
  <2> HIDE DEF q
  <2>3. /\ Kept(s, t, k) /\ t.conn[k] = d /\ t.ready[k] = q /\ t \in Servers
        /\ t.reads = s.reads /\ t.writes = s.writes /\ t.users = s.users
    BY <1>0, <1>0a, <1>0b, <2>1, <2>2, MadeIs
  <2>5. PostedTo(s, t, k, e)
    <3>1. k \notin s.writes
      BY <1>0, <1>3 DEF FineAt
    <3>2. FromTheBeginning(t.conn[k], s.ready[k]) /\ (k \in t.users => ~t.conn[k].called)
      BY <1>0, <1>0b, <2>3 DEF FineAt, FromTheBeginning
    <3> QED BY <1>0, <1>0b, <1>3, <2>0, <2>3, <3>1, <3>2 DEF PostedTo, q
  <2>6. SameButReady(s, t, k)
    BY <1>3, <2>3, <1>0b DEF SameButReady
  <2>7. AllSafe(t, h) /\ Rest(s, t, k) /\ (HasFrame(t.ready[k]) <=> HasFrame(s.ready[k]))
    BY <2>0, <2>3, <2>5, <2>6, SafePosted
  <2> QED BY <1>0b, <2>3, <2>7 DEF Onward, Aside, t
<1> QED BY <1>1, <1>2, <1>3

\* One more is queued.
Queued(c, item) == [c EXCEPT !.queue = Append(@, item)]

\* What queueing leaves as it was.
LEMMA QueuedIs ==
    ASSUME NEW c \in Members, NEW item \in WsItems
    PROVE  /\ Queued(c, item) \in Members /\ Queued(c, item).sending = c.sending
           /\ Queued(c, item).queue = Append(c.queue, item) /\ Queued(c, item).queue # <<>>
           /\ Queued(c, item).open = c.open /\ Queued(c, item).state = c.state /\ Queued(c, item).at = c.at
           /\ Queued(c, item).left = c.left /\ Queued(c, item).frame = c.frame
           /\ Queued(c, item).fragment = c.fragment /\ Queued(c, item).message = c.message
           /\ Queued(c, item).reading = c.reading /\ Queued(c, item).called = c.called
           /\ Queued(c, item).sentClose = c.sentClose
<1>1. c.queue \in Seq(WsItems)
  BY DEF Members
<1>2. Append(c.queue, item) \in Seq(WsItems) /\ Append(c.queue, item) # <<>>
  BY <1>1
<1>3. Queued(c, item).queue = Append(c.queue, item)
  BY DEF Members, Queued
<1> QED BY <1>2, <1>3 DEF Members, Queued

\* write_buffers_.emplace_back, in send_text (websocket.h:108-116).
Enqueued(s, k, item) == [s EXCEPT !.conn[k].queue = Append(@, item)]

\* Only the queue of k is changed.
LEMMA EnqueuedIs ==
    ASSUME NEW s \in Servers, NEW k \in Conns, NEW item \in WsItems
    PROVE  /\ Kept(s, Enqueued(s, k, item), k) /\ Enqueued(s, k, item) \in Servers
           /\ Enqueued(s, k, item).conn[k] = Queued(s.conn[k], item)
           /\ Enqueued(s, k, item).ready[k] = s.ready[k] /\ Enqueued(s, k, item).reads = s.reads
           /\ Enqueued(s, k, item).writes = s.writes /\ Enqueued(s, k, item).users = s.users
<1> DEFINE t == Enqueued(s, k, item)
           d == Queued(s.conn[k], item)
<1>1. /\ s.conn[k] \in Members /\ s.ready[k] \in Seq(Events)
      /\ s.reads \in SUBSET Conns /\ s.writes \in SUBSET Conns /\ s.users \in SUBSET Conns
  BY PartsAre, Subsets
<1>2. d \in Members
  BY <1>1, QueuedIs
<1>3. t = [s EXCEPT !.conn = [s.conn EXCEPT ![k] = d]]
  BY DEF Enqueued, Queued, Servers
<1> HIDE DEF t, d
<1>4. t = Made(s, k, d, s.ready[k], s.reads, s.writes, s.users)
  BY <1>3, ReadySame DEF Made, Servers
<1>5. /\ Kept(s, t, k) /\ t \in Servers /\ t.conn[k] = d /\ t.ready[k] = s.ready[k]
      /\ t.reads = s.reads /\ t.writes = s.writes /\ t.users = s.users
  BY <1>1, <1>2, <1>4, MadeIs
<1> QED BY <1>5 DEF t, d

\* Queueing touches no read and no write.
LEMMA QueueFine ==
    ASSUME NEW s \in Servers, NEW k \in Conns, NEW item \in WsItems, FineAt(s, k), s.conn[k].state = "live"
    PROVE  FineAt(Enqueued(s, k, item), k)
<1> DEFINE t == Enqueued(s, k, item)
           d == Queued(s.conn[k], item)
<1>1. s.conn[k] \in Members
  BY PartsAre
<1>2. /\ t.conn[k] = d /\ t.ready[k] = s.ready[k] /\ t.reads = s.reads
      /\ t.writes = s.writes /\ t.users = s.users
  BY EnqueuedIs
<1>3. /\ d.sending = s.conn[k].sending /\ d.open = s.conn[k].open /\ d.state = "live" /\ d.at = s.conn[k].at
      /\ d.left = s.conn[k].left /\ d.frame = s.conn[k].frame /\ d.fragment = s.conn[k].fragment
      /\ d.reading = s.conn[k].reading /\ d.called = s.conn[k].called
  BY <1>1, QueuedIs
<1> HIDE DEF t, d
<1>4. /\ OneAtATime("read", k \in t.reads, t.ready[k], t.conn[k].reading)
      /\ OneAtATime("write", k \in t.writes, t.ready[k], t.conn[k].sending # <<>>)
  BY <1>2, <1>3 DEF FineAt
<1>5. FromTheBeginning(t.conn[k], t.ready[k])
  BY <1>2, <1>3 DEF FineAt, FromTheBeginning
<1>6. OnlyLive(t.conn[k], k \in t.users \/ k \in t.reads, t.ready[k]) /\ (k \in t.users => ~t.conn[k].called)
  BY <1>2, <1>3 DEF FineAt, OnlyLive
<1>7. FineAt(t, k)
  BY <1>2, <1>3, <1>4, <1>5, <1>6 DEF FineAt
<1> QED BY <1>7 DEF t

\* Something that is no message is written.
LEMMA SentSafe ==
    ASSUME NEW s, NEW h, AllSafe(s, h), NEW k \in Conns, s.conn[k].state = "live",
           NEW item \in WsItems, item.is # "message"
    PROVE  /\ Onward(s, Sent(s, k, item), h, k) /\ Sent(s, k, item).conn[k].state = "live"
           /\ Sent(s, k, item).users = s.users
<1> DEFINE t == Enqueued(s, k, item)
           d == Queued(s.conn[k], item)
<1>1. s \in Servers /\ FineAt(s, k) /\ s.conn[k] \in Members
  BY SafeParts, PartsAre
<1>2. /\ Kept(s, t, k) /\ t \in Servers /\ t.conn[k] = d /\ t.ready[k] = s.ready[k] /\ t.reads = s.reads
      /\ t.writes = s.writes /\ t.users = s.users
  BY <1>1, EnqueuedIs
<1>3. /\ d.sending = s.conn[k].sending /\ d.open = s.conn[k].open /\ d.state = "live" /\ d.at = s.conn[k].at
      /\ d.left = s.conn[k].left /\ d.frame = s.conn[k].frame /\ d.fragment = s.conn[k].fragment
      /\ d.reading = s.conn[k].reading /\ d.message = s.conn[k].message
      /\ d.queue = Append(s.conn[k].queue, item) /\ d.queue # <<>>
  BY <1>1, QueuedIs
<1>4. FineAt(t, k)
  BY <1>1, QueueFine
<1>5. Sent(s, k, item) = do_write(t, k)
  BY DEF Sent, Enqueued
<1> HIDE DEF t, d
<1>6. ASSUME NEW x \in Conns PROVE Ordered(x, k, t, got[k], hung, h[x])
  <2>1. Ordered(x, k, s, got[k], hung, h[x]) /\ h[x] \in Seq(Units)
    BY SafeParts
  <2>2. Under(t, k) = Under(s, k) /\ ~Mine(x, item)
    BY <1>2, <1>3 DEF Under, Mine
  <2> QED BY <1>1, <1>2, <1>3, <2>1, <2>2, OrderedQueue
<1>7. AllSafe(t, h)
  <2>1. Safe(t, h, k)
    BY <1>2, <1>3, <1>4, <1>6 DEF Safe
  <2> QED BY <1>2, <2>1, KeptSafe
<1>8. Onward(s, t, h, k)
  BY <1>2, <1>3, <1>7, KeptRest DEF Onward, Aside
<1>9. /\ Onward(t, do_write(t, k), h, k) /\ do_write(t, k).conn[k].state = "live"
      /\ do_write(t, k).users = t.users
  BY <1>2, <1>3, <1>7, WriteSafe
<1> QED BY <1>2, <1>5, <1>8, <1>9, OnwardOn

-----------------------------------------------------------------------------
(* The end of a connection.                                                 *)

\* The close handler (example_ws.cpp:20) only takes k from users.
LEMMA OnCloseIs ==
    ASSUME NEW s \in Servers, NEW k \in Conns
    PROVE  /\ Kept(s, OnClose(s, k), k) /\ OnClose(s, k).conn = s.conn /\ OnClose(s, k).ready = s.ready
           /\ OnClose(s, k).reads = s.reads /\ OnClose(s, k).writes = s.writes
           /\ k \notin OnClose(s, k).users /\ OnClose(s, k) \in Servers
BY DEF OnClose, Kept, Servers

\* It leaves all in order.
LEMMA OnCloseSafe ==
    ASSUME NEW s, NEW h, AllSafe(s, h), NEW k \in Conns, s.conn[k].state = "live"
    PROVE  Onward(s, OnClose(s, k), h, k)
<1> DEFINE t == OnClose(s, k)
<1>1. /\ Kept(s, t, k) /\ t.conn = s.conn /\ t.ready = s.ready /\ t.reads = s.reads
      /\ t.writes = s.writes /\ k \notin t.users
  BY SafeParts, OnCloseIs
<1> HIDE DEF t
<1>2. Quietly(s, t, k)
  BY <1>1 DEF Quietly
<1>3. AllSafe(t, h)
  BY <1>2, QuietSafe
<1>4. Onward(s, t, h, k)
  BY <1>1, <1>3, KeptRest DEF Onward, Aside
<1> QED BY <1>4 DEF t

\* The connection is deleted.
Deleted(c) == [c EXCEPT !.state = "deleted", !.open = FALSE]

\* What deleting leaves as it was.
LEMMA DeletedIs ==
    ASSUME NEW c \in Members
    PROVE  /\ Deleted(c) \in Members /\ Deleted(c).state = "deleted" /\ Deleted(c).open = FALSE
           /\ Deleted(c).sending = c.sending /\ Deleted(c).queue = c.queue
           /\ Deleted(c).at = c.at /\ Deleted(c).left = c.left /\ Deleted(c).frame = c.frame
           /\ Deleted(c).fragment = c.fragment /\ Deleted(c).message = c.message
           /\ Deleted(c).reading = c.reading /\ Deleted(c).called = c.called
BY DEF Members, Deleted

\* delete this, in check_destroy (websocket.h:491), with the socket in it.
Destroyed(s, k) == [s EXCEPT !.conn[k].state = "deleted", !.conn[k].open = FALSE]

\* Only k is changed.
LEMMA DestroyedIs ==
    ASSUME NEW s \in Servers, NEW k \in Conns
    PROVE  /\ Kept(s, Destroyed(s, k), k) /\ Destroyed(s, k) \in Servers
           /\ Destroyed(s, k).conn[k] = Deleted(s.conn[k])
           /\ Destroyed(s, k).ready[k] = s.ready[k] /\ Destroyed(s, k).reads = s.reads
           /\ Destroyed(s, k).writes = s.writes /\ Destroyed(s, k).users = s.users
<1> DEFINE t == Destroyed(s, k)
           d == Deleted(s.conn[k])
<1>1. /\ s.conn[k] \in Members /\ s.ready[k] \in Seq(Events)
      /\ s.reads \in SUBSET Conns /\ s.writes \in SUBSET Conns /\ s.users \in SUBSET Conns
  BY PartsAre, Subsets
<1>2. d \in Members
  BY <1>1, DeletedIs
<1>3. t = [s EXCEPT !.conn = [s.conn EXCEPT ![k] = d]]
  BY DEF Destroyed, Deleted, Servers
<1> HIDE DEF t, d
<1>4. t = Made(s, k, d, s.ready[k], s.reads, s.writes, s.users)
  BY <1>3, ReadySame DEF Made, Servers
<1>5. /\ Kept(s, t, k) /\ t \in Servers /\ t.conn[k] = d /\ t.ready[k] = s.ready[k]
      /\ t.reads = s.reads /\ t.writes = s.writes /\ t.users = s.users
  BY <1>1, <1>2, <1>4, MadeIs
<1> QED BY <1>5 DEF t, d

\* A connection is deleted only when nothing of it is under way, and it is no user.
LEMMA DestroyedSafe ==
    ASSUME NEW s, NEW h, AllSafe(s, h), NEW k \in Conns, s.conn[k].state = "live",
           s.conn[k].sending = <<>>, ~s.conn[k].reading, k \notin s.users
    PROVE  Onward(s, Destroyed(s, k), h, k)
<1> DEFINE t == Destroyed(s, k)
           d == Deleted(s.conn[k])
<1>1. s \in Servers /\ FineAt(s, k) /\ s.conn[k] \in Members
  BY SafeParts, PartsAre
<1>2. /\ Kept(s, t, k) /\ t \in Servers /\ t.conn[k] = d /\ t.ready[k] = s.ready[k] /\ t.reads = s.reads
      /\ t.writes = s.writes /\ t.users = s.users
  BY <1>1, DestroyedIs
<1>3. /\ d.sending = <<>> /\ ~d.open /\ d.state = "deleted" /\ d.at = s.conn[k].at
      /\ d.left = s.conn[k].left /\ d.frame = s.conn[k].frame /\ d.fragment = s.conn[k].fragment
      /\ d.reading = s.conn[k].reading /\ d.message = s.conn[k].message
  BY <1>1, DeletedIs
<1> HIDE DEF t, d
<1>4. FineAt(t, k)
  <2>1. /\ OneAtATime("read", k \in t.reads, t.ready[k], t.conn[k].reading)
        /\ OneAtATime("write", k \in t.writes, t.ready[k], t.conn[k].sending # <<>>)
        /\ k \notin t.writes /\ k \notin t.reads
    BY <1>1, <1>2, <1>3 DEF FineAt, OneAtATime
  <2>2. FromTheBeginning(t.conn[k], t.ready[k])
    BY <1>1, <1>2, <1>3 DEF FineAt, FromTheBeginning
  <2>3. OnlyLive(t.conn[k], k \in t.users \/ k \in t.reads, t.ready[k]) /\ k \notin t.users
    BY <1>1, <1>2, <1>3, <2>1 DEF OnlyLive
  <2> QED BY <2>1, <2>2, <2>3 DEF FineAt
<1>5. ASSUME NEW x \in Conns PROVE Ordered(x, k, t, got[k], hung, h[x])
  <2>1. Ordered(x, k, s, got[k], hung, h[x]) /\ h[x] \in Seq(Units)
    BY SafeParts
  <2> QED BY <1>2, <1>3, <2>1, OrderedSame
<1>6. AllSafe(t, h)
  <2>1. Safe(t, h, k)
    BY <1>2, <1>3, <1>4, <1>5 DEF Safe
  <2> QED BY <1>2, <2>1, KeptSafe
<1>7. Onward(s, t, h, k)
  BY <1>2, <1>3, <1>6, KeptRest DEF Onward, Aside
<1> QED BY <1>7 DEF t

\* check_destroy (websocket.h:485-493): it deletes only what has no read and no write under way.
LEMMA DestroySafe ==
    ASSUME NEW s, NEW h, AllSafe(s, h), NEW k \in Conns, s.conn[k].state = "live"
    PROVE  Onward(s, check_destroy(s, k), h, k)
<1> DEFINE t == IF s.conn[k].called THEN s ELSE OnClose(s, k)
<1>1. s \in Servers /\ FineAt(s, k)
  BY SafeParts
<1>2. Onward(s, t, h, k) /\ t.conn = s.conn /\ k \notin t.users
  <2>1. CASE s.conn[k].called
    <3>1. Onward(s, s, h, k)
      BY DEF Onward, Rest, Aside
    <3> QED BY <1>1, <2>1, <3>1 DEF FineAt
  <2>2. CASE ~s.conn[k].called
    BY <1>1, <2>2, OnCloseIs, OnCloseSafe
  <2> QED BY <2>1, <2>2
<1>3. check_destroy(s, k) = IF s.conn[k].sending = <<>> /\ ~s.conn[k].reading THEN Destroyed(t, k) ELSE t
  BY DEF check_destroy, Destroyed
<1> HIDE DEF t
<1>4. CASE s.conn[k].sending = <<>> /\ ~s.conn[k].reading
  <2>1. Onward(t, Destroyed(t, k), h, k)
    BY <1>2, <1>4, DestroyedSafe DEF Onward
  <2> QED BY <1>2, <1>3, <1>4, <2>1, OnwardOn
<1>5. CASE ~(s.conn[k].sending = <<>> /\ ~s.conn[k].reading)
  BY <1>2, <1>3, <1>5
<1> QED BY <1>4, <1>5

-----------------------------------------------------------------------------

\* The socket is closed (socket_adaptors.h:45).
Shut(c) == [c EXCEPT !.open = FALSE]

\* What closing leaves as it was.
LEMMA ShutIs ==
    ASSUME NEW c \in Members
    PROVE  /\ Shut(c) \in Members /\ Shut(c).open = FALSE /\ Shut(c).state = c.state
           /\ Shut(c).sending = c.sending /\ Shut(c).queue = c.queue
           /\ Shut(c).at = c.at /\ Shut(c).left = c.left /\ Shut(c).frame = c.frame
           /\ Shut(c).fragment = c.fragment /\ Shut(c).message = c.message
           /\ Shut(c).reading = c.reading /\ Shut(c).called = c.called
BY DEF Members, Shut

\* The adaptor is closed while no read is pending.
LEMMA CloseAdaptorIs ==
    ASSUME NEW s \in Servers, NEW k \in Conns, k \notin s.reads
    PROVE  LET t == CloseAdaptor(s, k)
           IN  /\ Kept(s, t, k) /\ t \in Servers /\ t.conn[k] = Shut(s.conn[k])
               /\ t.ready[k] = (IF k \in s.writes THEN Append(s.ready[k], Result("write", FALSE)) ELSE s.ready[k])
               /\ t.reads = s.reads /\ t.writes = s.writes \ {k} /\ t.users = s.users
<1> DEFINE t == CloseAdaptor(s, k)
           d == Shut(s.conn[k])
           e == Result("write", FALSE)
           q == IF k \in s.writes THEN Append(s.ready[k], e) ELSE s.ready[k]
<1>1. /\ s.conn[k] \in Members /\ s.ready[k] \in Seq(Events)
      /\ s.reads \in SUBSET Conns /\ s.writes \in SUBSET Conns /\ s.users \in SUBSET Conns
  BY PartsAre, Subsets
<1>0. e \in Events
  BY ResultIs
<1> HIDE DEF e
<1>2. d \in Members /\ q \in Seq(Events)
  <2>1. d \in Members
    BY <1>1, ShutIs
  <2>2. Append(s.ready[k], e) \in Seq(Events)
    BY <1>0, <1>1
  <2> QED BY <1>1, <2>1, <2>2
<1>3. s.ready[k] \o Aborted(s, k) = q
  <2>1. /\ s.ready[k] \o <<>> = s.ready[k] /\ s.ready[k] \o <<e>> = Append(s.ready[k], e)
        /\ <<>> \o <<>> = <<>> /\ <<>> \o <<e>> = <<e>>
    BY <1>0, <1>1
  <2>2. CASE k \in s.writes
    <3>1. Aborted(s, k) = <<e>>
      BY <2>1, <2>2 DEF Aborted, e
    <3> QED BY <2>1, <2>2, <3>1
  <2>3. CASE k \notin s.writes
    <3>1. Aborted(s, k) = <<>>
      BY <2>1, <2>3 DEF Aborted
    <3> QED BY <2>1, <2>3, <3>1
  <2> QED BY <2>2, <2>3
<1>4. s.reads \ {k} = s.reads
  OBVIOUS
<1>5. t = [s EXCEPT !.conn = [s.conn EXCEPT ![k] = d], !.reads = s.reads, !.writes = s.writes \ {k},
                    !.ready = [s.ready EXCEPT ![k] = q]]
  <2>1. t = [s EXCEPT !.conn = [s.conn EXCEPT ![k] = d], !.reads = s.reads \ {k}, !.writes = s.writes \ {k},
                      !.ready = [s.ready EXCEPT ![k] = s.ready[k] \o Aborted(s, k)]]
    BY DEF CloseAdaptor, Shut, Servers
  <2> QED BY <1>3, <1>4, <2>1
<1> HIDE DEF t, d, q
<1>6. t = Made(s, k, d, q, s.reads, s.writes \ {k}, s.users)
  BY <1>5 DEF Made, Servers
<1>7. /\ Kept(s, t, k) /\ t \in Servers /\ t.conn[k] = d /\ t.ready[k] = q
      /\ t.reads = s.reads /\ t.writes = s.writes \ {k} /\ t.users = s.users
  BY <1>1, <1>2, <1>6, MadeIs
<1> QED BY <1>7 DEF t, d, q, e

\* It answers the write that is pending, with an error, and leaves all in order.
LEMMA CloseAdaptorSafe ==
    ASSUME NEW s, NEW h, AllSafe(s, h), NEW k \in Conns, s.conn[k].state = "live", ~s.conn[k].reading
    PROVE  Onward(s, CloseAdaptor(s, k), h, k) /\ CloseAdaptor(s, k).conn[k].state = "live"
<1> DEFINE t == CloseAdaptor(s, k)
           d == Shut(s.conn[k])
           e == Result("write", FALSE)
<1>0. e \in Events /\ e.what = "write" /\ \A x : ~Mine(x, Carried(e))
  BY ResultIs
<1>1. s \in Servers /\ FineAt(s, k) /\ s.conn[k] \in Members
  BY SafeParts, PartsAre
<1>2. k \notin s.reads
  BY <1>1 DEF FineAt, OneAtATime
<1>3. /\ Kept(s, t, k) /\ t \in Servers /\ t.conn[k] = d
      /\ t.ready[k] = (IF k \in s.writes THEN Append(s.ready[k], e) ELSE s.ready[k])
      /\ t.reads = s.reads /\ t.writes = s.writes \ {k} /\ t.users = s.users
  BY <1>1, <1>2, CloseAdaptorIs
<1>4. /\ d.sending = s.conn[k].sending /\ ~d.open /\ d.state = "live" /\ d.at = s.conn[k].at
      /\ d.left = s.conn[k].left /\ d.frame = s.conn[k].frame /\ d.fragment = s.conn[k].fragment
      /\ d.reading = s.conn[k].reading /\ d.message = s.conn[k].message /\ d.queue = s.conn[k].queue
      /\ d.called = s.conn[k].called
  BY <1>1, ShutIs
<1> HIDE DEF t, d, e
<1>5. FromTheBeginning(t.conn[k], s.ready[k]) /\ (k \in t.users => ~t.conn[k].called) /\ k \notin t.writes
  BY <1>1, <1>3, <1>4 DEF FineAt, FromTheBeginning
<1>6. CASE k \in s.writes
  <2>1. s.conn[k].sending # <<>>
    BY <1>1, <1>6 DEF FineAt, OneAtATime
  <2>2. PostedTo(s, t, k, e) /\ SameButReady(s, t, k)
    BY <1>0, <1>1, <1>3, <1>4, <1>5, <1>6, <2>1 DEF PostedTo, SameButReady
  <2>3. AllSafe(t, h) /\ Rest(s, t, k) /\ (HasFrame(t.ready[k]) <=> HasFrame(s.ready[k]))
    BY <1>0, <1>3, <2>2, SafePosted
  <2> QED BY <1>3, <1>4, <2>3 DEF Onward, Aside, t
<1>7. CASE k \notin s.writes
  <2>1. t.writes = s.writes /\ t.ready[k] = s.ready[k]
    BY <1>3, <1>7
  <2>2. FineAt(t, k)
    <3>1. /\ OneAtATime("read", k \in t.reads, t.ready[k], t.conn[k].reading)
          /\ OneAtATime("write", k \in t.writes, t.ready[k], t.conn[k].sending # <<>>)
      BY <1>1, <1>3, <1>4, <2>1 DEF FineAt
    <3>2. OnlyLive(t.conn[k], k \in t.users \/ k \in t.reads, t.ready[k])
      BY <1>3, <1>4 DEF OnlyLive
    <3> QED BY <1>5, <2>1, <3>1, <3>2 DEF FineAt
  <2>3. ASSUME NEW x \in Conns PROVE Ordered(x, k, t, got[k], hung, h[x])
    <3>1. Ordered(x, k, s, got[k], hung, h[x]) /\ h[x] \in Seq(Units)
      BY SafeParts
    <3> QED BY <1>3, <1>4, <2>1, <3>1, OrderedSame
  <2>4. AllSafe(t, h)
    <3>1. Safe(t, h, k)
      BY <1>3, <1>4, <2>2, <2>3 DEF Safe
    <3> QED BY <1>3, <3>1, KeptSafe
  <2> QED BY <1>3, <1>4, <2>1, <2>4, KeptRest DEF Onward, Aside, t
<1> QED BY <1>6, <1>7

-----------------------------------------------------------------------------
(* What is read.                                                            *)

\* A frame is at hand from its header on.
AtHand(c, q) == c.at # "header" \/ HasFrame(q)

\* The same frame is at hand, after the same parts of a message.
SameFrame(s, t, k) ==
    /\ t.conn[k].frame = s.conn[k].frame /\ t.conn[k].message = s.conn[k].message
    /\ AtHand(t.conn[k], t.ready[k]) <=> AtHand(s.conn[k], s.ready[k])

\* is_reading is set (websocket.h:179).
SetReading(c) == [c EXCEPT !.reading = TRUE]

\* What that leaves as it was.
LEMMA ReadingIs ==
    ASSUME NEW c \in Members
    PROVE  /\ SetReading(c) \in Members /\ SetReading(c).reading = TRUE /\ SetReading(c).state = c.state
           /\ SetReading(c).sending = c.sending /\ SetReading(c).queue = c.queue /\ SetReading(c).open = c.open
           /\ SetReading(c).at = c.at /\ SetReading(c).left = c.left /\ SetReading(c).frame = c.frame
           /\ SetReading(c).fragment = c.fragment /\ SetReading(c).message = c.message
           /\ SetReading(c).called = c.called
           /\ SetReading(c).sentClose = c.sentClose /\ SetReading(c).recvClose = c.recvClose
BY DEF Members, SetReading

\* Nothing is being read, and what comes next is at its beginning.
ReadsFrom(c) == ~c.reading /\ c.fragment = <<>> /\ (c.at # "header" => c.left = Len(c.frame.load))

\* The connection is there, or the closing handshake is done.
CanRead(c, q) == c.state # "free" /\ (c.state # "live" => LastRead(c, q))

\* The next read is begun, of a payload at its beginning.
LEMMA ReadSafe ==
    ASSUME NEW s, NEW h, AllSafe(s, h), NEW k \in Conns, CanRead(s.conn[k], s.ready[k]), ReadsFrom(s.conn[k])
    PROVE  /\ AllSafe(do_read(s, k), h) /\ Rest(s, do_read(s, k), k) /\ SameFrame(s, do_read(s, k), k)
           /\ do_read(s, k).conn[k].state = s.conn[k].state
           /\ (HasFrame(do_read(s, k).ready[k]) => HasFrame(s.ready[k]) \/ s.conn[k].at = "payload")
<1> DEFINE t == do_read(s, k)
           d == SetReading(s.conn[k])
<1>1. /\ s \in Servers /\ FineAt(s, k) /\ s.conn[k] \in Members /\ s.ready[k] \in Seq(Events)
      /\ s.reads \in SUBSET Conns /\ s.writes \in SUBSET Conns /\ s.users \in SUBSET Conns
  <2>1. s \in Servers /\ FineAt(s, k)
    BY SafeParts
  <2> QED BY <2>1, PartsAre, Subsets
<1>2. /\ d.sending = s.conn[k].sending /\ d.open = s.conn[k].open /\ d.state = s.conn[k].state /\ d.at = s.conn[k].at
      /\ d.left = s.conn[k].left /\ d.frame = s.conn[k].frame /\ d.fragment = s.conn[k].fragment
      /\ d.reading /\ d.message = s.conn[k].message /\ d.queue = s.conn[k].queue
      /\ d.called = s.conn[k].called /\ d \in Members
      /\ d.sentClose = s.conn[k].sentClose /\ d.recvClose = s.conn[k].recvClose
  BY <1>1, ReadingIs
<1>3. k \notin s.reads /\ FromTheBeginning(d, s.ready[k])
  BY <1>1, <1>2 DEF FineAt, OneAtATime, FromTheBeginning, ReadsFrom
<1>4. ASSUME NEW ok \in BOOLEAN, t = Post([s EXCEPT !.conn[k].reading = TRUE], k, Result("read", ok)),
             ok => s.conn[k].at = "payload" /\ s.conn[k].state = "live"
      PROVE  /\ AllSafe(t, h) /\ Rest(s, t, k) /\ SameFrame(s, t, k) /\ t.conn[k].state = s.conn[k].state
             /\ (HasFrame(t.ready[k]) => HasFrame(s.ready[k]) \/ s.conn[k].at = "payload")
  <2> DEFINE e == Result("read", ok)
             q == Append(s.ready[k], e)
  <2>0. e \in Events /\ e.what = "read" /\ e.ok = ok /\ e.n = 0 /\ \A x : ~Mine(x, Carried(e))
    BY ResultIs
  <2>1. t = [s EXCEPT !.conn = [s.conn EXCEPT ![k] = d], !.ready = [s.ready EXCEPT ![k] = q]]
    BY <1>4, <1>1 DEF Post, SetReading, Servers
  <2> HIDE DEF t, d, e
  <2>2. q \in Seq(Events)
    BY <1>1, <2>0
  <2> HIDE DEF q
  <2>3. t = Made(s, k, d, q, s.reads, s.writes, s.users)
    BY <1>1, <2>1 DEF Made, Servers
  <2>4. /\ Kept(s, t, k) /\ t \in Servers /\ t.conn[k] = d /\ t.ready[k] = q
        /\ t.reads = s.reads /\ t.writes = s.writes /\ t.users = s.users
    BY <1>1, <1>2, <2>2, <2>3, MadeIs
  <2>5. e.n <= Len(d.frame.load)
    <3>1. Len(d.frame.load) \in Nat
      BY <1>2 DEF Members, Frame, Units
    <3> QED BY <2>0, <3>1
  <2>6. (k \in t.writes => t.conn[k].open) /\ (k \in t.users => ~t.conn[k].called)
    BY <1>1, <1>2, <2>4 DEF FineAt
  <2>7. PostedTo(s, t, k, e) /\ SameButReady(s, t, k)
    <3>1. t.ready[k] = Append(s.ready[k], e)
      BY <2>4 DEF q
    <3>2. SameButReady(s, t, k)
      BY <1>2, <2>4 DEF SameButReady, Under
    <3>3. ~s.conn[k].reading /\ s.conn[k].state # "free"
      BY DEF ReadsFrom, CanRead
    <3>4. d.state = "live" \/ OnlyLive(d, k \in t.users \/ k \in t.reads, t.ready[k])
      <4> SUFFICES ASSUME d.state # "live" PROVE OnlyLive(d, k \in t.users \/ k \in t.reads, t.ready[k])
        OBVIOUS
      <4>1. LastRead(s.conn[k], s.ready[k]) /\ ok = FALSE
        BY <1>2, <1>4 DEF CanRead
      <4>2. OnlyLive(s.conn[k], k \in s.users \/ k \in s.reads, s.ready[k])
        BY <1>1 DEF FineAt
      <4>3. ~HasFrame(t.ready[k])
        BY <1>1, <2>0, <3>1, <4>1, HasFramePost DEF LastRead
      <4> QED BY <1>2, <2>4, <3>3, <4>1, <4>2, <4>3 DEF OnlyLive, LastRead
    <3> QED BY <1>1, <1>2, <1>3, <2>0, <2>4, <2>5, <2>6, <3>1, <3>2, <3>3, <3>4 DEF PostedTo
  <2>8. AllSafe(t, h) /\ Rest(s, t, k) /\ (HasFrame(t.ready[k]) <=> HasFrame(s.ready[k]) \/ ok)
    BY <2>0, <2>4, <2>7, SafePosted
  <2>9. SameFrame(s, t, k)
    BY <1>2, <1>4, <2>4, <2>8 DEF SameFrame, AtHand
  <2> QED BY <1>2, <1>4, <2>4, <2>8, <2>9
<1>5. CASE ~s.conn[k].open
  <2>1. t = Post([s EXCEPT !.conn[k].reading = TRUE], k, Result("read", FALSE))
    BY <1>5 DEF do_read
  <2> QED BY <1>4, <2>1
<1>6. CASE s.conn[k].open /\ s.conn[k].at = "payload" /\ s.conn[k].left = 0
  <2>1. t = Post([s EXCEPT !.conn[k].reading = TRUE], k, Result("read", TRUE))
    BY <1>6 DEF do_read
  <2>2. s.conn[k].state = "live"
    BY <1>1, <1>6 DEF FineAt, OnlyLive
  <2> QED BY <1>4, <1>6, <2>1, <2>2
<1>7. CASE s.conn[k].open /\ ~(s.conn[k].at = "payload" /\ s.conn[k].left = 0)
  <2>0. d.state = "live"
    BY <1>1, <1>2, <1>7 DEF FineAt, OnlyLive
  <2>1. t = [s EXCEPT !.conn = [s.conn EXCEPT ![k] = d], !.reads = s.reads \cup {k}]
    BY <1>7, <1>1 DEF do_read, SetReading, Servers
  <2> HIDE DEF t, d
  <2>3. t = Made(s, k, d, s.ready[k], s.reads \cup {k}, s.writes, s.users)
    BY <1>1, <2>1, ReadySame DEF Made, Servers
  <2>4. /\ Kept(s, t, k) /\ t \in Servers /\ t.conn[k] = d /\ t.ready[k] = s.ready[k]
        /\ t.reads = s.reads \cup {k} /\ t.writes = s.writes /\ t.users = s.users
    BY <1>1, <1>2, <2>3, MadeIs
  <2>5. FineAt(t, k)
    <3>1. OneAtATime("read", k \in t.reads, t.ready[k], t.conn[k].reading)
      BY <1>1, <1>2, <2>4 DEF FineAt, OneAtATime, ReadsFrom
    <3>2. OneAtATime("write", k \in t.writes, t.ready[k], t.conn[k].sending # <<>>)
      BY <1>1, <1>2, <2>4 DEF FineAt
    <3>3. OnlyLive(t.conn[k], k \in t.users \/ k \in t.reads, t.ready[k])
      BY <1>2, <2>0, <2>4 DEF OnlyLive
    <3>4. (k \in t.writes => t.conn[k].open) /\ (k \in t.users => ~t.conn[k].called)
      BY <1>1, <1>2, <2>4 DEF FineAt
    <3> QED BY <1>3, <2>4, <3>1, <3>2, <3>3, <3>4 DEF FineAt
  <2>6. ASSUME NEW x \in Conns PROVE Ordered(x, k, t, got[k], hung, h[x])
    <3>1. Ordered(x, k, s, got[k], hung, h[x]) /\ h[x] \in Seq(Units)
      BY SafeParts
    <3>2. Under(t, k) = Under(s, k)
      BY <1>2, <2>4 DEF Under
    <3> QED BY <1>2, <2>4, <3>1, <3>2, OrderedSame
  <2>7. AllSafe(t, h)
    <3>1. Safe(t, h, k)
      BY <2>0, <2>4, <2>5, <2>6 DEF Safe
    <3> QED BY <2>4, <3>1, KeptSafe
  <2> QED BY <1>2, <2>4, <2>7, KeptRest DEF SameFrame, AtHand, t
<1> QED BY <1>5, <1>6, <1>7

-----------------------------------------------------------------------------
(* How a connection is closed.                                              *)

\* They differ in what is known of the end of the connection.
Alike(c, d) ==
    /\ d \in Members /\ d.state = c.state /\ d.open = c.open /\ d.sending = c.sending /\ d.queue = c.queue
    /\ d.at = c.at /\ d.frame = c.frame /\ d.left = c.left /\ d.fragment = c.fragment
    /\ d.message = c.message /\ d.reading = c.reading

\* Such members can be set at any time, and k can be taken from users.
LEMMA AlikeSafe ==
    ASSUME NEW s, NEW h, AllSafe(s, h), NEW k \in Conns, s.conn[k].state = "live",
           NEW d, Alike(s.conn[k], d), NEW U \in SUBSET Conns, U \ {k} = s.users \ {k},
           k \in U => k \in s.users /\ ~d.called,
           NEW t, t = Made(s, k, d, s.ready[k], s.reads, s.writes, U)
    PROVE  /\ Onward(s, t, h, k) /\ t.conn[k] = d /\ t.users = U /\ t.conn[k].state = "live"
           /\ t.ready[k] = s.ready[k]
<1>1. /\ s \in Servers /\ s.ready[k] \in Seq(Events) /\ s.reads \in SUBSET Conns /\ s.writes \in SUBSET Conns
      /\ d \in Members
  BY SafeParts, PartsAre, Subsets DEF Alike
<1>2. /\ Kept(s, t, k) /\ t.conn[k] = d /\ t.ready[k] = s.ready[k]
      /\ t.reads = s.reads /\ t.writes = s.writes /\ t.users = U
  BY <1>1, MadeIs
<1>3. Quietly(s, t, k)
  BY <1>2 DEF Quietly, Alike
<1>4. AllSafe(t, h)
  BY <1>3, QuietSafe
<1>5. Onward(s, t, h, k)
  BY <1>2, <1>4, KeptRest DEF Onward, Aside, Alike
<1> QED BY <1>2, <1>5 DEF Alike

\* close_connection_ is set (websocket.h:258).
LEMMA Closing ==
    ASSUME NEW s, NEW h, AllSafe(s, h), NEW k \in Conns, s.conn[k].state = "live"
    PROVE  LET t == [s EXCEPT !.conn[k].closing = TRUE]
           IN  Onward(s, t, h, k) /\ t.conn[k].state = "live" /\ t.ready[k] = s.ready[k]
<1> DEFINE t == [s EXCEPT !.conn[k].closing = TRUE]
           d == [s.conn[k] EXCEPT !.closing = TRUE]
<1>1. s \in Servers /\ s.conn[k] \in Members /\ FineAt(s, k) /\ s.users \in SUBSET Conns
  BY SafeParts, PartsAre, Subsets
<1>2. Alike(s.conn[k], d) /\ d.called = s.conn[k].called
  BY <1>1 DEF Alike, Members
<1>3. t = [s EXCEPT !.conn = [s.conn EXCEPT ![k] = d]]
  BY <1>1 DEF Servers
<1> HIDE DEF t, d
<1>4. t = Made(s, k, d, s.ready[k], s.reads, s.writes, s.users)
  BY <1>1, <1>3, ReadySame DEF Made, Servers
<1>5. k \in s.users => ~d.called
  BY <1>1, <1>2 DEF FineAt
<1>6. Onward(s, t, h, k) /\ t.conn[k].state = "live" /\ t.ready[k] = s.ready[k]
  BY <1>1, <1>2, <1>4, <1>5, AlikeSafe
<1> QED BY <1>6 DEF t

\* A close frame is sent; when one has been received, this is the answer.
LEMMA CloseSafe ==
    ASSUME NEW s, NEW h, AllSafe(s, h), NEW k \in Conns, s.conn[k].state = "live"
    PROVE  Onward(s, close(s, k), h, k) /\ close(s, k).conn[k].state = "live"
<1> DEFINE answered == s.conn[k].recvClose /\ ~s.conn[k].called
           U == IF answered THEN s.users \ {k} ELSE s.users
           d == IF answered THEN [s.conn[k] EXCEPT !.called = TRUE, !.sentClose = TRUE]
                ELSE [s.conn[k] EXCEPT !.sentClose = TRUE]
           v == IF answered THEN OnClose([s EXCEPT !.conn[k].called = TRUE], k) ELSE s
           t == [v EXCEPT !.conn[k].sentClose = TRUE]
           item == Item("close", k, <<>>)
<1>1. s \in Servers /\ s.conn[k] \in Members /\ FineAt(s, k) /\ s.users \in SUBSET Conns
  BY SafeParts, PartsAre, Subsets
<1>2. Alike(s.conn[k], d) /\ (d.called => answered \/ s.conn[k].called)
  <2>1. CASE answered
    <3>1. d = [s.conn[k] EXCEPT !.called = TRUE, !.sentClose = TRUE]
      BY <2>1
    <3> QED BY <1>1, <2>1, <3>1 DEF Alike, Members
  <2>2. CASE ~answered
    <3>1. d = [s.conn[k] EXCEPT !.sentClose = TRUE]
      BY <2>2
    <3> QED BY <1>1, <3>1 DEF Alike, Members
  <2> QED BY <2>1, <2>2
<1>3. t = Made(s, k, d, s.ready[k], s.reads, s.writes, U)
  <2>1. CASE answered
    <3>1. U = s.users \ {k} /\ d = [s.conn[k] EXCEPT !.called = TRUE, !.sentClose = TRUE]
      BY <2>1
    <3>2. t = [s EXCEPT !.conn = [s.conn EXCEPT ![k] = d], !.users = U]
      BY <1>1, <2>1, <3>1 DEF OnClose, Servers
    <3> HIDE DEF t, d, U, v
    <3> QED BY <1>1, <3>2, ReadySame DEF Made, Servers
  <2>2. CASE ~answered
    <3>1. U = s.users /\ d = [s.conn[k] EXCEPT !.sentClose = TRUE]
      BY <2>2
    <3>2. t = [s EXCEPT !.conn = [s.conn EXCEPT ![k] = d]]
      BY <1>1, <2>2, <3>1 DEF Servers
    <3> HIDE DEF t, d, U, v
    <3> QED BY <1>1, <3>1, <3>2, ReadySame DEF Made, Servers
  <2> QED BY <2>1, <2>2
<1>4. U \in SUBSET Conns /\ U \ {k} = s.users \ {k}
  BY <1>1
<1>5. k \in U => k \in s.users /\ ~d.called
  <2>1. k \in s.users => ~s.conn[k].called
    BY <1>1 DEF FineAt
  <2> QED BY <1>2, <2>1
<1>6. close(s, k) = Sent(t, k, item)
  BY DEF close
<1>7. item \in WsItems /\ item.is # "message"
  BY EmptyUnits DEF Item, WsItems
<1> HIDE DEF t, d, U, v, answered, item
<1>8. Onward(s, t, h, k) /\ t.conn[k].state = "live"
  BY <1>2, <1>3, <1>4, <1>5, AlikeSafe
<1>9. Onward(t, Sent(t, k, item), h, k) /\ Sent(t, k, item).conn[k].state = "live"
  <2>1. AllSafe(t, h)
    BY <1>8 DEF Onward
  <2> QED BY <1>7, <1>8, <2>1, SentSafe
<1> QED BY <1>6, <1>8, <1>9, OnwardOn

\* An error of a read (websocket.h:257-264, 353-357): the connection is closed, or destroyed.
LEMMA ReadFailedSafe ==
    ASSUME NEW s, NEW h, AllSafe(s, h), NEW k \in Conns, s.conn[k].state = "live", ~s.conn[k].reading
    PROVE  Onward(s, ReadFailed(s, k), h, k)
<1> DEFINE u == [s EXCEPT !.conn[k].closing = TRUE]
           t == CloseAdaptor(u, k)
<1>1. Onward(s, u, h, k) /\ u.conn[k].state = "live"
  BY Closing
<1>2. ReadFailed(s, k) = IF s.conn[k].at \in {"header", "length"} THEN check_destroy(t, k) ELSE t
  BY DEF ReadFailed
<1> HIDE DEF u
<1>3. Onward(u, t, h, k) /\ t.conn[k].state = "live"
  <2>1. AllSafe(u, h) /\ ~u.conn[k].reading
    BY <1>1 DEF Onward, Aside
  <2> QED BY <1>1, <2>1, CloseAdaptorSafe
<1> HIDE DEF t
<1>4. Onward(s, t, h, k)
  BY <1>1, <1>3, OnwardOn
<1>5. Onward(t, check_destroy(t, k), h, k)
  BY <1>3, DestroySafe DEF Onward
<1>6. Onward(s, check_destroy(t, k), h, k)
  BY <1>4, <1>5, OnwardOn
<1> QED BY <1>2, <1>4, <1>6

\* What check_destroy leaves as it was.
LEMMA DestroyKeeps ==
    ASSUME NEW s \in Servers, NEW k \in Conns
    PROVE  /\ check_destroy(s, k).conn[k].sentClose = s.conn[k].sentClose
           /\ check_destroy(s, k).conn[k].recvClose = s.conn[k].recvClose
<1> DEFINE t == IF s.conn[k].called THEN s ELSE OnClose(s, k)
           c == [s.conn[k] EXCEPT !.state = "deleted", !.open = FALSE]
           u == [t EXCEPT !.conn[k].state = "deleted", !.conn[k].open = FALSE]
<1>1. t \in Servers /\ t.conn = s.conn /\ s.conn[k] \in Members
  BY DEF OnClose, Servers
<1>2. check_destroy(s, k) = IF s.conn[k].sending = <<>> /\ ~s.conn[k].reading THEN u ELSE t
  BY DEF check_destroy
<1>3. u.conn[k] = c
  <2> HIDE DEF t
  <2> QED BY <1>1 DEF Servers
<1>4. c.sentClose = s.conn[k].sentClose /\ c.recvClose = s.conn[k].recvClose
  BY <1>1 DEF Members
<1> HIDE DEF t, u, c
<1> QED BY <1>1, <1>2, <1>3, <1>4

\* A close frame (websocket.h:418-438).
LEMMA ClosedSafe ==
    ASSUME NEW s, NEW h, AllSafe(s, h), NEW k \in Conns, s.conn[k].state = "live", ~s.conn[k].reading
    PROVE  /\ Onward(s, Closed(s, k), h, k)
           /\ LET d == Closed(s, k).conn[k] IN d.state = "live" \/ (d.sentClose /\ d.recvClose)
<1> DEFINE t == [s EXCEPT !.conn[k].recvClose = TRUE]
           d == [s.conn[k] EXCEPT !.recvClose = TRUE]
           w == CloseAdaptor(t, k)
           u == [w EXCEPT !.conn[k].closing = TRUE, !.conn[k].called = TRUE]
           v == IF s.conn[k].called THEN u ELSE OnClose(u, k)
<1>0. Closed(s, k) = IF ~s.conn[k].sentClose THEN close(t, k) ELSE check_destroy(v, k)
  BY DEF Closed
<1>1. s \in Servers /\ s.conn[k] \in Members /\ FineAt(s, k) /\ s.users \in SUBSET Conns
  BY SafeParts, PartsAre, Subsets
<1>2. Alike(s.conn[k], d) /\ d.called = s.conn[k].called /\ d.recvClose /\ d.sentClose = s.conn[k].sentClose
  BY <1>1 DEF Alike, Members
<1>3. t = [s EXCEPT !.conn = [s.conn EXCEPT ![k] = d]]
  BY <1>1 DEF Servers
<1> HIDE DEF t, d
<1>4. t = Made(s, k, d, s.ready[k], s.reads, s.writes, s.users)
  BY <1>1, <1>3, ReadySame DEF Made, Servers
<1>5. k \in s.users => ~s.conn[k].called
  BY <1>1 DEF FineAt
<1>6. Onward(s, t, h, k) /\ t.conn[k].state = "live" /\ t.conn[k] = d /\ t.users = s.users
  BY <1>1, <1>2, <1>4, <1>5, AlikeSafe
<1>7. AllSafe(t, h) /\ ~t.conn[k].reading
  BY <1>6 DEF Onward, Aside
<1>8. Onward(s, close(t, k), h, k) /\ close(t, k).conn[k].state = "live"
  <2>1. Onward(t, close(t, k), h, k) /\ close(t, k).conn[k].state = "live"
    BY <1>6, <1>7, CloseSafe
  <2> QED BY <1>6, <2>1, OnwardOn
<1>9. /\ Onward(s, check_destroy(v, k), h, k)
      /\ s.conn[k].sentClose => check_destroy(v, k).conn[k].sentClose /\ check_destroy(v, k).conn[k].recvClose
  <2>1. Onward(t, w, h, k) /\ w.conn[k].state = "live"
    BY <1>6, <1>7, CloseAdaptorSafe
  <2>2. w.users = s.users
    <3>1. t \in Servers /\ FineAt(t, k)
      BY <1>7, SafeParts
    <3>2. k \notin t.reads
      BY <1>7, <3>1 DEF FineAt, OneAtATime
    <3> QED BY <1>6, <3>1, <3>2, CloseAdaptorIs
  <2>11. w.conn[k].sentClose = t.conn[k].sentClose /\ w.conn[k].recvClose = t.conn[k].recvClose
    <3>1. t \in Servers /\ t.conn[k] \in Members
      BY <1>7, SafeParts, PartsAre
    <3> QED BY <3>1 DEF CloseAdaptor, Servers, Members
  <2> HIDE DEF w
  <2>3. AllSafe(w, h) /\ w \in Servers /\ w.conn[k] \in Members
    BY <2>1, SafeParts, PartsAre DEF Onward
  <2> DEFINE c == [w.conn[k] EXCEPT !.closing = TRUE, !.called = TRUE]
             U == s.users \ {k}
  <2>4. Alike(w.conn[k], c)
    BY <2>3 DEF Alike, Members
  <2>5. v = [w EXCEPT !.conn = [w.conn EXCEPT ![k] = c], !.users = U]
    <3>1. CASE s.conn[k].called
      <4>1. U = w.users
        BY <1>5, <2>2, <3>1
      <4>2. v = [w EXCEPT !.conn = [w.conn EXCEPT ![k] = c]]
        BY <2>3, <3>1 DEF Servers
      <4> HIDE DEF v, c, U
      <4> QED BY <2>3, <4>1, <4>2 DEF Servers
    <3>2. CASE ~s.conn[k].called
      <4>1. v = OnClose(u, k)
        BY <3>2
      <4>2. v = [w EXCEPT !.conn = [w.conn EXCEPT ![k] = c], !.users = w.users \ {k}]
        BY <2>3, <4>1 DEF OnClose, Servers
      <4> HIDE DEF v, c
      <4> QED BY <2>2, <4>2
    <3> QED BY <3>1, <3>2
  <2> HIDE DEF v, u, c
  <2>6. v = Made(w, k, c, w.ready[k], w.reads, w.writes, U)
    BY <2>3, <2>5, ReadySame DEF Made, Servers
  <2>7. U \in SUBSET Conns /\ U \ {k} = w.users \ {k} /\ k \notin U
    BY <1>1, <2>2
  <2> HIDE DEF U
  <2>8. Onward(w, v, h, k) /\ v.conn[k].state = "live"
    BY <2>1, <2>3, <2>4, <2>6, <2>7, AlikeSafe
  <2>9. Onward(v, check_destroy(v, k), h, k)
    BY <2>8, DestroySafe DEF Onward
  <2>10. v \in Servers /\ v.conn[k].sentClose = s.conn[k].sentClose /\ v.conn[k].recvClose
    <3>1. v \in Servers
      BY <2>8, SafeParts DEF Onward
    <3>2. v.conn[k] = c
      BY <2>3, <2>5 DEF Servers
    <3>3. c.sentClose = w.conn[k].sentClose /\ c.recvClose = w.conn[k].recvClose
      BY <2>3 DEF c, Members
    <3> QED BY <1>2, <1>6, <2>11, <3>1, <3>2, <3>3
  <2>12. Onward(s, check_destroy(v, k), h, k)
    BY <1>6, <2>1, <2>8, <2>9, OnwardOn
  <2> QED BY <2>10, <2>12, DestroyKeeps
<1> QED BY <1>0, <1>8, <1>9

-----------------------------------------------------------------------------
(* A message is handed on.                                                  *)

\* It is posted to the other users.
Told(s, k, e) ==
    [s EXCEPT !.ready = [u \in Conns |-> IF u \in s.users \ {k} THEN Append(@[u], e) ELSE @[u]]]

\* What posting e to the others changes: their queues.
IsTold(v, s, k, e) ==
    /\ v \in Servers /\ v.conn = s.conn /\ v.reads = s.reads /\ v.writes = s.writes /\ v.users = s.users
    /\ v.ready[k] = s.ready[k]
    /\ \A r \in Conns \ {k} : v.ready[r] = (IF r \in s.users THEN Append(s.ready[r], e) ELSE s.ready[r])

\* The state after the loop over users has that shape (example_ws.cpp:28).
LEMMA ToldIs ==
    ASSUME NEW s \in Servers, NEW k \in Conns, NEW e \in Events
    PROVE  IsTold(Told(s, k, e), s, k, e)
<1> DEFINE Q == [u \in Conns |-> IF u \in s.users \ {k} THEN Append(s.ready[u], e) ELSE s.ready[u]]
<1>1. \A u \in Conns : s.ready[u] \in Seq(Events) /\ Append(s.ready[u], e) \in Seq(Events)
  BY DEF Servers
<1>2. Q \in [Conns -> Seq(Events)]
  BY <1>1
<1>3. Told(s, k, e) = [s EXCEPT !.ready = Q]
  BY DEF Told
<1>4. Q[k] = s.ready[k] /\ \A r \in Conns \ {k} : Q[r] = (IF r \in s.users THEN Append(s.ready[r], e) ELSE s.ready[r])
  OBVIOUS
<1> HIDE DEF Q
<1> DEFINE v == Told(s, k, e)
<1>5. v.ready = Q
  BY <1>3 DEF Servers
<1>6. /\ v \in Servers /\ v.conn = s.conn /\ v.reads = s.reads /\ v.writes = s.writes /\ v.users = s.users
  BY <1>2, <1>3 DEF Servers
<1> HIDE DEF v
<1>7. IsTold(v, s, k, e)
  BY <1>4, <1>5, <1>6 DEF IsTold
<1> QED BY <1>7 DEF v

\* One more message of k is handed on.
Grown(g, h, k, x) == g \in [Conns -> Seq(Units)] /\ g[k] = Append(h[k], x) /\ \A y \in Conns \ {k} : g[y] = h[y]

\* What is handed on, and to whom: the item that k has said, in the handler that is posted.
Handed(k, x, item, e) ==
    /\ item = Item("message", k, x) /\ item \in WsItems /\ e = Event("send", TRUE, 0, item) /\ e \in Events
    /\ Carried(e) = item /\ Mine(k, item) /\ item.load = x /\ (\A y : y # k => ~Mine(y, item))
    /\ e.what = "send"

\* There are such an item and such a handler.
LEMMA HandedIs ==
    ASSUME NEW k \in Conns, NEW x \in Units
    PROVE  \E item, e : Handed(k, x, item, e)
<1> DEFINE item == Item("message", k, x)
           e == Event("send", TRUE, 0, item)
<1>1. item \in WsItems /\ item.is = "message" /\ item.by = k /\ item.load = x
  BY DEF Item, WsItems
<1> HIDE DEF item
<1>2. e \in Events /\ e.what = "send" /\ e.item = item
  BY <1>1 DEF Event, Events
<1> HIDE DEF e
<1>3. Handed(k, x, item, e)
  BY <1>1, <1>2 DEF Handed, Mine, Carried, item, e
<1> QED BY <1>3

\* What a connection r sees of it.
ToldTo(s, t, r, e) ==
    /\ t.conn[r] = s.conn[r]
    /\ (r \in t.reads <=> r \in s.reads) /\ (r \in t.writes <=> r \in s.writes)
    /\ (r \in t.users <=> r \in s.users)
    /\ t.ready[r] = (IF r \in s.users THEN Append(s.ready[r], e) ELSE s.ready[r])

\* What the one who has said it sees of it.
SaidBy(s, t, k, item) ==
    /\ (k \in t.reads <=> k \in s.reads) /\ (k \in t.writes <=> k \in s.writes)
    /\ (k \in t.users <=> k \in s.users)
    /\ t.ready[k] = s.ready[k]
    /\ t.conn[k] = IF k \in s.users THEN Queued(s.conn[k], item) ELSE s.conn[k]

\* One who is told, or is no user.
LEMMA ToldSafe ==
    ASSUME NEW s, NEW t, NEW h, NEW h2, AllSafe(s, h), t \in Servers, NEW k \in Conns, NEW x \in Units,
           NEW item, NEW e, Handed(k, x, item, e),
           Grown(h2, h, k, x), NEW r \in Conns, r # k, ToldTo(s, t, r, e)
    PROVE  Safe(t, h2, r) /\ (HasFrame(t.ready[r]) <=> HasFrame(s.ready[r]))
<1>0. /\ h2[k] = Append(h[k], x) /\ (\A y \in Conns \ {k} : h2[y] = h[y])
      /\ t.conn[r] = s.conn[r]
      /\ (r \in t.reads <=> r \in s.reads) /\ (r \in t.writes <=> r \in s.writes)
      /\ (r \in t.users <=> r \in s.users)
      /\ t.ready[r] = (IF r \in s.users THEN Append(s.ready[r], e) ELSE s.ready[r])
  BY DEF Grown, ToldTo
<1>1. /\ s \in Servers /\ FineAt(s, r) /\ s.conn[r] \in Members /\ s.ready[r] \in Seq(Events)
      /\ h[k] \in Seq(Units)
  <2>1. s \in Servers /\ FineAt(s, r) /\ h[k] \in Seq(Units)
    BY SafeParts
  <2> QED BY <1>0, <2>1, PartsAre
<1>2. /\ \A y \in Conns : Ordered(y, r, s, got[r], hung, h[y]) /\ h[y] \in Seq(Units)
      /\ (s.conn[r].state = "free" => got[r] = <<>>)
  BY SafeParts
<1>3. Under(t, r) = Under(s, r)
  BY <1>0 DEF Under
<1>4. CASE r \in s.users
  <2>1. t.ready[r] = Append(s.ready[r], e) /\ e \in Events /\ e.what = "send"
    BY <1>0, <1>4 DEF Handed
  <2>2. s.conn[r].state = "live" /\ ~s.conn[r].called /\ FromTheBeginning(s.conn[r], s.ready[r])
        /\ (r \in s.writes => s.conn[r].open)
    BY <1>0, <1>1, <1>4 DEF FineAt, OnlyLive
  <2>3. PostedTo(s, t, r, e)
    BY <1>0, <1>1, <2>1, <2>2 DEF PostedTo
  <2>4. FineAt(t, r)
    BY <1>0, <1>1, <2>3, FinePosted
  <2>5. Ordered(k, r, t, got[r], hung, h2[k])
    BY <1>0, <1>1, <1>2, <1>3, <1>4, <2>1, OrderedPosted DEF Handed
  <2>6. ASSUME NEW y \in Conns, y # k PROVE Ordered(y, r, t, got[r], hung, h2[y])
    <3>1. ~Mine(y, Carried(e)) /\ SameButReady(s, t, r)
      BY <1>0, <1>3, <2>6 DEF Handed, SameButReady
    <3> QED BY <1>0, <1>1, <1>2, <2>1, <2>6, <3>1, OrderedPost
  <2>7. HasFrame(t.ready[r]) <=> HasFrame(s.ready[r])
    BY <1>0, <1>1, <2>1, HasFramePost
  <2> QED BY <1>0, <1>2, <2>4, <2>5, <2>6, <2>7 DEF Safe
<1>5. CASE r \notin s.users
  <2>1. SameAt(s, t, r)
    BY <1>0, <1>5 DEF SameAt
  <2>2. FineAt(t, r)
    BY <1>0, <1>1, <2>1, FineSame
  <2>5. Ordered(k, r, t, got[r], hung, h2[k])
    BY <1>0, <1>1, <1>2, <1>3, <1>5, OrderedLonger
  <2>6. ASSUME NEW y \in Conns, y # k PROVE Ordered(y, r, t, got[r], hung, h2[y])
    BY <1>0, <1>2, <1>3, <1>5, <2>6, OrderedSame
  <2> QED BY <1>0, <1>2, <1>5, <2>2, <2>5, <2>6 DEF Safe
<1> QED BY <1>0, <1>4, <1>5

\* The one who has said it.
LEMMA SayerSafe ==
    ASSUME NEW s, NEW t, NEW h, NEW h2, AllSafe(s, h), t \in Servers, NEW k \in Conns, NEW x \in Units,
           s.conn[k].state = "live", NEW item, NEW e, Handed(k, x, item, e),
           Grown(h2, h, k, x), SaidBy(s, t, k, item)
    PROVE  Safe(t, h2, k) /\ Aside(s, t, k) /\ t.conn[k].state = "live"
<1>0. /\ h2[k] = Append(h[k], x) /\ (\A y \in Conns \ {k} : h2[y] = h[y])
      /\ (k \in t.reads <=> k \in s.reads) /\ (k \in t.writes <=> k \in s.writes)
      /\ (k \in t.users <=> k \in s.users)
      /\ t.ready[k] = s.ready[k]
      /\ t.conn[k] = IF k \in s.users THEN Queued(s.conn[k], item) ELSE s.conn[k]
  BY DEF Grown, SaidBy
<1>1. /\ s \in Servers /\ FineAt(s, k) /\ s.conn[k] \in Members /\ s.ready[k] \in Seq(Events)
      /\ h[k] \in Seq(Units)
  <2>1. s \in Servers /\ FineAt(s, k) /\ h[k] \in Seq(Units)
    BY SafeParts
  <2> QED BY <1>0, <2>1, PartsAre
<1>2. \A y \in Conns : Ordered(y, k, s, got[k], hung, h[y]) /\ h[y] \in Seq(Units)
  BY SafeParts
<1> DEFINE c == s.conn[k]
           d == t.conn[k]
<1>3. /\ d.sending = c.sending /\ d.open = c.open /\ d.state = "live" /\ d.at = c.at
      /\ d.left = c.left /\ d.frame = c.frame /\ d.fragment = c.fragment
      /\ d.reading = c.reading /\ d.called = c.called /\ d.message = c.message
      /\ d.queue = IF k \in s.users THEN Append(c.queue, item) ELSE c.queue
  <2>1. c \in Members /\ item \in WsItems /\ c.state = "live"
    BY <1>0, <1>1 DEF Handed
  <2>2. d = IF k \in s.users THEN Queued(c, item) ELSE c
    BY <1>0
  <2> HIDE DEF c, d
  <2>3. CASE k \in s.users
    <3>1. d = Queued(c, item)
      BY <1>0, <2>2, <2>3
    <3> QED BY <1>0, <2>1, <2>3, <3>1, QueuedIs
  <2>4. CASE k \notin s.users
    BY <1>0, <2>1, <2>2, <2>4
  <2> QED BY <1>0, <2>3, <2>4
<1> HIDE DEF c, d
<1>4. FineAt(t, k)
  <2>1. /\ OneAtATime("read", k \in t.reads, t.ready[k], d.reading)
        /\ OneAtATime("write", k \in t.writes, t.ready[k], d.sending # <<>>)
    <3>1. (k \in t.reads) = (k \in s.reads) /\ (k \in t.writes) = (k \in s.writes)
      BY <1>0
    <3> QED BY <1>0, <1>1, <1>3, <3>1 DEF FineAt, c
  <2>2. FromTheBeginning(d, t.ready[k])
    BY <1>0, <1>1, <1>3 DEF FineAt, FromTheBeginning, c
  <2>3. OnlyLive(d, k \in t.users \/ k \in t.reads, t.ready[k]) /\ (k \in t.users => ~d.called) /\ (k \in t.writes => d.open)
    BY <1>0, <1>1, <1>3 DEF FineAt, OnlyLive, c
  <2> QED BY <1>0, <2>1, <2>2, <2>3 DEF FineAt, d
<1>5. Under(t, k) = Under(s, k)
  BY <1>0, <1>3 DEF Under, c, d
<1>6. ASSUME NEW y \in Conns PROVE Ordered(y, k, t, got[k], hung, h2[y])
  <2>1. CASE y = k
    <3>1. CASE k \in s.users
      <4>1. t.conn[k].queue = Append(s.conn[k].queue, item) /\ t.conn[k].open = s.conn[k].open
        BY <1>0, <1>3, <3>1 DEF c, d
      <4>2. Ordered(k, k, s, got[k], hung, h[k])
        BY <1>0, <1>2
      <4>3. item \in WsItems /\ Mine(k, item) /\ item.load = x
        BY <1>0 DEF Handed
      <4>4. Ordered(k, k, t, got[k], hung, Append(h[k], x))
        BY <1>0, <1>1, <1>5, <3>1, <4>1, <4>2, <4>3, OrderedGive
      <4> QED BY <1>0, <2>1, <4>4
    <3>2. CASE k \notin s.users
      <4>1. t.conn[k].queue = s.conn[k].queue /\ t.conn[k].open = s.conn[k].open
        BY <1>0, <1>3, <3>2 DEF c, d
      <4>2. Ordered(k, k, s, got[k], hung, h[k])
        BY <1>0, <1>2
      <4>4. Ordered(k, k, t, got[k], hung, Append(h[k], x))
        BY <1>0, <1>1, <1>5, <3>2, <4>1, <4>2, OrderedLonger
      <4> QED BY <1>0, <2>1, <4>4
    <3> QED BY <1>0, <3>1, <3>2
  <2>2. CASE y # k
    <3>0. h2[y] = h[y] /\ Ordered(y, k, s, got[k], hung, h[y]) /\ h[y] \in Seq(Units)
      BY <1>0, <1>2, <2>2
    <3>1. CASE k \in s.users
      <4>1. t.conn[k].queue = Append(s.conn[k].queue, item) /\ t.conn[k].open = s.conn[k].open
        BY <1>0, <1>3, <3>1 DEF c, d
      <4>3. item \in WsItems /\ ~Mine(y, item)
        BY <1>0, <2>2 DEF Handed
      <4>4. Ordered(y, k, t, got[k], hung, h[y])
        BY <1>0, <1>1, <1>5, <3>0, <4>1, <4>3, OrderedQueue
      <4> QED BY <1>0, <3>0, <4>4
    <3>2. CASE k \notin s.users
      <4>1. t.conn[k].queue = s.conn[k].queue /\ t.conn[k].open = s.conn[k].open
        BY <1>0, <1>3, <3>2 DEF c, d
      <4> QED BY <1>0, <1>1, <1>5, <3>0, <3>2, <4>1, OrderedSame
    <3> QED BY <1>0, <3>1, <3>2
  <2> QED BY <1>0, <2>1, <2>2
<1> QED BY <1>0, <1>3, <1>4, <1>6 DEF Safe, Aside, c, d

\* message_handler_ is called with x.
HandsOn(h, k, x) == [h EXCEPT ![k] = Append(@, x)]

\* What was handed on before stays.
LEMMA HandsOnIs ==
    ASSUME NEW h \in [Conns -> Seq(Units)], NEW k \in Conns, NEW x \in Units
    PROVE  Grown(HandsOn(h, k, x), h, k, x)
BY DEF HandsOn, Grown

\* message_handler_ is called: what was said is on its way to all the users.
LEMMA DeliverSafe ==
    ASSUME NEW s, NEW h, AllSafe(s, h), NEW k \in Conns, s.conn[k].state = "live", NEW x \in Units
    PROVE  /\ Onward(s, Deliver(s, k, Item("message", k, x)), HandsOn(h, k, x), k)
           /\ Deliver(s, k, Item("message", k, x)).conn[k].state = "live"
<1>1. PICK item, e : Handed(k, x, item, e)
  BY HandedIs
<1>2. item = Item("message", k, x) /\ e = Event("send", TRUE, 0, item) /\ item \in WsItems /\ e \in Events
  BY <1>1 DEF Handed
<1> DEFINE v == Told(s, k, e)
           t == Enqueued(v, k, item)
           g == HandsOn(h, k, x)
<1>3. s \in Servers /\ h \in [Conns -> Seq(Units)]
  BY SafeParts
<1>4. Grown(g, h, k, x)
  BY <1>3, HandsOnIs
<1>5. /\ v \in Servers /\ v.conn = s.conn /\ v.reads = s.reads /\ v.writes = s.writes /\ v.users = s.users
      /\ v.ready[k] = s.ready[k]
      /\ \A r \in Conns \ {k} : v.ready[r] = (IF r \in s.users THEN Append(s.ready[r], e) ELSE s.ready[r])
  <2>1. IsTold(v, s, k, e)
    BY <1>2, <1>3, ToldIs
  <2> HIDE DEF v
  <2> QED BY <2>1 DEF IsTold
<1>6. Deliver(s, k, item) = IF k \in s.users THEN do_write(t, k) ELSE v
  BY <1>2 DEF Deliver, Told, Sent, Enqueued
<1> HIDE DEF v, g
<1>7. /\ Kept(v, t, k) /\ t \in Servers /\ t.conn[k] = Queued(s.conn[k], item) /\ t.ready[k] = s.ready[k]
      /\ t.reads = s.reads /\ t.writes = s.writes /\ t.users = s.users
  BY <1>2, <1>5, EnqueuedIs
<1> HIDE DEF t
<1>8. CASE k \in s.users
  <2>1. Safe(t, g, k) /\ Aside(s, t, k) /\ t.conn[k].state = "live"
    <3>1. SaidBy(s, t, k, item)
      BY <1>7, <1>8 DEF SaidBy
    <3> QED BY <1>1, <1>4, <1>7, <3>1, SayerSafe
  <2>2. ASSUME NEW r \in Conns, r # k
        PROVE  t.conn[r] = s.conn[r] /\ Safe(t, g, r) /\ (HasFrame(t.ready[r]) <=> HasFrame(s.ready[r]))
    <3>1. /\ t.conn[r] = s.conn[r]
          /\ t.ready[r] = (IF r \in s.users THEN Append(s.ready[r], e) ELSE s.ready[r])
      BY <1>5, <1>7, <2>2 DEF Kept
    <3>2. ToldTo(s, t, r, e)
      BY <1>7, <3>1 DEF ToldTo
    <3> QED BY <1>1, <1>4, <1>7, <2>2, <3>1, <3>2, ToldSafe
  <2>3. AllSafe(t, g) /\ Rest(s, t, k)
    BY <1>4, <1>7, <2>1, <2>2 DEF AllSafe, Rest, Grown
  <2>4. t.conn[k].queue # <<>>
    <3>1. s.conn[k] \in Members
      BY <1>3, PartsAre
    <3> QED BY <1>2, <1>7, <3>1, QueuedIs
  <2>5. Onward(t, do_write(t, k), g, k) /\ do_write(t, k).conn[k].state = "live"
    BY <2>1, <2>3, <2>4, WriteSafe
  <2>6. Onward(s, t, g, k)
    BY <2>1, <2>3 DEF Onward
  <2> QED BY <1>2, <1>6, <1>8, <2>5, <2>6, OnwardOn DEF g
<1>9. CASE k \notin s.users
  <2>1. Safe(v, g, k) /\ Aside(s, v, k) /\ v.conn[k].state = "live"
    <3>1. SaidBy(s, v, k, item)
      BY <1>5, <1>9 DEF SaidBy
    <3> QED BY <1>1, <1>4, <1>5, <3>1, SayerSafe
  <2>2. ASSUME NEW r \in Conns, r # k
        PROVE  v.conn[r] = s.conn[r] /\ Safe(v, g, r) /\ (HasFrame(v.ready[r]) <=> HasFrame(s.ready[r]))
    <3>1. /\ v.conn[r] = s.conn[r]
          /\ v.ready[r] = (IF r \in s.users THEN Append(s.ready[r], e) ELSE s.ready[r])
      BY <1>5, <2>2
    <3>2. ToldTo(s, v, r, e)
      BY <1>5, <3>1 DEF ToldTo
    <3> QED BY <1>1, <1>4, <1>5, <2>2, <3>1, <3>2, ToldSafe
  <2>3. AllSafe(v, g) /\ Rest(s, v, k)
    BY <1>4, <1>5, <2>1, <2>2 DEF AllSafe, Rest, Grown
  <2> QED BY <1>2, <1>6, <1>9, <2>1, <2>3 DEF Onward, g
<1> QED BY <1>8, <1>9

-----------------------------------------------------------------------------
(* What a frame does.                                                       *)

\* They differ in what has been read.
Similar(c, d) ==
    /\ d \in Members /\ d.state = c.state /\ d.open = c.open /\ d.sending = c.sending /\ d.queue = c.queue
    /\ d.reading = c.reading /\ d.frame = c.frame /\ d.called = c.called

\* Only the members of k are changed, to d.
IsSetTo(s, t, k, d) == t = [s EXCEPT !.conn = [s.conn EXCEPT ![k] = d]]

\* What has been read can change while nothing is being read.
LEMMA SimilarSafe ==
    ASSUME NEW s, NEW h, AllSafe(s, h), NEW k \in Conns, s.conn[k].state # "free", ~s.conn[k].reading,
           NEW d, Similar(s.conn[k], d),
           NEW t, IsSetTo(s, t, k, d)
    PROVE  /\ AllSafe(t, h) /\ Rest(s, t, k) /\ t.conn[k] = d /\ t.ready[k] = s.ready[k]
<1>1. /\ s \in Servers /\ s.ready[k] \in Seq(Events) /\ s.reads \in SUBSET Conns /\ s.writes \in SUBSET Conns
      /\ s.users \in SUBSET Conns /\ d \in Members
  BY SafeParts, PartsAre, Subsets DEF Similar
<1>2. t = Made(s, k, d, s.ready[k], s.reads, s.writes, s.users)
  BY <1>1, ReadySame DEF Made, Servers, IsSetTo
<1>3. /\ Kept(s, t, k) /\ t.conn[k] = d /\ t.ready[k] = s.ready[k]
      /\ t.reads = s.reads /\ t.writes = s.writes /\ t.users = s.users
  BY <1>1, <1>2, MadeIs
<1>4. k \in s.users => ~s.conn[k].called
  BY SafeParts DEF FineAt
<1>5. Quietly(s, t, k)
  BY <1>3, <1>4 DEF Quietly, Similar
<1>6. AllSafe(t, h)
  BY <1>5, QuietSafe
<1> QED BY <1>3, <1>6, KeptRest

\* Nothing is changed of what is being read, but for the parts of a message.
Beside(s, t, k) ==
    LET c == s.conn[k]
        d == t.conn[k]
    IN  /\ d.at = c.at /\ d.frame = c.frame /\ d.left = c.left /\ d.fragment = c.fragment
        /\ d.reading = c.reading
        /\ (HasFrame(t.ready[k]) <=> HasFrame(s.ready[k]))

\* message_ and the fragment are units; joined, one that is empty adds nothing.
LEMMA JoinedIs ==
    ASSUME NEW s \in Servers, NEW k \in Conns
    PROVE  /\ Joined(s, k) \in Units /\ s.conn[k].fragment \in Units
           /\ s.conn[k].message = <<>> => Joined(s, k) = s.conn[k].fragment
<1>1. s.conn[k].message \in Units /\ s.conn[k].fragment \in Units
  BY PartsAre
<1>2. s.conn[k].message \o s.conn[k].fragment \in Units
  BY <1>1 DEF Units
<1>3. <<>> \o s.conn[k].fragment = s.conn[k].fragment
  BY <1>1 DEF Units
<1> QED BY <1>1, <1>2, <1>3 DEF Joined

\* message_ is set.
MessageIs(s, k, m) == [s EXCEPT !.conn[k].message = m]

\* message_ can be set while nothing is being read.
LEMMA MessageIsSafe ==
    ASSUME NEW s, NEW h, AllSafe(s, h), NEW k \in Conns, s.conn[k].state = "live", ~s.conn[k].reading,
           NEW m \in Units
    PROVE  LET t == MessageIs(s, k, m)
           IN  /\ AllSafe(t, h) /\ Rest(s, t, k) /\ Beside(s, t, k) /\ t.conn[k].message = m
               /\ t.conn[k].state = "live"
<1> DEFINE t == MessageIs(s, k, m)
           d == [s.conn[k] EXCEPT !.message = m]
<1>1. s \in Servers /\ s.conn[k] \in Members
  BY SafeParts, PartsAre
<1>2. Similar(s.conn[k], d) /\ d.message = m /\ d.at = s.conn[k].at /\ d.left = s.conn[k].left /\ d.fragment = s.conn[k].fragment
  BY <1>1 DEF Similar, Members
<1>3. IsSetTo(s, t, k, d)
  BY <1>1 DEF MessageIs, Servers, IsSetTo
<1> HIDE DEF t, d
<1>4. AllSafe(t, h) /\ Rest(s, t, k) /\ t.conn[k] = d /\ t.ready[k] = s.ready[k]
  BY <1>2, <1>3, SimilarSafe
<1>5. Beside(s, t, k) /\ t.conn[k].message = m /\ t.conn[k].state = "live"
  BY <1>2, <1>4 DEF Beside, Similar
<1> QED BY <1>4, <1>5 DEF t

\* After one more part.
AfterPart(s, t, g, k, m) ==
    /\ AllSafe(t, g) /\ Rest(s, t, k) /\ Beside(s, t, k) /\ t.conn[k].message = m
    /\ t.conn[k].state = "live"

\* What is kept of the others is kept by one step after the other.
LEMMA RestOn == ASSUME NEW s, NEW t, NEW u, NEW k, Rest(s, t, k), Rest(t, u, k) PROVE Rest(s, u, k)
BY DEF Rest

\* One part of a message (websocket.h:394-405): with FIN it is handed on, and message_ cleared.
LEMMA ExtendedSafe ==
    ASSUME NEW s, NEW h, AllSafe(s, h), NEW k \in Conns, s.conn[k].state = "live", ~s.conn[k].reading
    PROVE  /\ s.conn[k].frame.fin => AfterPart(s, Extended(s, k), HandsOn(h, k, Joined(s, k)), k, <<>>)
           /\ ~s.conn[k].frame.fin => AfterPart(s, Extended(s, k), h, k, Joined(s, k))
<1>1. s \in Servers /\ Joined(s, k) \in Units /\ <<>> \in Units
  BY SafeParts, JoinedIs, EmptyUnits
<1>2. ASSUME s.conn[k].frame.fin
      PROVE  AfterPart(s, Extended(s, k), HandsOn(h, k, Joined(s, k)), k, <<>>)
  <2> DEFINE t == MessageIs(s, k, <<>>)
             x == Joined(s, k)
             u == Deliver(t, k, Item("message", k, x))
  <2>1. Extended(s, k) = u
    BY <1>2 DEF Extended, MessageIs
  <2>2. /\ AllSafe(t, h) /\ Rest(s, t, k) /\ Beside(s, t, k) /\ t.conn[k].message = <<>>
        /\ t.conn[k].state = "live"
    BY <1>1, MessageIsSafe
  <2>3. x \in Units
    BY <1>1
  <2> HIDE DEF t, x
  <2>4. Onward(t, u, HandsOn(h, k, x), k) /\ u.conn[k].state = "live"
    BY <2>2, <2>3, DeliverSafe
  <2> HIDE DEF u
  <2>5. AfterPart(s, u, HandsOn(h, k, x), k, <<>>)
    BY <2>2, <2>4, RestOn DEF AfterPart, Onward, Beside, Aside
  <2> QED BY <2>1, <2>5 DEF x
<1>3. ASSUME ~s.conn[k].frame.fin
      PROVE  AfterPart(s, Extended(s, k), h, k, Joined(s, k))
  <2>1. Extended(s, k) = MessageIs(s, k, Joined(s, k))
    BY <1>3 DEF Extended, MessageIs
  <2> QED BY <1>1, <2>1, MessageIsSafe DEF AfterPart
<1> QED BY <1>2, <1>3

\* What is handed on of a frame that is a part of a message.
Calling(g, h, k, calls) == g = [h EXCEPT ![k] = @ \o calls]

\* A frame of a message (websocket.h:382-417), a continuation twice.
LEMMA MessageSafe ==
    ASSUME NEW s, NEW h, AllSafe(s, h), NEW k \in Conns, s.conn[k].state = "live", ~s.conn[k].reading,
           s.conn[k].frame.op \in {"text", "binary", "continuation"}
    PROVE  \E g, m : /\ Calling(g, h, k, Calls(s.conn[k])) /\ AfterPart(s, Message(s, k), g, k, m)
                     /\ s.conn[k].frame.fin => m = <<>>
<1> DEFINE c == s.conn[k]
           x == Joined(s, k)
<1>1. s \in Servers /\ h \in [Conns -> Seq(Units)] /\ h[k] \in Seq(Units)
  BY SafeParts
<1>2. x \in Units /\ c.fragment \in Units /\ <<>> \in Units
  BY <1>1, JoinedIs, EmptyUnits
<1>3. x = c.message \o c.fragment
  BY DEF Joined
<1>4. /\ HandsOn(h, k, x) = [h EXCEPT ![k] = @ \o <<x>>]
      /\ [h EXCEPT ![k] = @ \o <<>>] = h
      /\ HandsOn(HandsOn(h, k, x), k, c.fragment) = [h EXCEPT ![k] = @ \o <<x, c.fragment>>]
  <2> HIDE DEF x, c
  <2>1. /\ h[k] \o <<x>> = Append(h[k], x) /\ h[k] \o <<>> = h[k]
        /\ h[k] \o <<x, c.fragment>> = Append(Append(h[k], x), c.fragment)
    BY <1>1, <1>2
  <2>2. [h EXCEPT ![k] = h[k]] = h
    BY <1>1
  <2> QED BY <1>1, <2>1, <2>2 DEF HandsOn
<1>5. ASSUME c.frame.op # "continuation"
      PROVE  \E g, m : /\ Calling(g, h, k, Calls(c)) /\ AfterPart(s, Message(s, k), g, k, m)
                       /\ c.frame.fin => m = <<>>
  <2>1. Message(s, k) = Extended(s, k)
    BY <1>5 DEF Message
  <2>2. CASE c.frame.fin
    <3>1. Calls(c) = <<x>>
      BY <1>3, <1>5, <2>2 DEF Calls
    <3>2. Calling(HandsOn(h, k, x), h, k, Calls(c))
      BY <1>4, <3>1 DEF Calling
    <3>3. AfterPart(s, Message(s, k), HandsOn(h, k, x), k, <<>>)
      BY <2>1, <2>2, ExtendedSafe
    <3> QED BY <3>2, <3>3
  <2>3. CASE ~c.frame.fin
    <3>1. Calls(c) = <<>>
      BY <2>3 DEF Calls
    <3>2. Calling(h, h, k, Calls(c))
      BY <1>4, <3>1 DEF Calling
    <3>3. AfterPart(s, Message(s, k), h, k, x)
      BY <2>1, <2>3, ExtendedSafe
    <3> QED BY <2>3, <3>2, <3>3
  <2> QED BY <2>2, <2>3
<1>6. ASSUME c.frame.op = "continuation"
      PROVE  \E g, m : /\ Calling(g, h, k, Calls(c)) /\ AfterPart(s, Message(s, k), g, k, m)
                       /\ c.frame.fin => m = <<>>
  <2> DEFINE t == Extended(s, k)
             u == Extended(t, k)
  <2>1. Message(s, k) = u
    BY <1>6 DEF Message
  <2> HIDE DEF t, u
  <2>2. CASE c.frame.fin
    <3>1. AfterPart(s, t, HandsOn(h, k, x), k, <<>>)
      BY <2>2, ExtendedSafe DEF t
    <3>2. /\ AllSafe(t, HandsOn(h, k, x)) /\ t.conn[k].message = <<>> /\ t.conn[k].state = "live"
          /\ Rest(s, t, k) /\ Beside(s, t, k) /\ ~t.conn[k].reading /\ t.conn[k].frame.fin
          /\ t.conn[k].fragment = c.fragment
      BY <2>2, <3>1 DEF AfterPart, Beside
    <3>3. Joined(t, k) = c.fragment
      <4>1. t \in Servers
        BY <3>2, SafeParts
      <4> QED BY <3>2, <4>1, JoinedIs
    <3> DEFINE g == HandsOn(HandsOn(h, k, x), k, c.fragment)
    <3>4. AfterPart(t, u, g, k, <<>>)
      BY <3>2, <3>3, ExtendedSafe DEF u
    <3>5. Calls(c) = <<x, c.fragment>>
      BY <1>3, <1>6, <2>2 DEF Calls
    <3>6. Calling(g, h, k, Calls(c))
      BY <1>4, <3>5 DEF Calling
    <3> HIDE DEF g
    <3>7. AfterPart(s, u, g, k, <<>>)
      BY <3>2, <3>4, RestOn DEF AfterPart, Beside
    <3> QED BY <2>1, <3>6, <3>7
  <2>3. CASE ~c.frame.fin
    <3>1. AfterPart(s, t, h, k, x)
      BY <2>3, ExtendedSafe DEF t
    <3>2. /\ AllSafe(t, h) /\ t.conn[k].state = "live"
          /\ Rest(s, t, k) /\ Beside(s, t, k) /\ ~t.conn[k].reading /\ ~t.conn[k].frame.fin
      BY <2>3, <3>1 DEF AfterPart, Beside
    <3>4. AfterPart(t, u, h, k, Joined(t, k))
      BY <3>2, ExtendedSafe DEF u
    <3>5. Calls(c) = <<>>
      BY <2>3 DEF Calls
    <3>6. Calling(h, h, k, Calls(c))
      BY <1>4, <3>5 DEF Calling
    <3>7. AfterPart(s, u, h, k, Joined(t, k))
      BY <3>2, <3>4, RestOn DEF AfterPart, Beside
    <3> QED BY <2>1, <2>3, <3>6, <3>7
  <2> QED BY <2>2, <2>3
<1> QED BY <1>5, <1>6

\* Nothing is handed on.
LEMMA CallingNone ==
    ASSUME NEW h \in [Conns -> Seq(Units)], NEW k \in Conns
    PROVE  Calling(h, h, k, <<>>)
<1>1. h[k] \o <<>> = h[k]
  OBVIOUS
<1>2. [h EXCEPT ![k] = h[k]] = h
  OBVIOUS
<1> QED BY <1>1, <1>2 DEF Calling

\* The frames that are parts of a message.
Parts == {"text", "binary", "continuation"}

\* After a frame.
Handled(s, t, g, k) ==
    LET c == s.conn[k]
        d == t.conn[k]
    IN  /\ AllSafe(t, g) /\ Rest(s, t, k)
        /\ d.at = c.at /\ d.frame = c.frame /\ d.left = c.left /\ ~d.reading /\ d.fragment = <<>>
        /\ (HasFrame(t.ready[k]) <=> HasFrame(s.ready[k]))
        /\ d.state # "free" /\ (d.state = "live" \/ (d.sentClose /\ d.recvClose))
        /\ c.frame.op \in Parts /\ c.frame.fin => d.message = <<>>
        /\ c.frame.op \notin Parts => d.message = c.message

\* A pong and the answer to the upgrade are no messages.
LEMMA ItemIs ==
    ASSUME NEW s \in Servers, NEW k \in Conns
    PROVE  /\ Item("pong", k, s.conn[k].fragment) \in WsItems /\ Item("pong", k, s.conn[k].fragment).is # "message"
           /\ Item("hello", k, <<>>) \in WsItems /\ Item("hello", k, <<>>).is # "message"
<1>1. s.conn[k].fragment \in Units /\ <<>> \in Units
  BY PartsAre, EmptyUnits
<1> QED BY <1>1 DEF Item, WsItems

\* fragment_ is cleared.
FragmentCleared(s, k) == [s EXCEPT !.conn[k].fragment = <<>>]

\* fragment_ can be cleared (websocket.h:451) while nothing is being read.
LEMMA ClearedSafe ==
    ASSUME NEW s, NEW h, AllSafe(s, h), NEW k \in Conns, s.conn[k].state # "free", ~s.conn[k].reading
    PROVE  LET t == FragmentCleared(s, k)
           IN  /\ AllSafe(t, h) /\ Rest(s, t, k) /\ t.ready[k] = s.ready[k]
               /\ t.conn[k].sentClose = s.conn[k].sentClose /\ t.conn[k].recvClose = s.conn[k].recvClose
               /\ t.conn[k].fragment = <<>> /\ t.conn[k].state = s.conn[k].state
               /\ t.conn[k].at = s.conn[k].at /\ t.conn[k].frame = s.conn[k].frame
               /\ t.conn[k].left = s.conn[k].left /\ ~t.conn[k].reading
               /\ t.conn[k].message = s.conn[k].message
<1> DEFINE t == FragmentCleared(s, k)
           d == [s.conn[k] EXCEPT !.fragment = <<>>]
<1>1. s \in Servers /\ s.conn[k] \in Members /\ <<>> \in Units
  BY SafeParts, PartsAre, EmptyUnits
<1>2. /\ Similar(s.conn[k], d) /\ d.message = s.conn[k].message /\ d.at = s.conn[k].at
      /\ d.left = s.conn[k].left /\ d.fragment = <<>>
      /\ d.sentClose = s.conn[k].sentClose /\ d.recvClose = s.conn[k].recvClose
  BY <1>1 DEF Similar, Members
<1>3. IsSetTo(s, t, k, d)
  BY <1>1 DEF FragmentCleared, Servers, IsSetTo
<1> HIDE DEF t, d
<1>4. AllSafe(t, h) /\ Rest(s, t, k) /\ t.conn[k] = d /\ t.ready[k] = s.ready[k]
  BY <1>2, <1>3, SimilarSafe
<1> QED BY <1>2, <1>4 DEF Similar, t

\* handle_fragment (websocket.h:376-452).
LEMMA HandleSafe ==
    ASSUME NEW s, NEW h, AllSafe(s, h), NEW k \in Conns, s.conn[k].state = "live", ~s.conn[k].reading
    PROVE  \E g : Calling(g, h, k, Calls(s.conn[k])) /\ Handled(s, handle_fragment(s, k), g, k)
<1> DEFINE c == s.conn[k]
           op == c.frame.op
           t == CASE op \in Parts -> Message(s, k)
                  [] op = "close" -> Closed(s, k)
                  [] op = "ping" -> Sent(s, k, Item("pong", k, c.fragment))
                  [] op = "pong" -> s
           u == FragmentCleared(t, k)
<1>0. s \in Servers /\ h \in [Conns -> Seq(Units)] /\ c \in Members /\ op \in Ops
  <2>1. s \in Servers /\ h \in [Conns -> Seq(Units)]
    BY SafeParts
  <2>2. c \in Members /\ c.frame \in Frame
    BY <2>1, PartsAre
  <2> QED BY <2>1, <2>2 DEF Frame
<1>1. handle_fragment(s, k) = u
  BY DEF handle_fragment, FragmentCleared, Parts
<1> HIDE DEF u
<1>2. \E g : /\ Calling(g, h, k, Calls(c))
             /\ AllSafe(t, g) /\ Rest(s, t, k) /\ Beside(s, t, k)
             /\ t.conn[k].state # "free" /\ (t.conn[k].state = "live" \/ (t.conn[k].sentClose /\ t.conn[k].recvClose))
             /\ (op \in Parts /\ c.frame.fin => t.conn[k].message = <<>>)
             /\ (op \notin Parts => t.conn[k].message = c.message)
  <2>1. CASE op \in Parts
    <3>1. t = Message(s, k) /\ op # "close"
      BY <2>1 DEF Parts
    <3>2. PICK g, m : /\ Calling(g, h, k, Calls(c)) /\ AfterPart(s, Message(s, k), g, k, m)
                      /\ c.frame.fin => m = <<>>
      BY <2>1, MessageSafe DEF Parts
    <3> HIDE DEF t
    <3> QED BY <2>1, <3>1, <3>2 DEF AfterPart
  <2>2. CASE op \notin Parts
    <3>1. Calls(c) = <<>>
      BY <2>2 DEF Calls, Parts
    <3>2. Calling(h, h, k, Calls(c))
      BY <1>0, <3>1, CallingNone
    <3>3. Onward(s, t, h, k) /\ (t.conn[k].state = "live" \/ (t.conn[k].sentClose /\ t.conn[k].recvClose))
      <4>1. CASE op = "close"
        <5>1. t = Closed(s, k)
          BY <4>1, <2>2
        <5> HIDE DEF t
        <5> QED BY <5>1, ClosedSafe
      <4>2. CASE op = "ping"
        <5>1. t = Sent(s, k, Item("pong", k, c.fragment))
          BY <4>2, <2>2
        <5>2. /\ Onward(s, Sent(s, k, Item("pong", k, c.fragment)), h, k)
              /\ Sent(s, k, Item("pong", k, c.fragment)).conn[k].state = "live"
          BY <1>0, ItemIs, SentSafe
        <5> QED BY <5>1, <5>2
      <4>3. CASE op = "pong"
        <5>1. t = s
          BY <4>3, <2>2
        <5> QED BY <5>1 DEF Onward, Rest, Aside
      <4> QED BY <1>0, <2>2, <4>1, <4>2, <4>3 DEF Ops, Parts
    <3> HIDE DEF t
    <3> QED BY <2>2, <3>2, <3>3 DEF Onward, Aside, Beside
  <2> QED BY <2>1, <2>2
<1> HIDE DEF t
<1>3. PICK g : /\ Calling(g, h, k, Calls(c))
               /\ AllSafe(t, g) /\ Rest(s, t, k) /\ Beside(s, t, k)
               /\ t.conn[k].state # "free" /\ (t.conn[k].state = "live" \/ (t.conn[k].sentClose /\ t.conn[k].recvClose))
               /\ (op \in Parts /\ c.frame.fin => t.conn[k].message = <<>>)
               /\ (op \notin Parts => t.conn[k].message = c.message)
  BY <1>2
<1>4. ~t.conn[k].reading
  BY <1>3 DEF Beside
<1>5. /\ AllSafe(u, g) /\ Rest(t, u, k) /\ u.ready[k] = t.ready[k]
      /\ u.conn[k].sentClose = t.conn[k].sentClose /\ u.conn[k].recvClose = t.conn[k].recvClose
      /\ u.conn[k].fragment = <<>> /\ u.conn[k].state = t.conn[k].state
      /\ u.conn[k].at = t.conn[k].at /\ u.conn[k].frame = t.conn[k].frame
      /\ u.conn[k].left = t.conn[k].left /\ ~u.conn[k].reading
      /\ u.conn[k].message = t.conn[k].message
  BY <1>3, <1>4, ClearedSafe DEF u
<1>6. Handled(s, u, g, k)
  BY <1>3, <1>5, RestOn DEF Handled, Beside
<1> QED BY <1>1, <1>3, <1>6

\* The next read is begun, in the state where.
LEMMA ReadOnSafe ==
    ASSUME NEW s, NEW h, AllSafe(s, h), NEW k \in Conns, CanRead(s.conn[k], s.ready[k]),
           ~s.conn[k].reading, s.conn[k].fragment = <<>>, NEW where \in {"header", "length", "mask", "payload"},
           where # "header" => s.conn[k].left = Len(s.conn[k].frame.load)
    PROVE  LET t == ReadOn(s, k, where)
           IN  /\ AllSafe(t, h) /\ Rest(s, t, k)
               /\ t.conn[k].frame = s.conn[k].frame /\ t.conn[k].message = s.conn[k].message
               /\ (AtHand(t.conn[k], t.ready[k]) <=> where # "header" \/ HasFrame(s.ready[k]))
<1> DEFINE u == [s EXCEPT !.conn[k].at = where]
           d == [s.conn[k] EXCEPT !.at = where]
           t == do_read(u, k)
<1>0. ReadOn(s, k, where) = t
  BY DEF ReadOn
<1>1. s \in Servers /\ s.conn[k] \in Members
  BY SafeParts, PartsAre
<1>2. /\ Similar(s.conn[k], d) /\ d.message = s.conn[k].message /\ d.at = where
      /\ d.left = s.conn[k].left /\ d.fragment = <<>>
      /\ d.sentClose = s.conn[k].sentClose /\ d.recvClose = s.conn[k].recvClose
  BY <1>1 DEF Similar, Members
<1>3. IsSetTo(s, u, k, d)
  BY <1>1 DEF Servers, IsSetTo
<1> HIDE DEF u, d
<1>4. AllSafe(u, h) /\ Rest(s, u, k) /\ u.conn[k] = d /\ u.ready[k] = s.ready[k]
  BY <1>2, <1>3, SimilarSafe DEF CanRead
<1>5. ReadsFrom(u.conn[k]) /\ CanRead(u.conn[k], u.ready[k])
  BY <1>2, <1>4 DEF ReadsFrom, Similar, CanRead, LastRead
<1>6. AllSafe(t, h) /\ Rest(u, t, k) /\ SameFrame(u, t, k)
  BY <1>4, <1>5, ReadSafe
<1> HIDE DEF t
<1>7. AtHand(u.conn[k], u.ready[k]) <=> where # "header" \/ HasFrame(s.ready[k])
  BY <1>2, <1>4 DEF AtHand
<1>8. /\ t.conn[k].frame = s.conn[k].frame /\ t.conn[k].message = s.conn[k].message
      /\ (AtHand(t.conn[k], t.ready[k]) <=> where # "header" \/ HasFrame(s.ready[k]))
  BY <1>2, <1>4, <1>6, <1>7 DEF SameFrame, Similar
<1> QED BY <1>0, <1>4, <1>6, <1>8, RestOn

\* More of a payload.
MoreRead(c, n) == [c EXCEPT !.left = c.left - n,
                            !.fragment = @ \o SubSeq(c.frame.load, Len(@) + 1, Len(@) + n)]

\* What is read of a payload from its beginning, up to its end, is the payload.
LEMMA MoreReadIs ==
    ASSUME NEW c \in Members, c.fragment = <<>>, c.left = Len(c.frame.load), NEW n \in Nat, n <= Len(c.frame.load)
    PROVE  /\ Similar(c, MoreRead(c, n)) /\ MoreRead(c, n).message = c.message /\ MoreRead(c, n).at = c.at
           /\ n = c.left => MoreRead(c, n).fragment = c.frame.load
<1> DEFINE load == c.frame.load
           fragment == c.fragment \o SubSeq(load, Len(c.fragment) + 1, Len(c.fragment) + n)
           left == c.left - n
<1>1. load \in Units /\ Len(load) \in Nat /\ c.left \in Int
  BY DEF Members, Frame, Units
<1>2. Len(c.fragment) = 0
  OBVIOUS
<1>3. SubSeq(load, 1, n) \in Units /\ SubSeq(load, 1, Len(load)) = load
  <2> DEFINE T == Conns \X Nat
  <2>1. load \in Seq(T)
    BY <1>1 DEF Units
  <2> HIDE DEF load, T
  <2>2. SubSeq(load, 1, n) \in Seq(T) /\ SubSeq(load, 1, Len(load)) = load
    <3>1. n \in Int /\ 1 \in Int /\ \A i \in 1 .. n : load[i] \in T
      <4>1. \A i \in 1 .. n : i \in 1 .. Len(load)
        BY <1>1 DEF load
      <4>2. \A i \in 1 .. Len(load) : load[i] \in T
        BY <2>1
      <4> QED BY <4>1, <4>2
    <3>2. SubSeq(load, 1, n) \in Seq(T)
      BY <3>1, SubSeqProperties
    <3>3. SubSeq(load, 1, Len(load)) = load
      BY <2>1
    <3> QED BY <3>2, <3>3
  <2> QED BY <2>2 DEF Units, T
<1>4. fragment = SubSeq(load, 1, n)
  <2>1. fragment = <<>> \o SubSeq(load, 1, n)
    BY <1>2
  <2> HIDE DEF fragment, load
  <2> QED BY <1>3, <2>1 DEF Units
<1>5. left \in Int /\ fragment \in Units
  BY <1>1, <1>3, <1>4
<1>6. MoreRead(c, n) = [c EXCEPT !.left = left, !.fragment = fragment]
  BY DEF MoreRead
<1>7. n = c.left => fragment = load
  BY <1>3, <1>4
<1> HIDE DEF fragment, left, load
<1>8. /\ Similar(c, MoreRead(c, n)) /\ MoreRead(c, n).message = c.message /\ MoreRead(c, n).at = c.at
      /\ MoreRead(c, n).fragment = fragment
  BY <1>5, <1>6 DEF Similar, Members
<1> QED BY <1>7, <1>8 DEF load

\* A frame has been handled, and perhaps the next header is being read.
Over(s, t, k) ==
    LET c == s.conn[k]
        d == t.conn[k]
    IN  /\ d.frame = c.frame
        /\ ~AtHand(d, t.ready[k])
        /\ c.frame.op \in Parts /\ c.frame.fin => d.message = <<>>
        /\ c.frame.op \notin Parts => d.message = c.message

\* The members as message_handler_ sees them, n more units read.
WholePart(c, n) == [c EXCEPT !.fragment = @ \o SubSeq(c.frame.load, Len(@) + 1, Len(@) + n)]

\* It is called with the same.
LEMMA CallsMore ==
    ASSUME NEW c \in Members, NEW n
    PROVE  Calls(MoreRead(c, n)) = Calls(WholePart(c, n))
<1> DEFINE f == c.fragment \o SubSeq(c.frame.load, Len(c.fragment) + 1, Len(c.fragment) + n)
           l == c.left - n
<1>1. MoreRead(c, n) = [c EXCEPT !.left = l, !.fragment = f] /\ WholePart(c, n) = [c EXCEPT !.fragment = f]
  BY DEF MoreRead, WholePart
<1> HIDE DEF f, l
<1>2. /\ MoreRead(c, n).message = WholePart(c, n).message /\ MoreRead(c, n).fragment = WholePart(c, n).fragment
      /\ MoreRead(c, n).frame = WholePart(c, n).frame
  BY <1>1 DEF Members
<1> QED BY <1>2 DEF Calls

\* That a deleted connection was used changes nothing of what is there.
LEMMA BrokenSafe ==
    ASSUME NEW s, NEW h, AllSafe(s, h), NEW k \in Conns, NEW t, t = [s EXCEPT !.broken = @ \cup {k}]
    PROVE  /\ AllSafe(t, h) /\ Rest(s, t, k) /\ t.conn[k] = s.conn[k] /\ t.ready[k] = s.ready[k]
<1>1. s \in Servers
  BY SafeParts
<1>2. Kept(s, t, k) /\ SameAt(s, t, k)
  BY <1>1 DEF Kept, SameAt, Servers
<1>3. AllSafe(t, h)
  BY <1>2, SafeSame, KeptSafe
<1> QED BY <1>2, <1>3, KeptRest DEF SameAt

\* A read of n units of a payload (websocket.h:332-362).
LEMMA PayloadSafe ==
    ASSUME NEW s, NEW h, AllSafe(s, h), NEW k \in Conns, s.conn[k].state = "live",
           ReadsFrom(s.conn[k]), s.conn[k].at = "payload", ~HasFrame(s.ready[k]),
           NEW n \in Nat, n <= Len(s.conn[k].frame.load)
    PROVE  LET t == PayloadRead(s, k, n)
           IN  /\ s.conn[k].left # n => AllSafe(t, h) /\ Rest(s, t, k) /\ SameFrame(s, t, k)
               /\ s.conn[k].left = n =>
                    \E g : /\ Calling(g, h, k, Calls(WholePart(s.conn[k], n))) /\ AllSafe(t, g)
                           /\ Rest(s, t, k) /\ Over(s, t, k)
<1> DEFINE c == s.conn[k]
           d == MoreRead(c, n)
           v == [s EXCEPT !.conn[k].left = c.left - n,
                          !.conn[k].fragment = @ \o SubSeq(c.frame.load, Len(@) + 1, Len(@) + n)]
           u == handle_fragment(v, k)
           w == IF u.conn[k].state = "deleted" THEN [u EXCEPT !.broken = @ \cup {k}] ELSE u
           r == ReadOn(w, k, "header")
<1>0. PayloadRead(s, k, n) = IF c.left # n THEN v ELSE r
  BY DEF PayloadRead
<1>1. s \in Servers /\ c \in Members
  BY SafeParts, PartsAre
<1>2. Similar(c, d) /\ d.message = c.message /\ d.at = c.at
  BY <1>1, MoreReadIs DEF ReadsFrom
<1>3. IsSetTo(s, v, k, d)
  BY <1>1 DEF MoreRead, Servers, IsSetTo
<1> HIDE DEF v, d
<1>4. AllSafe(v, h) /\ Rest(s, v, k) /\ v.conn[k] = d /\ v.ready[k] = s.ready[k]
  BY <1>2, <1>3, SimilarSafe DEF ReadsFrom
<1>5. SameFrame(s, v, k)
  BY <1>2, <1>4 DEF SameFrame, AtHand, Similar
<1>6. v.conn[k].state = "live" /\ ~v.conn[k].reading
  BY <1>2, <1>4 DEF Similar, ReadsFrom
<1>7. PICK g : Calling(g, h, k, Calls(d)) /\ Handled(v, u, g, k)
  BY <1>4, <1>6, HandleSafe
<1>8. Calls(d) = Calls(WholePart(c, n))
  BY <1>1, CallsMore DEF d
<1> HIDE DEF u
<1>9. /\ AllSafe(u, g) /\ Rest(v, u, k) /\ u.conn[k].frame = c.frame /\ ~u.conn[k].reading
      /\ u.conn[k].fragment = <<>> /\ ~HasFrame(u.ready[k]) /\ u.conn[k].state # "free"
      /\ (u.conn[k].state = "live" \/ (u.conn[k].sentClose /\ u.conn[k].recvClose))
      /\ (c.frame.op \in Parts /\ c.frame.fin => u.conn[k].message = <<>>)
      /\ (c.frame.op \notin Parts => u.conn[k].message = c.message)
  BY <1>2, <1>4, <1>7 DEF Handled, Similar
<1>10. Rest(s, u, k)
  BY <1>4, <1>9, RestOn
<1>11. CASE c.left # n
  BY <1>0, <1>4, <1>5, <1>11
<1>12. CASE c.left = n
  <2>1. /\ AllSafe(w, g) /\ Rest(u, w, k) /\ w.conn[k] = u.conn[k] /\ w.ready[k] = u.ready[k]
    <3>1. CASE u.conn[k].state = "deleted"
      BY <1>9, <3>1, BrokenSafe
    <3>2. CASE u.conn[k].state # "deleted"
      BY <1>9, <3>2 DEF Rest
    <3> QED BY <3>1, <3>2
  <2> HIDE DEF w
  <2>2. CanRead(w.conn[k], w.ready[k])
    BY <1>9, <2>1 DEF CanRead, LastRead
  <2>3. /\ AllSafe(r, g) /\ Rest(w, r, k)
        /\ r.conn[k].frame = w.conn[k].frame /\ r.conn[k].message = w.conn[k].message
        /\ ~AtHand(r.conn[k], r.ready[k])
    BY <1>9, <2>1, <2>2, ReadOnSafe
  <2> HIDE DEF r
  <2>4. Over(s, r, k) /\ Rest(s, r, k)
    BY <1>9, <1>10, <2>1, <2>3, RestOn DEF Over
  <2>5. PayloadRead(s, k, n) = r
    BY <1>0, <1>12
  <2> QED BY <1>7, <1>8, <1>12, <2>3, <2>4, <2>5
<1> QED BY <1>11, <1>12

-----------------------------------------------------------------------------
(* The next handler is taken.                                               *)

\* The first of a queue and the rest.
LEMMA TailIs ==
    ASSUME NEW q \in Seq(Events), q # <<>>
    PROVE  /\ Tail(q) \in Seq(Events) /\ Head(q) \in Events /\ DOMAIN q = 1 .. Len(q)
           /\ DOMAIN Tail(q) = 1 .. Len(q) - 1 /\ Len(q) \in Nat /\ Len(q) >= 1
           /\ Head(q) = q[1] /\ \A i \in 1 .. Len(q) - 1 : Tail(q)[i] = q[i + 1]
OBVIOUS

\* The same by positions.
LEMMA TailAt ==
    ASSUME NEW q \in Seq(Events), q # <<>>
    PROVE  /\ 1 \in DOMAIN q /\ q[1] = Head(q)
           /\ \A i \in DOMAIN Tail(q) : i + 1 \in DOMAIN q /\ Tail(q)[i] = q[i + 1] /\ i + 1 # 1 /\ i \in Nat
           /\ \A i \in DOMAIN q : i # 1 => i - 1 \in DOMAIN Tail(q) /\ Tail(q)[i - 1] = q[i]
<1>1. /\ DOMAIN q = 1 .. Len(q)
      /\ DOMAIN Tail(q) = 1 .. Len(q) - 1 /\ Len(q) \in Nat /\ Len(q) >= 1
      /\ Head(q) = q[1] /\ \A i \in 1 .. Len(q) - 1 : Tail(q)[i] = q[i + 1]
  BY TailIs
<1>2. \A i \in 1 .. Len(q) - 1 : i + 1 \in 1 .. Len(q) /\ i + 1 # 1 /\ i \in Nat
  BY <1>1
<1>3. \A i \in 1 .. Len(q) : i # 1 => i - 1 \in 1 .. Len(q) - 1 /\ (i - 1) + 1 = i
  BY <1>1
<1> QED BY <1>1, <1>2, <1>3

\* Of the reads, or writes, one at a time, the handler that runs is the only one.
LEMMA OneTaken ==
    ASSUME NEW q \in Seq(Events), q # <<>>, NEW what, NEW pending, NEW known,
           OneAtATime(what, pending, q, known)
    PROVE  /\ Head(q).what # what => OneAtATime(what, pending, Tail(q), known)
           /\ Head(q).what = what =>
                known /\ ~pending /\ OneAtATime(what, FALSE, Tail(q), FALSE)
                /\ \A i \in DOMAIN Tail(q) : Tail(q)[i].what # what
<1>1. /\ 1 \in DOMAIN q /\ q[1] = Head(q)
      /\ \A i \in DOMAIN Tail(q) : i + 1 \in DOMAIN q /\ Tail(q)[i] = q[i + 1] /\ i + 1 # 1 /\ i \in Nat
  BY TailAt
<1>2. \A i, j \in DOMAIN Tail(q) : i + 1 = j + 1 => i = j
  BY <1>1
<1>3. ASSUME Head(q).what # what PROVE OneAtATime(what, pending, Tail(q), known)
  BY <1>1, <1>2 DEF OneAtATime
<1>4. ASSUME Head(q).what = what
      PROVE  known /\ ~pending /\ \A i \in DOMAIN Tail(q) : Tail(q)[i].what # what
  BY <1>1, <1>4 DEF OneAtATime
<1>5. ASSUME Head(q).what = what PROVE OneAtATime(what, FALSE, Tail(q), FALSE)
  BY <1>4, <1>5 DEF OneAtATime
<1> QED BY <1>3, <1>4, <1>5

\* The handlers that are left read no more than there is.
LEMMA BeginningTaken ==
    ASSUME NEW q \in Seq(Events), q # <<>>, NEW c, FromTheBeginning(c, q)
    PROVE  FromTheBeginning(c, Tail(q))
BY TailAt DEF FromTheBeginning

\* The read of a header that is answered is the next handler, or still to come.
LEMMA HasFrameTaken ==
    ASSUME NEW q \in Seq(Events), q # <<>>
    PROVE  HasFrame(q) <=> HasFrame(Tail(q)) \/ (Head(q).what = "read" /\ Head(q).ok)
<1>1. /\ 1 \in DOMAIN q /\ q[1] = Head(q)
      /\ \A i \in DOMAIN Tail(q) : i + 1 \in DOMAIN q /\ Tail(q)[i] = q[i + 1]
      /\ \A i \in DOMAIN q : i # 1 => i - 1 \in DOMAIN Tail(q) /\ Tail(q)[i - 1] = q[i]
  BY TailAt
<1> QED BY <1>1 DEF HasFrame

\* The next handler of k is taken from its queue (Run).
Popped(s, k) == [s EXCEPT !.ready[k] = Tail(@)]

\* Only the queue of k is changed, and what the handler begins with.
LEMMA PoppedIs ==
    ASSUME NEW s \in Servers, NEW k \in Conns, NEW d \in Members, s.ready[k] # <<>>,
           NEW t, IsSetTo(Popped(s, k), t, k, d)
    PROVE  /\ Kept(s, t, k) /\ t \in Servers /\ t.conn[k] = d /\ t.ready[k] = Tail(s.ready[k])
           /\ t.reads = s.reads /\ t.writes = s.writes /\ t.users = s.users
<1>1. /\ s.reads \in SUBSET Conns /\ s.writes \in SUBSET Conns /\ s.users \in SUBSET Conns
      /\ s.ready[k] \in Seq(Events)
  BY Subsets, PartsAre
<1> DEFINE q == Tail(s.ready[k])
<1>2. q \in Seq(Events)
  BY <1>1, TailIs
<1>3. t = [s EXCEPT !.conn = [s.conn EXCEPT ![k] = d], !.ready = [s.ready EXCEPT ![k] = q]]
  BY DEF Popped, IsSetTo, Servers
<1> HIDE DEF q
<1>4. t = Made(s, k, d, q, s.reads, s.writes, s.users)
  BY <1>3 DEF Made, Servers
<1>5. /\ Kept(s, t, k) /\ t \in Servers /\ t.conn[k] = d /\ t.ready[k] = q
      /\ t.reads = s.reads /\ t.writes = s.writes /\ t.users = s.users
  BY <1>1, <1>2, <1>4, MadeIs
<1> QED BY <1>5 DEF q

\* Handlers are there only of what was made.
LEMMA LiveWithHandlers ==
    ASSUME NEW s, NEW h, AllSafe(s, h), NEW k \in Conns, s.ready[k] # <<>>, s.conn[k].state # "deleted"
    PROVE  s.conn[k].state = "live"
<1>1. s \in Servers /\ OnlyLive(s.conn[k], k \in s.users \/ k \in s.reads, s.ready[k])
  BY SafeParts DEF FineAt
<1>2. s.conn[k] \in Members
  BY <1>1, PartsAre
<1> QED BY <1>1, <1>2 DEF OnlyLive, Members

\* A handler that carries no message is taken, with a change of the members.
LEMMA TakenSafe ==
    ASSUME NEW s, NEW h, AllSafe(s, h), NEW k \in Conns, s.ready[k] # <<>>,
           NEW d \in Members, NEW t, IsSetTo(Popped(s, k), t, k, d),
           Head(s.ready[k]).what # "send", FineAt(t, k), d.state = s.conn[k].state,
           d.open => s.conn[k].open, d.queue = s.conn[k].queue,
           d.sending = s.conn[k].sending \/ Head(s.ready[k]).what = "write"
    PROVE  AllSafe(t, h) /\ Rest(s, t, k)
<1>1. s \in Servers /\ FineAt(s, k) /\ s.ready[k] \in Seq(Events)
  BY SafeParts, PartsAre
<1>2. /\ Kept(s, t, k) /\ t \in Servers /\ t.conn[k] = d /\ t.ready[k] = Tail(s.ready[k])
      /\ t.reads = s.reads /\ t.writes = s.writes /\ t.users = s.users
  BY <1>1, PoppedIs
<1>3. Under(t, k) = Under(s, k)
  <2>1. CASE Head(s.ready[k]).what = "write"
    <3>1. k \notin s.writes
      BY <1>1, <2>1, OneTaken DEF FineAt
    <3> QED BY <1>2, <3>1 DEF Under
  <2>2. CASE d.sending = s.conn[k].sending
    BY <1>2, <2>2 DEF Under
  <2> QED BY <2>1, <2>2
<1>4. SameButReady(s, t, k)
  BY <1>2, <1>3 DEF SameButReady
<1>5. Carried(Head(s.ready[k])).is # "message"
  BY DEF Carried, NoItem, Item
<1>6. ASSUME NEW x \in Conns PROVE Ordered(x, k, t, got[k], hung, h[x])
  <2>1. Ordered(x, k, s, got[k], hung, h[x]) /\ h[x] \in Seq(Units)
    BY SafeParts
  <2> QED BY <1>1, <1>2, <1>4, <1>5, <2>1, OrderedPop
<1>7. Safe(t, h, k)
  BY <1>2, <1>6, SafeParts DEF Safe
<1> QED BY <1>2, <1>7, KeptSafe, KeptRest

\* read_handler begins: is_reading is cleared.
ReadTaken(s, k) == [Popped(s, k) EXCEPT !.conn[k].reading = FALSE]

\* The handler of a read: nothing is being read now, and no frame is left in the queue.
LEMMA ReadTakenSafe ==
    ASSUME NEW s, NEW h, AllSafe(s, h), NEW k \in Conns, s.ready[k] # <<>>, s.conn[k].state = "live",
           Head(s.ready[k]).what = "read"
    PROVE  LET t == ReadTaken(s, k)
               c == s.conn[k]
               d == t.conn[k]
               e == Head(s.ready[k])
           IN  /\ AllSafe(t, h) /\ Rest(s, t, k) /\ ReadsFrom(d) /\ d.state = "live"
               /\ d.at = c.at /\ d.frame = c.frame /\ d.message = c.message /\ d.left = c.left
               /\ d.fragment = <<>> /\ c.fragment = <<>>
               /\ ~HasFrame(t.ready[k]) /\ (HasFrame(s.ready[k]) <=> e.ok)
               /\ e \in Events /\ (c.at = "payload" => e.n <= Len(c.frame.load))
<1> DEFINE t == ReadTaken(s, k)
           c == s.conn[k]
           d == [c EXCEPT !.reading = FALSE]
           e == Head(s.ready[k])
           q == s.ready[k]
<1>1. s \in Servers /\ FineAt(s, k) /\ q \in Seq(Events) /\ c \in Members /\ q # <<>>
  BY SafeParts, PartsAre
<1>2. Head(q) \in Events /\ e = Head(q) /\ e.what = "read"
  BY <1>1, TailIs
<1>3. /\ d \in Members /\ d.state = "live" /\ d.open = c.open /\ d.queue = c.queue /\ d.sending = c.sending
      /\ d.at = c.at /\ d.frame = c.frame /\ d.message = c.message /\ d.left = c.left
      /\ d.fragment = c.fragment /\ ~d.reading /\ d.called = c.called
  BY <1>1 DEF Members
<1>4. IsSetTo(Popped(s, k), t, k, d)
  BY <1>1 DEF ReadTaken, Popped, IsSetTo, Servers
<1> HIDE DEF t, d
<1>5. /\ t.conn[k] = d /\ t.ready[k] = Tail(q)
      /\ t.reads = s.reads /\ t.writes = s.writes /\ t.users = s.users
  BY <1>1, <1>3, <1>4, PoppedIs
<1>6. /\ OneAtATime("read", k \in s.reads, q, c.reading) /\ OneAtATime("write", k \in s.writes, q, c.sending # <<>>)
      /\ FromTheBeginning(c, q) /\ (k \in s.writes => c.open) /\ (k \in s.users => ~c.called)
  BY <1>1 DEF FineAt
<1>7. /\ c.reading /\ k \notin s.reads /\ OneAtATime("read", FALSE, Tail(q), FALSE)
      /\ \A i \in DOMAIN Tail(q) : Tail(q)[i].what # "read"
  BY <1>1, <1>2, <1>6, OneTaken
<1>8. OneAtATime("write", k \in s.writes, Tail(q), c.sending # <<>>)
  BY <1>1, <1>2, <1>6, OneTaken
<1>9. FromTheBeginning(d, Tail(q)) /\ c.fragment = <<>> /\ ReadsFrom(d)
  <2>1. FromTheBeginning(c, Tail(q))
    BY <1>1, <1>6, BeginningTaken
  <2> QED BY <1>3, <1>6, <1>7, <2>1 DEF FromTheBeginning, ReadsFrom
<1>10. FineAt(t, k)
  <2>1. OneAtATime("read", k \in t.reads, t.ready[k], t.conn[k].reading)
    BY <1>3, <1>5, <1>7 DEF OneAtATime
  <2>2. OneAtATime("write", k \in t.writes, t.ready[k], t.conn[k].sending # <<>>)
    BY <1>3, <1>5, <1>8
  <2>3. OnlyLive(t.conn[k], k \in t.users \/ k \in t.reads, t.ready[k])
    BY <1>3, <1>5 DEF OnlyLive
  <2> QED BY <1>3, <1>5, <1>6, <1>9, <2>1, <2>2, <2>3 DEF FineAt
<1>11. AllSafe(t, h) /\ Rest(s, t, k)
  BY <1>2, <1>3, <1>4, <1>10, TakenSafe
<1>12. ~HasFrame(Tail(q)) /\ (HasFrame(q) <=> e.ok)
  <2>1. ~HasFrame(Tail(q))
    BY <1>7 DEF HasFrame
  <2> QED BY <1>1, <1>2, <2>1, HasFrameTaken
<1>13. c.at = "payload" => e.n <= Len(c.frame.load)
  <2>1. 1 \in DOMAIN q /\ q[1] = Head(q)
    BY <1>1, TailAt
  <2> QED BY <1>2, <1>6, <2>1 DEF FromTheBeginning
<1>14. /\ AllSafe(t, h) /\ Rest(s, t, k) /\ ReadsFrom(t.conn[k]) /\ t.conn[k].state = "live"
       /\ t.conn[k].at = c.at /\ t.conn[k].frame = c.frame /\ t.conn[k].message = c.message
       /\ t.conn[k].left = c.left /\ t.conn[k].fragment = <<>> /\ c.fragment = <<>>
       /\ ~HasFrame(t.ready[k]) /\ (HasFrame(q) <=> e.ok)
       /\ e \in Events /\ (c.at = "payload" => e.n <= Len(c.frame.load))
  BY <1>2, <1>3, <1>5, <1>9, <1>11, <1>12, <1>13
<1> QED BY <1>14 DEF t

\* write_handler begins: sending_buffers_ is cleared.
WriteTaken(s, k) == [Popped(s, k) EXCEPT !.conn[k].sending = <<>>]

\* The handler of a write: nothing is being written now.
LEMMA WriteTakenSafe ==
    ASSUME NEW s, NEW h, AllSafe(s, h), NEW k \in Conns, s.ready[k] # <<>>, s.conn[k].state = "live",
           Head(s.ready[k]).what = "write"
    PROVE  LET t == WriteTaken(s, k)
           IN  /\ Onward(s, t, h, k) /\ t.conn[k].state = "live" /\ t.conn[k].queue = s.conn[k].queue
<1> DEFINE t == WriteTaken(s, k)
           c == s.conn[k]
           d == [c EXCEPT !.sending = <<>>]
           q == s.ready[k]
<1>1. s \in Servers /\ FineAt(s, k) /\ q \in Seq(Events) /\ c \in Members /\ q # <<>>
  BY SafeParts, PartsAre
<1>2. Head(q) \in Events /\ Head(q).what = "write"
  BY <1>1, TailIs
<1>3. /\ d \in Members /\ d.state = "live" /\ d.open = c.open /\ d.queue = c.queue /\ d.sending = <<>>
      /\ d.at = c.at /\ d.frame = c.frame /\ d.message = c.message /\ d.left = c.left
      /\ d.fragment = c.fragment /\ d.reading = c.reading /\ d.called = c.called
  BY <1>1, EmptyUnits DEF Members
<1>4. IsSetTo(Popped(s, k), t, k, d)
  BY <1>1 DEF WriteTaken, Popped, IsSetTo, Servers
<1> HIDE DEF t, d
<1>5. /\ t.conn[k] = d /\ t.ready[k] = Tail(q)
      /\ t.reads = s.reads /\ t.writes = s.writes /\ t.users = s.users
  BY <1>1, <1>3, <1>4, PoppedIs
<1>6. /\ OneAtATime("read", k \in s.reads, q, c.reading) /\ OneAtATime("write", k \in s.writes, q, c.sending # <<>>)
      /\ FromTheBeginning(c, q) /\ (k \in s.writes => c.open) /\ (k \in s.users => ~c.called)
  BY <1>1 DEF FineAt
<1>7. k \notin s.writes /\ OneAtATime("write", FALSE, Tail(q), FALSE)
  BY <1>1, <1>2, <1>6, OneTaken
<1>8. OneAtATime("read", k \in s.reads, Tail(q), c.reading)
  BY <1>1, <1>2, <1>6, OneTaken
<1>9. FromTheBeginning(d, Tail(q))
  <2>1. FromTheBeginning(c, Tail(q))
    BY <1>1, <1>6, BeginningTaken
  <2> QED BY <1>3, <2>1 DEF FromTheBeginning
<1>10. FineAt(t, k)
  <2>1. OneAtATime("read", k \in t.reads, t.ready[k], t.conn[k].reading)
    BY <1>3, <1>5, <1>8
  <2>2. OneAtATime("write", k \in t.writes, t.ready[k], t.conn[k].sending # <<>>)
    BY <1>3, <1>5, <1>7 DEF OneAtATime
  <2>3. OnlyLive(t.conn[k], k \in t.users \/ k \in t.reads, t.ready[k])
    BY <1>3, <1>5 DEF OnlyLive
  <2> QED BY <1>3, <1>5, <1>6, <1>9, <2>1, <2>2, <2>3 DEF FineAt
<1>11. AllSafe(t, h) /\ Rest(s, t, k)
  BY <1>2, <1>3, <1>4, <1>10, TakenSafe
<1>12. HasFrame(Tail(q)) <=> HasFrame(q)
  BY <1>1, <1>2, HasFrameTaken
<1>13. Onward(s, t, h, k) /\ t.conn[k].state = "live" /\ t.conn[k].queue = s.conn[k].queue
  BY <1>3, <1>5, <1>11, <1>12 DEF Onward, Aside
<1> QED BY <1>13 DEF t

\* A call of close begins.
LEMMA CloseTakenSafe ==
    ASSUME NEW s, NEW h, AllSafe(s, h), NEW k \in Conns, s.ready[k] # <<>>, s.conn[k].state # "free",
           Head(s.ready[k]).what = "close"
    PROVE  Onward(s, Popped(s, k), h, k) /\ Popped(s, k).conn = s.conn
<1> DEFINE t == Popped(s, k)
           c == s.conn[k]
           q == s.ready[k]
<1>1. s \in Servers /\ FineAt(s, k) /\ q \in Seq(Events) /\ c \in Members /\ q # <<>>
  BY SafeParts, PartsAre
<1>2. Head(q) \in Events /\ Head(q).what = "close"
  BY <1>1, TailIs
<1>4. IsSetTo(Popped(s, k), t, k, c) /\ t.conn = s.conn
  <2>1. t.conn = s.conn /\ t = [t EXCEPT !.conn = s.conn]
    BY <1>1 DEF Popped, Servers
  <2> HIDE DEF t
  <2>2. s.conn = [s.conn EXCEPT ![k] = c]
    BY <1>1, ConnSame
  <2>3. IsSetTo(t, t, k, c)
    BY <2>1, <2>2 DEF IsSetTo
  <2> QED BY <2>1, <2>3 DEF t
<1> HIDE DEF t
<1>5. /\ t.conn[k] = c /\ t.ready[k] = Tail(q)
      /\ t.reads = s.reads /\ t.writes = s.writes /\ t.users = s.users
  BY <1>1, <1>4, PoppedIs
<1>6. /\ OneAtATime("read", k \in s.reads, q, c.reading) /\ OneAtATime("write", k \in s.writes, q, c.sending # <<>>)
      /\ FromTheBeginning(c, q) /\ (k \in s.writes => c.open) /\ (k \in s.users => ~c.called)
      /\ OnlyLive(c, k \in s.users \/ k \in s.reads, q)
  BY <1>1 DEF FineAt
<1>7. OneAtATime("write", k \in s.writes, Tail(q), c.sending # <<>>)
  BY <1>1, <1>2, <1>6, OneTaken
<1>8. OneAtATime("read", k \in s.reads, Tail(q), c.reading)
  BY <1>1, <1>2, <1>6, OneTaken
<1>9. FromTheBeginning(c, Tail(q))
  BY <1>1, <1>6, BeginningTaken
<1>12. HasFrame(Tail(q)) <=> HasFrame(q)
  BY <1>1, <1>2, HasFrameTaken
<1>10. FineAt(t, k)
  <2>1. OneAtATime("read", k \in t.reads, t.ready[k], t.conn[k].reading)
    BY <1>5, <1>8
  <2>2. OneAtATime("write", k \in t.writes, t.ready[k], t.conn[k].sending # <<>>)
    BY <1>5, <1>7
  <2>3. OnlyLive(t.conn[k], k \in t.users \/ k \in t.reads, t.ready[k])
    BY <1>5, <1>6, <1>12 DEF OnlyLive, LastRead
  <2> QED BY <1>5, <1>6, <1>9, <2>1, <2>2, <2>3 DEF FineAt
<1>11. AllSafe(t, h) /\ Rest(s, t, k)
  BY <1>1, <1>2, <1>4, <1>10, TakenSafe DEF t
<1>13. Onward(s, t, h, k) /\ t.conn = s.conn
  BY <1>4, <1>5, <1>11, <1>12 DEF Onward, Aside
<1> QED BY <1>13 DEF t

\* To a connection that is closed nothing is on its way.
LEMMA OrderedDrop ==
    ASSUME NEW k, NEW r \in Conns, NEW s \in Servers, NEW t \in Servers, NEW g, NEW gone,
           NEW all \in Seq(Units), Ordered(k, r, s, g, gone, all),
           ~t.conn[r].open, s.ready[r] # <<>>, t.ready[r] = Tail(s.ready[r])
    PROVE  Ordered(k, r, t, g, gone, all)
<1>0. s.ready[r] \in Seq(Events) /\ Posted(s.ready[r]) \in Seq(WsItems)
  BY PartsAre
<1>1. /\ Posted(t.ready[r]) = Tail(Posted(s.ready[r])) /\ Posted(s.ready[r]) # <<>>
  BY <1>0, PostedRest
<1>2. Places(k, Posted(s.ready[r])) = {} => Places(k, Posted(t.ready[r])) = {}
  BY <1>0, <1>1, PlacesRest
<1>3. Arrived(k, g, all) /\ (r = k => Places(k, Posted(t.ready[r])) = {})
  BY <1>2, OrderedArrives DEF Ordered
<1> QED BY <1>3 DEF Ordered

\* The state in which the next handler is taken, any but one of a write or of a read that got something.
LEMMA PoppedFine ==
    ASSUME NEW s \in Servers, NEW k \in Conns, s.ready[k] # <<>>, FineAt(s, k), s.conn[k].state # "free",
           Head(s.ready[k]).what # "write", Head(s.ready[k]).what = "read" => ~HasFrame(s.ready[k])
    PROVE  /\ FineAt(Popped(s, k), k) /\ Kept(s, Popped(s, k), k) /\ Popped(s, k) \in Servers
           /\ Popped(s, k).conn[k] = s.conn[k] /\ Popped(s, k).ready[k] = Tail(s.ready[k])
           /\ Popped(s, k).reads = s.reads /\ Popped(s, k).writes = s.writes /\ Popped(s, k).users = s.users
           /\ (HasFrame(Popped(s, k).ready[k]) <=> HasFrame(s.ready[k]))
<1> DEFINE t == Popped(s, k)
           c == s.conn[k]
           q == s.ready[k]
<1>1. q \in Seq(Events) /\ c \in Members /\ q # <<>>
  BY PartsAre
<1>2. Head(q).what # "write"
  OBVIOUS
<1>4. IsSetTo(Popped(s, k), t, k, c)
  <2>1. t.conn = s.conn /\ t = [t EXCEPT !.conn = s.conn]
    BY DEF Popped, Servers
  <2> HIDE DEF t
  <2>2. s.conn = [s.conn EXCEPT ![k] = c]
    BY ConnSame
  <2>3. IsSetTo(t, t, k, c)
    BY <2>1, <2>2 DEF IsSetTo
  <2> QED BY <2>3 DEF t
<1> HIDE DEF t
<1>5. /\ t.conn[k] = c /\ t.ready[k] = Tail(q) /\ t \in Servers /\ Kept(s, t, k)
      /\ t.reads = s.reads /\ t.writes = s.writes /\ t.users = s.users
  BY <1>1, <1>4, PoppedIs
<1>6. /\ OneAtATime("read", k \in s.reads, q, c.reading) /\ OneAtATime("write", k \in s.writes, q, c.sending # <<>>)
      /\ FromTheBeginning(c, q) /\ (k \in s.writes => c.open) /\ (k \in s.users => ~c.called)
      /\ OnlyLive(c, k \in s.users \/ k \in s.reads, q)
  BY DEF FineAt
<1>7. OneAtATime("write", k \in s.writes, Tail(q), c.sending # <<>>)
  BY <1>1, <1>2, <1>6, OneTaken
<1>8. OneAtATime("read", k \in s.reads, Tail(q), c.reading)
  <2>1. CASE Head(q).what # "read"
    BY <1>1, <1>6, <2>1, OneTaken
  <2>2. CASE Head(q).what = "read"
    <3>1. /\ 1 \in DOMAIN q /\ q[1] = Head(q)
          /\ \A i \in DOMAIN Tail(q) : i + 1 \in DOMAIN q /\ Tail(q)[i] = q[i + 1] /\ i + 1 # 1 /\ i \in Nat
      BY <1>1, TailAt
    <3>2. k \notin s.reads /\ \A i \in DOMAIN Tail(q) : Tail(q)[i].what # "read"
      BY <1>6, <2>2, <3>1 DEF OneAtATime
    <3> QED BY <3>2 DEF OneAtATime
  <2> QED BY <2>1, <2>2
<1>9. FromTheBeginning(c, Tail(q))
  BY <1>1, <1>6, BeginningTaken
<1>12. HasFrame(Tail(q)) <=> HasFrame(q)
  BY <1>1, HasFrameTaken
<1>10. FineAt(t, k)
  <2>1. OneAtATime("read", k \in t.reads, t.ready[k], t.conn[k].reading)
    BY <1>5, <1>8
  <2>2. OneAtATime("write", k \in t.writes, t.ready[k], t.conn[k].sending # <<>>)
    BY <1>5, <1>7
  <2>3. OnlyLive(t.conn[k], k \in t.users \/ k \in t.reads, t.ready[k])
    BY <1>5, <1>6, <1>12 DEF OnlyLive, LastRead
  <2> QED BY <1>5, <1>6, <1>9, <2>1, <2>2, <2>3 DEF FineAt
<1> QED BY <1>5, <1>10, <1>12 DEF t

\* What was posted for a connection that is deleted.
LEMMA DeletedTakenSafe ==
    ASSUME NEW s, NEW h, AllSafe(s, h), NEW k \in Conns, s.ready[k] # <<>>, s.conn[k].state = "deleted"
    PROVE  LET t == [Popped(s, k) EXCEPT !.broken = @ \cup {k}]
           IN  AllSafe(t, h) /\ Rest(s, t, k) /\ SameFrame(s, t, k)
               /\ ~(Head(s.ready[k]).what = "read" /\ Head(s.ready[k]).ok)
<1> DEFINE v == Popped(s, k)
           t == [v EXCEPT !.broken = @ \cup {k}]
<1>1. /\ s \in Servers /\ FineAt(s, k) /\ s.ready[k] \in Seq(Events)
  BY SafeParts, PartsAre
<1>2. /\ (s.conn[k].reading => ~HasFrame(s.ready[k])) /\ s.conn[k].sending = <<>> /\ ~s.conn[k].open
      /\ OneAtATime("read", k \in s.reads, s.ready[k], s.conn[k].reading)
      /\ OneAtATime("write", k \in s.writes, s.ready[k], s.conn[k].sending # <<>>)
  BY <1>1 DEF FineAt, OnlyLive, LastRead
<1>3. /\ Head(s.ready[k]).what # "write"
      /\ Head(s.ready[k]).what = "read" => ~HasFrame(s.ready[k]) /\ ~Head(s.ready[k]).ok
  <2>1. 1 \in DOMAIN s.ready[k] /\ s.ready[k][1] = Head(s.ready[k])
    BY <1>1, TailAt
  <2>2. Head(s.ready[k]).what = "read" => ~HasFrame(s.ready[k]) /\ ~Head(s.ready[k]).ok
    BY <1>2, <2>1 DEF OneAtATime, HasFrame
  <2>3. Head(s.ready[k]).what # "write"
    BY <1>2, <2>1 DEF OneAtATime
  <2> QED BY <2>2, <2>3
<1>4. /\ FineAt(v, k) /\ Kept(s, v, k) /\ v \in Servers
      /\ v.conn[k] = s.conn[k] /\ v.ready[k] = Tail(s.ready[k])
      /\ v.reads = s.reads /\ v.writes = s.writes /\ v.users = s.users
      /\ (HasFrame(v.ready[k]) <=> HasFrame(s.ready[k]))
  BY <1>1, <1>3, PoppedFine
<1> HIDE DEF v
<1>5. ASSUME NEW x \in Conns PROVE Ordered(x, k, v, got[k], hung, h[x])
  <2>1. Ordered(x, k, s, got[k], hung, h[x]) /\ h[x] \in Seq(Units)
    BY SafeParts
  <2> QED BY <1>1, <1>2, <1>4, <2>1, OrderedDrop
<1>6. AllSafe(v, h) /\ Rest(s, v, k)
  <2>1. Safe(v, h, k)
    BY <1>4, <1>5 DEF Safe
  <2> QED BY <1>4, <2>1, KeptSafe, KeptRest
<1>7. AllSafe(t, h) /\ Rest(v, t, k) /\ t.conn[k] = v.conn[k] /\ t.ready[k] = v.ready[k]
  BY <1>6, BrokenSafe
<1> HIDE DEF t
<1>8. AllSafe(t, h) /\ Rest(s, t, k) /\ SameFrame(s, t, k)
  BY <1>4, <1>6, <1>7, RestOn DEF SameFrame, AtHand
<1> QED BY <1>3, <1>8 DEF t, v

\* A message that was posted is taken, and written.
LEMMA SendTakenSafe ==
    ASSUME NEW s, NEW h, AllSafe(s, h), NEW k \in Conns, s.ready[k] # <<>>, s.conn[k].state = "live",
           Head(s.ready[k]).what = "send"
    PROVE  Onward(s, Sent(Popped(s, k), k, Head(s.ready[k]).item), h, k)
<1> DEFINE v == Popped(s, k)
           e == Head(s.ready[k])
           item == e.item
           t == Enqueued(v, k, item)
           d == Queued(s.conn[k], item)
<1>1. /\ s \in Servers /\ FineAt(s, k) /\ s.ready[k] \in Seq(Events) /\ s.conn[k] \in Members
  BY SafeParts, PartsAre
<1>2. e \in Events /\ item \in WsItems /\ item = Carried(e)
  <2>1. e \in Events
    BY <1>1, TailIs
  <2> QED BY <2>1 DEF Carried, Events
<1>4. /\ FineAt(v, k) /\ Kept(s, v, k) /\ v \in Servers
      /\ v.conn[k] = s.conn[k] /\ v.ready[k] = Tail(s.ready[k])
      /\ v.reads = s.reads /\ v.writes = s.writes /\ v.users = s.users
      /\ (HasFrame(v.ready[k]) <=> HasFrame(s.ready[k]))
  BY <1>1, PoppedFine
<1> HIDE DEF v
<1>5. /\ Kept(v, t, k) /\ t \in Servers /\ t.conn[k] = d /\ t.ready[k] = v.ready[k] /\ t.reads = v.reads
      /\ t.writes = v.writes /\ t.users = v.users
  BY <1>2, <1>4, EnqueuedIs
<1>6. /\ d.sending = s.conn[k].sending /\ d.open = s.conn[k].open /\ d.state = "live" /\ d.at = s.conn[k].at
      /\ d.left = s.conn[k].left /\ d.frame = s.conn[k].frame /\ d.fragment = s.conn[k].fragment
      /\ d.reading = s.conn[k].reading /\ d.message = s.conn[k].message
      /\ d.queue = Append(s.conn[k].queue, item) /\ d.queue # <<>>
  BY <1>1, <1>2, QueuedIs
<1>7. FineAt(t, k)
  BY <1>2, <1>4, QueueFine
<1>8. Sent(v, k, item) = do_write(t, k)
  BY DEF Sent, Enqueued
<1> HIDE DEF t, d, item, e
<1>9. ASSUME NEW x \in Conns PROVE Ordered(x, k, t, got[k], hung, h[x])
  <2>1. Ordered(x, k, s, got[k], hung, h[x]) /\ h[x] \in Seq(Units)
    BY SafeParts
  <2>2. Under(t, k) = Under(s, k)
    BY <1>4, <1>5, <1>6 DEF Under
  <2>3. /\ t.conn[k].queue = Append(s.conn[k].queue, Carried(Head(s.ready[k])))
        /\ t.conn[k].open = s.conn[k].open /\ t.ready[k] = Tail(s.ready[k]) /\ t.users = s.users
    BY <1>2, <1>4, <1>5, <1>6 DEF e
  <2> QED BY <1>1, <1>5, <2>1, <2>2, <2>3, OrderedTake
<1>10. Kept(s, t, k)
  BY <1>4, <1>5 DEF Kept
<1>11. AllSafe(t, h)
  <2>1. Safe(t, h, k)
    BY <1>5, <1>6, <1>7, <1>9 DEF Safe
  <2> QED BY <1>10, <2>1, KeptSafe
<1>12. Onward(s, t, h, k)
  BY <1>4, <1>5, <1>6, <1>10, <1>11, KeptRest DEF Onward, Aside
<1>13. Onward(t, do_write(t, k), h, k)
  BY <1>5, <1>6, <1>11, WriteSafe
<1>14. Onward(s, Sent(v, k, item), h, k)
  BY <1>8, <1>12, <1>13, OnwardOn
<1> QED BY <1>14 DEF v, item, e

\* remaining_length_ is set.
LeftIs(s, k, n) == [s EXCEPT !.conn[k].left = n]

\* After a header the length is known, and what comes before the payload is read.
LEMMA LeftIsSafe ==
    ASSUME NEW s, NEW h, AllSafe(s, h), NEW k \in Conns, s.conn[k].state = "live", ReadsFrom(s.conn[k])
    PROVE  LET t == LeftIs(s, k, Len(s.conn[k].frame.load))
           IN  /\ AllSafe(t, h) /\ Rest(s, t, k) /\ ReadsFrom(t.conn[k]) /\ t.conn[k].state = "live"
               /\ t.conn[k].left = Len(t.conn[k].frame.load)
               /\ t.conn[k].frame = s.conn[k].frame /\ t.conn[k].message = s.conn[k].message
<1> DEFINE n == Len(s.conn[k].frame.load)
           t == LeftIs(s, k, n)
           d == [s.conn[k] EXCEPT !.left = n]
<1>1. s \in Servers /\ s.conn[k] \in Members /\ s.conn[k].frame \in Frame
  BY SafeParts, PartsAre
<1>2. n \in Int
  BY <1>1 DEF Frame, Units
<1> HIDE DEF n
<1>3. /\ Similar(s.conn[k], d) /\ d.left = n /\ d.state = "live" /\ d.frame = s.conn[k].frame
      /\ d.message = s.conn[k].message /\ d.fragment = s.conn[k].fragment /\ d.reading = s.conn[k].reading
  BY <1>1, <1>2 DEF Members, Similar
<1>4. IsSetTo(s, t, k, d)
  BY <1>1 DEF LeftIs, IsSetTo, Servers
<1> HIDE DEF t, d
<1>5. AllSafe(t, h) /\ Rest(s, t, k) /\ t.conn[k] = d
  BY <1>3, <1>4, SimilarSafe DEF ReadsFrom
<1>6. /\ AllSafe(t, h) /\ Rest(s, t, k) /\ ReadsFrom(t.conn[k]) /\ t.conn[k].state = "live"
      /\ t.conn[k].left = Len(t.conn[k].frame.load)
      /\ t.conn[k].frame = s.conn[k].frame /\ t.conn[k].message = s.conn[k].message
  BY <1>3, <1>5 DEF ReadsFrom, n
<1> QED BY <1>6 DEF t, n

\* One more of the parts before a payload was read.
LEMMA PartReadSafe ==
    ASSUME NEW s, NEW h, AllSafe(s, h), NEW k \in Conns, s.conn[k].state = "live", ReadsFrom(s.conn[k]),
           s.conn[k].left = Len(s.conn[k].frame.load), NEW where \in {"length", "mask", "payload"}
    PROVE  LET t == ReadOn(s, k, where)
           IN  /\ AllSafe(t, h) /\ Rest(s, t, k) /\ AtHand(t.conn[k], t.ready[k])
               /\ t.conn[k].frame = s.conn[k].frame /\ t.conn[k].message = s.conn[k].message
BY ReadOnSafe DEF ReadsFrom, CanRead

\* What a read leaves of the frame at hand, when it was not the end of one.
GoesOn(s, t, h, k) == AllSafe(t, h) /\ Rest(s, t, k) /\ SameFrame(s, t, k)

\* The end of a payload: the frame is handled.
Ends(s, t, g, h, k, n) ==
    /\ Calling(g, h, k, Calls(WholePart(s.conn[k], n))) /\ AllSafe(t, g) /\ Rest(s, t, k) /\ Over(s, t, k)
    /\ AtHand(s.conn[k], s.ready[k]) /\ s.conn[k].fragment = <<>> /\ n = Len(s.conn[k].frame.load)

\* What is handed on depends on the frame, the message and the fragment.
LEMMA CallsSame ==
    ASSUME NEW c \in Members, NEW d \in Members, d.frame = c.frame, d.message = c.message,
           d.fragment = c.fragment, NEW n
    PROVE  Calls(WholePart(d, n)) = Calls(WholePart(c, n))
BY DEF Calls, WholePart, Members

\* read_handler.
LEMMA ReadRunSafe ==
    ASSUME NEW s, NEW h, AllSafe(s, h), NEW k \in Conns, s.ready[k] # <<>>, s.conn[k].state = "live",
           Head(s.ready[k]).what = "read"
    PROVE  LET e == Head(s.ready[k])
               c == s.conn[k]
               t == read_handler(Popped(s, k), k, e.ok, e.n)
           IN  IF e.ok /\ c.at = "payload" /\ c.left = e.n THEN \E g : Ends(s, t, g, h, k, e.n)
               ELSE GoesOn(s, t, h, k)
<1> DEFINE v == ReadTaken(s, k)
           e == Head(s.ready[k])
           c == s.conn[k]
           t == read_handler(Popped(s, k), k, e.ok, e.n)
<1>0. s \in Servers /\ c \in Members
  BY SafeParts, PartsAre
<1>1. /\ AllSafe(v, h) /\ Rest(s, v, k) /\ ReadsFrom(v.conn[k]) /\ v.conn[k].state = "live"
      /\ v.conn[k].at = c.at /\ v.conn[k].frame = c.frame /\ v.conn[k].message = c.message
      /\ v.conn[k].left = c.left /\ v.conn[k].fragment = <<>> /\ c.fragment = <<>>
      /\ ~HasFrame(v.ready[k]) /\ (HasFrame(s.ready[k]) <=> e.ok)
      /\ e \in Events /\ (c.at = "payload" => e.n <= Len(c.frame.load))
  BY ReadTakenSafe
<1>2. Popped(s, k).conn[k] = c
  BY <1>0 DEF Popped, Servers
<1>3. v = [Popped(s, k) EXCEPT !.conn[k].reading = FALSE]
  BY DEF ReadTaken
<1>4. e.ok \in BOOLEAN /\ e.n \in Nat /\ c.at \in {"header", "length", "mask", "payload"}
  BY <1>0, <1>1 DEF Events, Members
<1>5. /\ ~e.ok => t = ReadFailed(v, k)
      /\ e.ok /\ c.at = "header" =>
           t = ReadOn(LeftIs(v, k, Len(v.conn[k].frame.load)), k, IF c.frame.ext THEN "length" ELSE "mask")
      /\ e.ok /\ c.at = "length" => t = ReadOn(v, k, "mask")
      /\ e.ok /\ c.at = "mask" => t = ReadOn(v, k, "payload")
      /\ e.ok /\ c.at = "payload" => t = PayloadRead(v, k, e.n)
  BY <1>1, <1>2, <1>3 DEF read_handler, LeftIs
<1> HIDE DEF v, t
<1>6. CASE ~e.ok
  <2>1. Onward(v, t, h, k)
    BY <1>1, <1>5, <1>6, ReadFailedSafe DEF ReadsFrom
  <2>2. GoesOn(s, t, h, k)
    BY <1>1, <1>6, <2>1, RestOn DEF Onward, Aside, GoesOn, SameFrame, AtHand
  <2> QED BY <1>6, <2>2 DEF t
<1>7. CASE e.ok /\ c.at # "payload"
  <2>1. /\ AllSafe(t, h) /\ Rest(v, t, k) /\ AtHand(t.conn[k], t.ready[k])
        /\ t.conn[k].frame = v.conn[k].frame /\ t.conn[k].message = v.conn[k].message
    <3>1. CASE c.at = "header"
      <4> DEFINE u == LeftIs(v, k, Len(v.conn[k].frame.load))
                 where == IF c.frame.ext THEN "length" ELSE "mask"
      <4>1. where \in {"length", "mask", "payload"} /\ t = ReadOn(u, k, where)
        BY <1>5, <1>7, <3>1
      <4>2. /\ AllSafe(u, h) /\ Rest(v, u, k) /\ ReadsFrom(u.conn[k]) /\ u.conn[k].state = "live"
            /\ u.conn[k].left = Len(u.conn[k].frame.load)
            /\ u.conn[k].frame = v.conn[k].frame /\ u.conn[k].message = v.conn[k].message
        BY <1>1, LeftIsSafe
      <4> HIDE DEF u, where
      <4>3. /\ AllSafe(t, h) /\ Rest(u, t, k) /\ AtHand(t.conn[k], t.ready[k])
            /\ t.conn[k].frame = u.conn[k].frame /\ t.conn[k].message = u.conn[k].message
        BY <4>1, <4>2, PartReadSafe
      <4> QED BY <4>2, <4>3, RestOn
    <3>2. CASE c.at \in {"length", "mask"}
      <4>1. v.conn[k].left = Len(v.conn[k].frame.load)
        BY <1>1, <3>2 DEF ReadsFrom
      <4>2. \E where \in {"length", "mask", "payload"} : t = ReadOn(v, k, where)
        BY <1>5, <1>7, <3>2
      <4> QED BY <1>1, <4>1, <4>2, PartReadSafe
    <3> QED BY <1>4, <1>7, <3>1, <3>2
  <2>2. GoesOn(s, t, h, k)
    BY <1>1, <1>7, <2>1, RestOn DEF GoesOn, SameFrame, AtHand
  <2> QED BY <1>7, <2>2 DEF t
<1>8. CASE e.ok /\ c.at = "payload"
  <2>0. t = PayloadRead(v, k, e.n) /\ v.conn[k].at = "payload" /\ e.n <= Len(v.conn[k].frame.load)
        /\ v.conn[k].left = Len(v.conn[k].frame.load) /\ v \in Servers /\ v.conn[k] \in Members
    <3>1. v \in Servers
      BY <1>1, SafeParts
    <3> QED BY <1>1, <1>5, <1>8, <3>1, PartsAre DEF ReadsFrom
  <2>1. CASE c.left # e.n
    <3>1. AllSafe(t, h) /\ Rest(v, t, k) /\ SameFrame(v, t, k)
      BY <1>1, <1>4, <2>0, <2>1, PayloadSafe
    <3>2. GoesOn(s, t, h, k)
      BY <1>1, <1>8, <3>1, RestOn DEF GoesOn, SameFrame, AtHand
    <3> QED BY <2>1, <3>2 DEF t
  <2>2. CASE c.left = e.n
    <3>1. PICK g : /\ Calling(g, h, k, Calls(WholePart(v.conn[k], e.n))) /\ AllSafe(t, g)
                   /\ Rest(v, t, k) /\ Over(v, t, k)
      BY <1>1, <1>4, <2>0, <2>2, PayloadSafe
    <3>2. Calls(WholePart(v.conn[k], e.n)) = Calls(WholePart(c, e.n))
      BY <1>0, <1>1, <2>0, CallsSame
    <3>3. Rest(s, t, k)
      BY <1>1, <3>1, RestOn
    <3>4. Over(s, t, k)
      BY <1>1, <3>1 DEF Over
    <3>5. AtHand(c, s.ready[k]) /\ e.n = Len(c.frame.load)
      BY <1>1, <1>8, <2>0, <2>2 DEF AtHand
    <3>6. Ends(s, t, g, h, k, e.n)
      BY <1>1, <3>1, <3>2, <3>3, <3>4, <3>5 DEF Ends
    <3> QED BY <1>8, <2>2, <3>6 DEF t
  <2> QED BY <2>1, <2>2
<1> QED BY <1>4, <1>6, <1>7, <1>8

\* Whether the connection is being closed is set.
ClosingIs(s, k, b) == [s EXCEPT !.conn[k].closing = b]

\* close_connection_ is set, to anything, while the connection is there.
LEMMA ClosingIsSafe ==
    ASSUME NEW s, NEW h, AllSafe(s, h), NEW k \in Conns, s.conn[k].state = "live", NEW b \in BOOLEAN
    PROVE  Onward(s, ClosingIs(s, k, b), h, k) /\ ClosingIs(s, k, b).conn[k].state = "live"
<1> DEFINE t == ClosingIs(s, k, b)
           d == [s.conn[k] EXCEPT !.closing = b]
<1>1. s \in Servers /\ s.conn[k] \in Members /\ FineAt(s, k) /\ s.users \in SUBSET Conns
  BY SafeParts, PartsAre, Subsets
<1>2. Alike(s.conn[k], d) /\ d.called = s.conn[k].called
  BY <1>1 DEF Alike, Members
<1>3. t = [s EXCEPT !.conn = [s.conn EXCEPT ![k] = d]]
  BY <1>1 DEF ClosingIs, Servers
<1> HIDE DEF t, d
<1>4. t = Made(s, k, d, s.ready[k], s.reads, s.writes, s.users)
  BY <1>1, <1>3, ReadySame DEF Made, Servers
<1>5. k \in s.users => ~d.called
  BY <1>1, <1>2 DEF FineAt
<1>6. Onward(s, t, h, k) /\ t.conn[k].state = "live" /\ t.ready[k] = s.ready[k]
  BY <1>1, <1>2, <1>4, <1>5, AlikeSafe
<1> QED BY <1>6 DEF t

\* write_handler.
LEMMA WriteRunSafe ==
    ASSUME NEW s, NEW h, AllSafe(s, h), NEW k \in Conns, s.ready[k] # <<>>, s.conn[k].state = "live",
           Head(s.ready[k]).what = "write"
    PROVE  Onward(s, write_handler(Popped(s, k), k, Head(s.ready[k]).ok), h, k)
<1> DEFINE v == WriteTaken(s, k)
           e == Head(s.ready[k])
           c == s.conn[k]
           t == write_handler(Popped(s, k), k, e.ok)
           u == IF c.queue # <<>> THEN do_write(v, k) ELSE v
<1>0. s \in Servers /\ c \in Members
  BY SafeParts, PartsAre
<1>1. Onward(s, v, h, k) /\ v.conn[k].state = "live" /\ v.conn[k].queue = c.queue
  BY WriteTakenSafe
<1>2. Popped(s, k).conn[k] = c
  BY <1>0 DEF Popped, Servers
<1>3. v = [Popped(s, k) EXCEPT !.conn[k].sending = <<>>]
  BY DEF WriteTaken
<1>4. c.sentClose \in BOOLEAN
  BY <1>0 DEF Members
<1>5. t = IF e.ok /\ ~c.closing THEN ClosingIs(u, k, c.sentClose)
          ELSE check_destroy(ClosingIs(v, k, TRUE), k)
  BY <1>2, <1>3 DEF write_handler, ClosingIs
<1>6. Onward(s, u, h, k) /\ u.conn[k].state = "live" /\ AllSafe(u, h) /\ AllSafe(v, h)
  <2>1. CASE c.queue # <<>>
    <3>1. Onward(v, do_write(v, k), h, k) /\ do_write(v, k).conn[k].state = "live"
      BY <1>1, <2>1, WriteSafe DEF Onward
    <3> QED BY <1>1, <2>1, <3>1, OnwardOn DEF Onward
  <2>2. CASE c.queue = <<>>
    BY <1>1, <2>2 DEF Onward
  <2> QED BY <2>1, <2>2
<1> HIDE DEF u, v, t
<1>7. CASE e.ok /\ ~c.closing
  <2>1. Onward(u, ClosingIs(u, k, c.sentClose), h, k)
    BY <1>4, <1>6, ClosingIsSafe
  <2>2. Onward(s, t, h, k)
    BY <1>5, <1>6, <1>7, <2>1, OnwardOn
  <2> QED BY <2>2 DEF t
<1>8. CASE ~(e.ok /\ ~c.closing)
  <2> DEFINE w == ClosingIs(v, k, TRUE)
  <2>1. Onward(v, w, h, k) /\ w.conn[k].state = "live"
    BY <1>1, <1>6, ClosingIsSafe
  <2> HIDE DEF w
  <2>2. Onward(w, check_destroy(w, k), h, k)
    BY <2>1, DestroySafe DEF Onward
  <2>3. t = check_destroy(w, k)
    BY <1>5, <1>8 DEF w
  <2>4. Onward(s, t, h, k)
    BY <1>1, <2>1, <2>2, <2>3, OnwardOn
  <2> QED BY <2>4 DEF t
<1> QED BY <1>7, <1>8

\* What leaves alone what is being read leaves the frame at hand.
LEMMA OnwardGoesOn ==
    ASSUME NEW s, NEW t, NEW h, NEW k, Onward(s, t, h, k)
    PROVE  GoesOn(s, t, h, k)
BY DEF Onward, Aside, GoesOn, SameFrame, AtHand

\* A call of close is made.
LEMMA CloseRunSafe ==
    ASSUME NEW s, NEW h, AllSafe(s, h), NEW k \in Conns, s.ready[k] # <<>>, s.conn[k].state = "live",
           Head(s.ready[k]).what = "close"
    PROVE  Onward(s, close(Popped(s, k), k), h, k)
<1>1. Onward(s, Popped(s, k), h, k) /\ Popped(s, k).conn = s.conn
  BY CloseTakenSafe
<1>2. Onward(Popped(s, k), close(Popped(s, k), k), h, k)
  BY <1>1, CloseSafe DEF Onward
<1> QED BY <1>1, <1>2, OnwardOn

\* The frame at hand is the one that was, or it has been handled.
LEMMA RunSafe ==
    ASSUME NEW k \in Conns, AllSafe(ws, handed), Run(k)
    PROVE  \/ GoesOn(ws, ws', handed, k) /\ handed' = handed
           \/ \E n \in Nat : Ends(ws, ws', handed', handed, k, n)
<1> DEFINE e == Head(ws.ready[k])
           c == ws.conn[k]
           s == Popped(ws, k)
           over == e.what = "read" /\ e.ok /\ c.at = "payload" /\ c.left = e.n
<1>0. /\ ws \in Servers /\ c \in Members /\ ws.ready[k] \in Seq(Events) /\ ws.ready[k] # <<>>
      /\ handed \in [Conns -> Seq(Units)]
  BY SafeParts, PartsAre DEF Run
<1>1. e \in Events
  BY <1>0, TailIs
<1>2. /\ c.state = "deleted" => ws' = [s EXCEPT !.broken = @ \cup {k}]
      /\ c.state # "deleted" =>
           /\ e.what = "read" => ws' = read_handler(s, k, e.ok, e.n)
           /\ e.what = "write" => ws' = write_handler(s, k, e.ok)
           /\ e.what = "send" => ws' = Sent(s, k, e.item)
           /\ e.what = "close" => ws' = close(s, k)
  BY DEF Run, Popped
<1>3. handed' = [handed EXCEPT ![k] = IF over THEN @ \o Calls(WholePart(c, e.n)) ELSE @]
  BY DEF Run, WholePart
<1> HIDE DEF s
<1>4. over => Calling(handed', handed, k, Calls(WholePart(c, e.n)))
  BY <1>3 DEF Calling
<1>5. ~over => handed' = handed
  BY <1>0, <1>3
<1>6. CASE c.state = "deleted"
  <2>1. GoesOn(ws, ws', handed, k) /\ ~over
    <3> DEFINE t == [Popped(ws, k) EXCEPT !.broken = @ \cup {k}]
    <3>1. AllSafe(t, handed) /\ Rest(ws, t, k) /\ SameFrame(ws, t, k) /\ ~(e.what = "read" /\ e.ok)
      BY <1>0, <1>6, DeletedTakenSafe
    <3>2. ws' = t
      BY <1>2, <1>6 DEF s
    <3> QED BY <3>1, <3>2 DEF GoesOn
  <2> QED BY <1>5, <2>1
<1>7. CASE c.state # "deleted"
  <2>0. c.state = "live"
    BY <1>0, <1>7, LiveWithHandlers
  <2>1. CASE e.what = "read"
    <3>0. ws' = read_handler(Popped(ws, k), k, e.ok, e.n)
      BY <1>2, <1>7, <2>1 DEF s
    <3>1. CASE over
      <4>1. PICK g : Ends(ws, ws', g, handed, k, e.n)
        BY <1>0, <2>0, <2>1, <3>0, <3>1, ReadRunSafe
      <4>2. g = handed'
        BY <1>4, <3>1, <4>1 DEF Ends, Calling
      <4>3. e.n \in Nat
        BY <1>1 DEF Events
      <4> QED BY <4>1, <4>2, <4>3
    <3>2. CASE ~over
      BY <1>0, <1>5, <2>0, <2>1, <3>0, <3>2, ReadRunSafe
    <3> QED BY <3>1, <3>2
  <2>2. CASE e.what # "read"
    <3>1. Onward(ws, ws', handed, k)
      <4>1. e.what \in {"read", "write", "send", "close"}
        BY <1>1 DEF Events
      <4>2. CASE e.what = "write"
        BY <1>0, <1>2, <1>7, <2>0, <4>2, WriteRunSafe DEF s
      <4>3. CASE e.what = "send"
        BY <1>0, <1>2, <1>7, <2>0, <4>3, SendTakenSafe DEF s
      <4>4. CASE e.what = "close"
        BY <1>0, <1>2, <1>7, <2>0, <4>4, CloseRunSafe DEF s
      <4> QED BY <2>2, <4>1, <4>2, <4>3, <4>4
    <3> QED BY <1>5, <2>2, <3>1, OnwardGoesOn
  <2> QED BY <2>1, <2>2
<1> QED BY <1>6, <1>7

-----------------------------------------------------------------------------
(* The network.                                                             *)

\* What is pending is of a connection that is there.
LEMMA PendingLive ==
    ASSUME NEW s, NEW h, AllSafe(s, h), NEW k \in Conns
    PROVE  /\ k \in s.reads => s.conn[k].state = "live" /\ s.conn[k].reading /\ ~HasFrame(s.ready[k])
           /\ k \in s.writes => s.conn[k].state = "live" /\ s.conn[k].sending # <<>> /\ s.conn[k].open
           /\ k \in s.users => s.conn[k].state = "live" /\ ~s.conn[k].called
BY SafeParts DEF FineAt, OneAtATime, OnlyLive, HasFrame

\* A read that is pending is answered.
ReadEnded(s, k, f, ok, n) ==
    Made(s, k, [s.conn[k] EXCEPT !.frame = f], Append(s.ready[k], Event("read", ok, n, NoItem)),
         s.reads \ {k}, s.writes, s.users)

\* The next header has its frame; of a payload there is not more than there is.
MayRead(s, k, f, n) ==
    /\ k \in s.reads /\ f \in Frame /\ n \in Nat
    /\ s.conn[k].at # "header" => f = s.conn[k].frame
    /\ s.conn[k].at = "payload" => n <= Len(s.conn[k].frame.load)

\* All is well after the answer, and a frame is at hand if it was no error.
LEMMA ReadEndsSafe ==
    ASSUME NEW s, NEW h, AllSafe(s, h), NEW k \in Conns, NEW f, NEW ok \in BOOLEAN, NEW n,
           MayRead(s, k, f, n),
           NEW t, t = ReadEnded(s, k, f, ok, n)
    PROVE  /\ AllSafe(t, h) /\ Rest(s, t, k) /\ t.conn[k].frame = f /\ t.conn[k].message = s.conn[k].message
           /\ t.conn[k].at = s.conn[k].at /\ ~HasFrame(s.ready[k]) /\ (HasFrame(t.ready[k]) <=> ok)
<1> DEFINE c == s.conn[k]
           d == [c EXCEPT !.frame = f]
           e == Event("read", ok, n, NoItem)
           q == Append(s.ready[k], e)
           R == s.reads \ {k}
<1>0. /\ k \in s.reads /\ f \in Frame /\ n \in Nat
      /\ s.conn[k].at # "header" => f = s.conn[k].frame
      /\ s.conn[k].at = "payload" => n <= Len(s.conn[k].frame.load)
  BY DEF MayRead
<1>1. /\ s \in Servers /\ FineAt(s, k) /\ c \in Members /\ s.ready[k] \in Seq(Events)
      /\ s.reads \in SUBSET Conns /\ s.writes \in SUBSET Conns /\ s.users \in SUBSET Conns
  BY SafeParts, PartsAre, Subsets
<1>2. /\ d \in Members /\ d.frame = f /\ d.state = c.state /\ d.open = c.open /\ d.sending = c.sending
      /\ d.queue = c.queue /\ d.at = c.at /\ d.left = c.left /\ d.fragment = c.fragment
      /\ d.message = c.message /\ d.reading = c.reading /\ d.called = c.called
  BY <1>0, <1>1 DEF Members
<1>3. e \in Events /\ e.what = "read" /\ e.ok = ok /\ e.n = n /\ \A x \in Conns : ~Mine(x, Carried(e))
  <2>1. NoItem \in WsItems /\ NoItem.is = "none"
    BY EmptyUnits DEF NoItem, Item, WsItems
  <2> QED BY <1>0, <2>1 DEF Event, Events, Mine, Carried
<1> HIDE DEF d, e
<1>4. q \in Seq(Events)
  BY <1>1, <1>3, PostIs
<1>5. /\ Kept(s, t, k) /\ t \in Servers /\ t.conn[k] = d /\ t.ready[k] = Append(s.ready[k], e)
      /\ t.reads = s.reads \ {k} /\ t.writes = s.writes /\ t.users = s.users
  <2>1. t = Made(s, k, d, q, R, s.writes, s.users)
    BY DEF d, e, ReadEnded
  <2>2. R \in SUBSET Conns /\ R \ {k} = s.reads \ {k}
    BY <1>1
  <2> HIDE DEF q, R
  <2>3. /\ Kept(s, t, k) /\ t \in Servers /\ t.conn[k] = d /\ t.ready[k] = q
        /\ t.reads = R /\ t.writes = s.writes /\ t.users = s.users
    BY <1>1, <1>2, <1>4, <2>1, <2>2, MadeIs
  <2> QED BY <2>3 DEF q, R
<1>6. c.state = "live" /\ c.reading /\ ~HasFrame(s.ready[k])
  BY <1>0, PendingLive
<1>7. FromTheBeginning(d, s.ready[k])
  BY <1>0, <1>1, <1>2 DEF FineAt, FromTheBeginning
<1>8. PostedTo(s, t, k, e)
  <2>1. (k \in s.writes => c.open) /\ (k \in s.users => ~c.called)
    BY <1>1 DEF FineAt
  <2> QED BY <1>1, <1>2, <1>3, <1>5, <1>6, <1>7, <2>1, <1>0 DEF PostedTo
<1>9. SameButReady(s, t, k)
  BY <1>2, <1>5 DEF SameButReady, Under
<1>10. AllSafe(t, h) /\ Rest(s, t, k) /\ (HasFrame(t.ready[k]) <=> HasFrame(s.ready[k]) \/ (e.what = "read" /\ e.ok))
  BY <1>3, <1>5, <1>8, <1>9, SafePosted
<1> QED BY <1>2, <1>3, <1>5, <1>6, <1>10

\* A call of close is posted.
LEMMA KickSafe ==
    ASSUME NEW s, NEW h, AllSafe(s, h), NEW k \in Conns, k \in s.users
    PROVE  GoesOn(s, Post(s, k, Result("close", TRUE)), h, k)
<1> DEFINE e == Result("close", TRUE)
           t == Post(s, k, e)
           q == Append(s.ready[k], e)
<1>1. /\ s \in Servers /\ FineAt(s, k) /\ s.conn[k] \in Members /\ s.ready[k] \in Seq(Events)
      /\ s.reads \in SUBSET Conns /\ s.writes \in SUBSET Conns /\ s.users \in SUBSET Conns
  BY SafeParts, PartsAre, Subsets
<1>2. e \in Events /\ e.what = "close" /\ \A x : ~Mine(x, Carried(e))
  BY ResultIs
<1>3. t = Made(s, k, s.conn[k], q, s.reads, s.writes, s.users)
  BY <1>1, MadePost
<1>4. q \in Seq(Events)
  BY <1>1, <1>2, PostIs
<1> HIDE DEF t, e
<1>5. /\ Kept(s, t, k) /\ t \in Servers /\ t.conn[k] = s.conn[k] /\ t.ready[k] = Append(s.ready[k], e)
      /\ t.reads = s.reads /\ t.writes = s.writes /\ t.users = s.users
  <2> HIDE DEF q
  <2>1. /\ Kept(s, t, k) /\ t \in Servers /\ t.conn[k] = s.conn[k] /\ t.ready[k] = q
        /\ t.reads = s.reads /\ t.writes = s.writes /\ t.users = s.users
    BY <1>1, <1>3, <1>4, MadeIs
  <2> QED BY <2>1 DEF q
<1>6. s.conn[k].state = "live" /\ ~s.conn[k].called
  BY PendingLive
<1>7. PostedTo(s, t, k, e)
  BY <1>1, <1>2, <1>5, <1>6 DEF PostedTo, FineAt
<1>8. SameButReady(s, t, k)
  BY <1>5 DEF SameButReady, Under
<1>9. AllSafe(t, h) /\ Rest(s, t, k) /\ (HasFrame(t.ready[k]) <=> HasFrame(s.ready[k]) \/ (e.what = "read" /\ e.ok))
  BY <1>2, <1>5, <1>7, <1>8, SafePosted
<1>10. GoesOn(s, t, h, k)
  BY <1>2, <1>5, <1>9 DEF GoesOn, SameFrame, AtHand
<1> QED BY <1>10 DEF t, e

\* A write that is pending is answered: what was written has arrived, unless
\* the client is gone.
Answered(s, k, ok) == Post([s EXCEPT !.writes = @ \ {k}], k, Result("write", ok))

\* Of the connection, only the pending write and the queue are changed.
LEMMA WriteEndsIs ==
    ASSUME NEW s, NEW h, AllSafe(s, h), NEW k \in Conns, k \in s.writes, NEW ok \in BOOLEAN,
           NEW t, t = Answered(s, k, ok)
    PROVE  /\ Kept(s, t, k) /\ t \in Servers /\ t.conn[k] = s.conn[k]
           /\ t.ready[k] = Append(s.ready[k], Result("write", ok))
           /\ t.reads = s.reads /\ t.writes = s.writes \ {k} /\ t.users = s.users
           /\ FineAt(t, k) /\ Rest(s, t, k) /\ SameFrame(s, t, k)
<1> DEFINE e == Result("write", ok)
           q == Append(s.ready[k], e)
           W == s.writes \ {k}
<1>1. /\ s \in Servers /\ FineAt(s, k) /\ s.conn[k] \in Members /\ s.ready[k] \in Seq(Events)
      /\ s.reads \in SUBSET Conns /\ s.writes \in SUBSET Conns /\ s.users \in SUBSET Conns
  BY SafeParts, PartsAre, Subsets
<1>2. e \in Events /\ e.what = "write"
  BY ResultIs
<1>3. t = Made(s, k, s.conn[k], q, s.reads, W, s.users)
  <2>1. s.conn = [s.conn EXCEPT ![k] = s.conn[k]]
    BY <1>1, ConnSame
  <2> DEFINE cs == [s.conn EXCEPT ![k] = s.conn[k]]
  <2> HIDE DEF e, cs
  <2>2. t = [s EXCEPT !.conn = s.conn, !.ready = [s.ready EXCEPT ![k] = q],
                      !.reads = s.reads, !.writes = W, !.users = s.users]
    BY <1>1 DEF Answered, Post, Servers, e
  <2> QED BY <2>1, <2>2 DEF Made, cs
<1>4. q \in Seq(Events)
  BY <1>1, <1>2, PostIs
<1> HIDE DEF e
<1>5. /\ Kept(s, t, k) /\ t \in Servers /\ t.conn[k] = s.conn[k] /\ t.ready[k] = Append(s.ready[k], e)
      /\ t.reads = s.reads /\ t.writes = s.writes \ {k} /\ t.users = s.users
  <2>1. W \in SUBSET Conns /\ W \ {k} = s.writes \ {k}
    BY <1>1
  <2> HIDE DEF q, W
  <2>2. /\ Kept(s, t, k) /\ t \in Servers /\ t.conn[k] = s.conn[k] /\ t.ready[k] = q
        /\ t.reads = s.reads /\ t.writes = W /\ t.users = s.users
    BY <1>1, <1>3, <1>4, <2>1, MadeIs
  <2> QED BY <2>2 DEF q, W
<1>6. s.conn[k].state = "live" /\ s.conn[k].sending # <<>>
  BY PendingLive
<1>7. PostedTo(s, t, k, e)
  BY <1>1, <1>2, <1>5, <1>6 DEF PostedTo, FineAt
<1>8. FineAt(t, k)
  BY <1>1, <1>7, FinePosted
<1>9. HasFrame(t.ready[k]) <=> HasFrame(s.ready[k])
  BY <1>1, <1>2, <1>5, HasFramePost
<1>10. Rest(s, t, k) /\ SameFrame(s, t, k)
  BY <1>5, <1>9, KeptRest DEF SameFrame, AtHand
<1> QED BY <1>5, <1>8, <1>10 DEF e

\* What was written follows what has arrived, unless it is lost with the client.
LEMMA WriteEndsOrdered ==
    ASSUME NEW s, NEW h, AllSafe(s, h), NEW k \in Conns, k \in s.writes, NEW ok \in BOOLEAN,
           NEW t, t = Answered(s, k, ok), NEW gone, NEW g \in Seq(WsItems),
           IF k \in gone THEN g = got[k] ELSE k \notin hung /\ g = got[k] \o s.conn[k].sending,
           got[k] \in Seq(WsItems), NEW x \in Conns
    PROVE  Ordered(x, k, t, g, gone, h[x])
<1> DEFINE u == [s EXCEPT !.writes = @ \ {k}]
           e == Result("write", ok)
<1>1. /\ t \in Servers /\ t.conn[k] = s.conn[k] /\ t.ready[k] = Append(s.ready[k], e)
      /\ t.writes = s.writes \ {k} /\ t.users = s.users
  BY WriteEndsIs
<1>2. e \in Events /\ \A y : ~Mine(y, Carried(e))
  BY ResultIs
<1>3. /\ s \in Servers /\ Ordered(x, k, s, got[k], hung, h[x]) /\ h[x] \in Seq(Units)
  BY SafeParts
<1>4. /\ u \in Servers /\ u.conn = s.conn /\ u.ready = s.ready /\ u.writes = s.writes \ {k} /\ u.users = s.users
  BY <1>3 DEF Servers
<1> HIDE DEF u, e
<1>5. Ordered(x, k, u, g, gone, h[x])
  <2>1. CASE k \in gone
    BY <1>3, <1>4, <2>1, OrderedGone
  <2>2. CASE k \notin gone
    <3>1. s.conn[k].open
      BY PendingLive
    <3>2. Ordered(x, k, s, got[k], gone, h[x])
      BY <1>3, <2>2 DEF Ordered
    <3>3. Ordered(x, k, u, got[k] \o s.conn[k].sending, gone, h[x])
      BY <1>3, <1>4, <2>2, <3>1, <3>2, OrderedWritten
    <3> QED BY <2>2, <3>3
  <2> QED BY <2>1, <2>2
<1>6. SameButReady(u, t, k) /\ t.ready[k] = Append(u.ready[k], e)
  BY <1>1, <1>4 DEF SameButReady, Under
<1> QED BY <1>1, <1>2, <1>3, <1>4, <1>5, <1>6, OrderedPost

-----------------------------------------------------------------------------
(* A connection is made.                                                    *)

\* What a connection is that has read and written nothing.
Blank(d) ==
    /\ d \in Members /\ d.sending = <<>> /\ d.queue = <<>> /\ ~d.reading /\ d.fragment = <<>> /\ ~d.called
    /\ d.at = "header" /\ d.frame = NoFrame /\ d.message = <<>>

\* A connection that is not made is blank, and nobody has sent to it.
LEMMA FreeIs ==
    ASSUME NEW s, NEW h, AllSafe(s, h), NEW k \in Conns, s.conn[k].state = "free"
    PROVE  /\ s.conn[k] = Fresh /\ s.ready[k] = <<>> /\ got[k] = <<>>
           /\ k \notin s.reads /\ k \notin s.writes /\ k \notin s.users /\ Blank(s.conn[k])
<1>1. s \in Servers /\ FineAt(s, k) /\ s.conn[k] \in Members /\ got[k] = <<>>
  BY SafeParts, PartsAre
<1>5. s.conn[k] = Fresh /\ s.ready[k] = <<>> /\ k \notin s.users
  BY <1>1 DEF FineAt, OnlyLive
<1>2. /\ s.conn[k] = Fresh /\ s.ready[k] = <<>> /\ k \notin s.users /\ ~s.conn[k].reading
      /\ s.conn[k].sending = <<>>
  BY <1>5 DEF Fresh
<1>3. k \notin s.reads /\ k \notin s.writes
  BY <1>1, <1>2 DEF FineAt, OneAtATime
<1>4. Blank(s.conn[k])
  BY <1>1, <1>2 DEF Blank, Fresh
<1> QED BY <1>1, <1>2, <1>3, <1>4

\* One that was refused is no user.
IsNew(d, us) == Blank(d) /\ d.state \in {"live", "deleted"} /\ (d.state # "live" => ~d.open /\ ~us)

\* A blank connection can be made, and can be deleted at once.
LEMMA NewSafe ==
    ASSUME NEW s, NEW h, AllSafe(s, h), NEW k \in Conns, s.conn[k].state = "free",
           NEW d, NEW U \in SUBSET Conns, U \ {k} = s.users \ {k}, IsNew(d, k \in U),
           NEW t, t = Made(s, k, d, s.ready[k], s.reads, s.writes, U)
    PROVE  GoesOn(s, t, h, k) /\ t.conn[k] = d /\ t.users = U
<1>0. Blank(d) /\ d.state \in {"live", "deleted"} /\ (d.state # "live" => ~d.open /\ k \notin U)
  BY DEF IsNew
<1>1. /\ s \in Servers /\ s.ready[k] \in Seq(Events)
      /\ s.reads \in SUBSET Conns /\ s.writes \in SUBSET Conns /\ s.users \in SUBSET Conns
  BY SafeParts, PartsAre, Subsets
<1>2. /\ s.conn[k] = Fresh /\ s.ready[k] = <<>> /\ got[k] = <<>>
      /\ k \notin s.reads /\ k \notin s.writes /\ Blank(s.conn[k])
  BY FreeIs
<1>3. /\ Kept(s, t, k) /\ t \in Servers /\ t.conn[k] = d /\ t.ready[k] = s.ready[k]
      /\ t.reads = s.reads /\ t.writes = s.writes /\ t.users = U
  BY <1>0, <1>1, MadeIs DEF Blank
<1>4. FineAt(t, k)
  <2>1. OneAtATime("read", k \in t.reads, t.ready[k], t.conn[k].reading)
    BY <1>2, <1>3 DEF OneAtATime
  <2>2. OneAtATime("write", k \in t.writes, t.ready[k], t.conn[k].sending # <<>>)
    BY <1>2, <1>3 DEF OneAtATime
  <2>3. FromTheBeginning(t.conn[k], t.ready[k])
    BY <1>0, <1>2, <1>3 DEF FromTheBeginning, Blank
  <2>4. OnlyLive(t.conn[k], k \in t.users \/ k \in t.reads, t.ready[k])
    BY <1>0, <1>2, <1>3 DEF OnlyLive, Blank
  <2> QED BY <1>0, <1>2, <1>3, <2>1, <2>2, <2>3, <2>4 DEF FineAt, Blank
<1>5. ASSUME NEW x \in Conns PROVE Ordered(x, k, t, got[k], hung, h[x])
  <2>1. h[x] \in Seq(Units)
    BY SafeParts
  <2>2. Under(t, k) = <<>> /\ t.conn[k].queue = <<>> /\ t.ready[k] = <<>>
    BY <1>0, <1>2, <1>3 DEF Under, Blank
  <2>3. Ordered(x, k, t, <<>>, hung, h[x])
    BY <2>1, <2>2, OrderedOpens
  <2> QED BY <1>2, <2>3
<1>6. AllSafe(t, h) /\ Rest(s, t, k)
  <2>1. Safe(t, h, k)
    BY <1>0, <1>3, <1>4, <1>5 DEF Safe
  <2> QED BY <1>3, <2>1, KeptSafe, KeptRest
<1>7. SameFrame(s, t, k)
  BY <1>0, <1>2, <1>3 DEF SameFrame, AtHand, Blank
<1> QED BY <1>3, <1>6, <1>7 DEF GoesOn

\* users.insert comes after the first write, and could as well come before it.
UserToo(s, k) == [s EXCEPT !.users = @ \cup {k}]

\* The two commute.
LEMMA UserFirst ==
    ASSUME NEW s \in Servers, NEW k \in Conns
    PROVE  UserToo(do_write(s, k), k) = do_write(UserToo(s, k), k)
<1>1. UserToo(s, k).conn[k] = s.conn[k]
  BY DEF UserToo, Servers
<1>2. CASE s.conn[k].sending # <<>>
  BY <1>1, <1>2 DEF do_write
<1>3. CASE s.conn[k].sending = <<>> /\ s.conn[k].open
  BY <1>1, <1>3 DEF do_write, UserToo, Servers
<1>4. CASE s.conn[k].sending = <<>> /\ ~s.conn[k].open
  BY <1>1, <1>4 DEF do_write, UserToo, Servers, Post
<1> QED BY <1>2, <1>3, <1>4

\* The connection is there, and its socket open (websocket.h:39).
Opened(s, k) == [s EXCEPT !.conn[k].state = "live", !.conn[k].open = TRUE]

\* start, with the user inserted first.
LEMMA StartedIs ==
    ASSUME NEW s \in Servers, NEW k \in Conns
    PROVE  Started(s, k) = do_read(Sent(UserToo(Opened(s, k), k), k, Item("hello", k, <<>>)), k)
<1> DEFINE t == Opened(s, k)
           item == Item("hello", k, <<>>)
           u == Enqueued(t, k, item)
<1>1. t \in Servers
  <2>1. [s.conn[k] EXCEPT !.state = "live", !.open = TRUE] \in Members
    BY PartsAre DEF Members
  <2> DEFINE d == [s.conn[k] EXCEPT !.state = "live", !.open = TRUE]
  <2>2. t = [s EXCEPT !.conn = [s.conn EXCEPT ![k] = d]]
    BY DEF Opened, Servers
  <2> HIDE DEF d, t
  <2> QED BY <2>1, <2>2 DEF Servers, d
<1>2. item \in WsItems
  BY EmptyUnits DEF Item, WsItems
<1>3. Started(s, k) = do_read(UserToo(Sent(t, k, item), k), k)
  BY DEF Started, Opened, UserToo
<1> HIDE DEF t, item
<1>4. u \in Servers
  BY <1>1, <1>2, EnqueuedIs
<1>5. Enqueued(UserToo(t, k), k, item) = UserToo(u, k)
  BY <1>1 DEF Enqueued, UserToo, Servers
<1>6. Sent(t, k, item) = do_write(u, k) /\ Sent(UserToo(t, k), k, item) = do_write(Enqueued(UserToo(t, k), k, item), k)
  BY DEF Sent, Enqueued
<1> HIDE DEF u
<1>7. UserToo(do_write(u, k), k) = do_write(UserToo(u, k), k)
  BY <1>4, UserFirst
<1>8. Started(s, k) = do_read(Sent(UserToo(t, k), k, item), k)
  BY <1>3, <1>5, <1>6, <1>7
<1> QED BY <1>8 DEF t, item

\* start.
LEMMA StartedSafe ==
    ASSUME NEW s, NEW h, AllSafe(s, h), NEW k \in Conns, s.conn[k].state = "free"
    PROVE  GoesOn(s, Started(s, k), h, k)
<1> DEFINE d == [s.conn[k] EXCEPT !.state = "live", !.open = TRUE]
           t == UserToo(Opened(s, k), k)
           item == Item("hello", k, <<>>)
           v == Sent(t, k, item)
           U == s.users \cup {k}
<1>1. s \in Servers /\ s.conn[k] \in Members /\ Blank(s.conn[k]) /\ U \in SUBSET Conns /\ U \ {k} = s.users \ {k}
  BY SafeParts, PartsAre, FreeIs, Subsets
<1>2. Blank(d) /\ d.state = "live"
  BY <1>1 DEF Blank, Members
<1>3. t = Made(s, k, d, s.ready[k], s.reads, s.writes, U)
  <2>1. t = [s EXCEPT !.conn = [s.conn EXCEPT ![k] = d], !.users = U]
    BY <1>1 DEF UserToo, Opened, Servers
  <2> HIDE DEF t, d, U
  <2> QED BY <1>1, <2>1, ReadySame DEF Made, Servers
<1>4. Started(s, k) = do_read(v, k)
  BY <1>1, StartedIs
<1>5. item \in WsItems /\ item.is # "message"
  BY EmptyUnits DEF Item, WsItems
<1> HIDE DEF t, d, item, U
<1>6. GoesOn(s, t, h, k) /\ t.conn[k] = d
  <2>1. IsNew(d, k \in U)
    BY <1>2 DEF IsNew
  <2>2. U \in SUBSET Conns /\ U \ {k} = s.users \ {k}
    BY <1>1
  <2> QED BY <1>3, <2>1, <2>2, NewSafe
<1>7. Onward(t, v, h, k) /\ v.conn[k].state = "live"
  BY <1>2, <1>5, <1>6, SentSafe DEF GoesOn
<1> HIDE DEF v
<1>8. ReadsFrom(v.conn[k])
  BY <1>2, <1>6, <1>7 DEF ReadsFrom, Onward, Aside, Blank
<1>13. CanRead(v.conn[k], v.ready[k])
  BY <1>7 DEF CanRead
<1>9. AllSafe(do_read(v, k), h) /\ Rest(v, do_read(v, k), k) /\ SameFrame(v, do_read(v, k), k)
  BY <1>7, <1>8, <1>13, ReadSafe DEF Onward
<1>10. SameFrame(t, v, k)
  BY <1>7 DEF Onward, Aside, SameFrame, AtHand
<1>11. Rest(s, do_read(v, k), k)
  BY <1>6, <1>7, <1>9, RestOn DEF GoesOn, Onward
<1>12. SameFrame(s, do_read(v, k), k)
  BY <1>6, <1>9, <1>10 DEF GoesOn, SameFrame
<1> QED BY <1>4, <1>9, <1>11, <1>12 DEF GoesOn

\* The constructor (websocket.h:39-73), which starts the connection or refuses it.
LEMMA UpgradeSafe ==
    ASSUME NEW k \in Conns, AllSafe(ws, handed), Upgrade(k)
    PROVE  GoesOn(ws, ws', handed, k)
<1>1. ws.conn[k].state = "free"
  BY DEF Upgrade
<1>2. CASE ws' = Started(ws, k)
  BY <1>1, <1>2, StartedSafe
<1>3. CASE ws' = [ws EXCEPT !.conn[k].state = "deleted"]
  <2> DEFINE d == [ws.conn[k] EXCEPT !.state = "deleted"]
  <2>1. ws \in Servers /\ ws.conn[k] \in Members /\ Blank(ws.conn[k]) /\ ws.conn[k] = Fresh /\ k \notin ws.users
        /\ ws.users \in SUBSET Conns
    BY <1>1, SafeParts, PartsAre, FreeIs, Subsets
  <2>2. Blank(d) /\ d.state = "deleted" /\ ~d.open
    <3>1. ws.conn[k].open = FALSE
      BY <2>1 DEF Fresh
    <3> QED BY <2>1, <3>1 DEF Blank, Members
  <2>3. ws' = Made(ws, k, d, ws.ready[k], ws.reads, ws.writes, ws.users)
    <3>1. ws' = [ws EXCEPT !.conn = [ws.conn EXCEPT ![k] = d]]
      BY <1>3, <2>1 DEF Servers
    <3> HIDE DEF d
    <3> QED BY <2>1, <3>1, ReadySame DEF Made, Servers
  <2>4. IsNew(d, k \in ws.users)
    BY <2>1, <2>2 DEF IsNew
  <2> HIDE DEF d
  <2> QED BY <1>1, <2>1, <2>3, <2>4, NewSafe
<1> QED BY <1>2, <1>3 DEF Upgrade

-----------------------------------------------------------------------------
(* What was said, and what was handed on.                                   *)

\* The same is at hand.
LEMMA CompleteSame ==
    ASSUME NEW c, NEW d, NEW q, NEW p, NEW i, NEW all, NEW h, AllHanded(c, q, i, all, h),
           d.message = c.message, d.frame = c.frame, AtHand(d, p) <=> AtHand(c, q)
    PROVE  AllHanded(d, p, i, all, h)
<1>1. InHand(d, p) <=> InHand(c, q)
  BY DEF InHand, AtHand
<1>2. (IF InHand(d, p) THEN 1 ELSE 0) = (IF InHand(c, q) THEN 1 ELSE 0)
  BY <1>1
<1> QED BY <1>1, <1>2 DEF AllHanded, AtHand

\* The parts of AllHanded.
LEMMA CompleteParts ==
    ASSUME NEW c, NEW q, NEW i, NEW all, NEW h \in Seq(Units), AllHanded(c, q, i, all, h)
    PROVE  /\ c.message = <<>> /\ (AtHand(c, q) => Whole(c.frame)) /\ \A j \in DOMAIN i : Whole(i[j])
           /\ Len(h) <= Len(all) /\ \A j \in 1 .. Len(h) : h[j] = all[j]
           /\ InHand(c, q) => /\ Len(h) + 1 <= Len(all) /\ c.frame.load = all[Len(h) + 1]
                              /\ Follows(Texts(i), i, all, Len(h) + 1, Len(all))
           /\ ~InHand(c, q) => Follows(Texts(i), i, all, Len(h), Len(all))
<1>1. Len(h) + 0 = Len(h)
  OBVIOUS
<1> QED BY <1>1 DEF AllHanded, AtHand

\* AllHanded from its parts.
LEMMA CompleteFrom ==
    ASSUME NEW c, NEW q, NEW i, NEW all, NEW h \in Seq(Units),
           c.message = <<>>, AtHand(c, q) => Whole(c.frame), \A j \in DOMAIN i : Whole(i[j]),
           Len(h) <= Len(all), \A j \in 1 .. Len(h) : h[j] = all[j],
           InHand(c, q) => /\ Len(h) + 1 <= Len(all) /\ c.frame.load = all[Len(h) + 1]
                           /\ Follows(Texts(i), i, all, Len(h) + 1, Len(all)),
           ~InHand(c, q) => Follows(Texts(i), i, all, Len(h), Len(all))
    PROVE  AllHanded(c, q, i, all, h)
<1>1. Len(h) + 0 = Len(h)
  OBVIOUS
<1> QED BY <1>1 DEF AllHanded, AtHand

\* A frame is handled: a text is handed on, whole.
LEMMA CallsWhole ==
    ASSUME NEW c \in Members, c.fragment = <<>>, c.message = <<>>, Whole(c.frame)
    PROVE  Calls(WholePart(c, Len(c.frame.load))) = IF c.frame.op = "text" THEN <<c.frame.load>> ELSE <<>>
<1> DEFINE d == WholePart(c, Len(c.frame.load))
           whole == c.frame.load
<1>1. whole \in Units
  BY DEF Members, Frame
<1>2. SubSeq(whole, 1, Len(whole)) = whole /\ <<>> \o whole = whole /\ Len(<<>>) = 0 /\ Len(whole) \in Nat
  BY <1>1 DEF Units
<1>3. d.message = <<>> /\ d.frame = c.frame
  BY DEF WholePart, Members
<1>4. d.fragment = whole
  BY <1>2 DEF WholePart, Members
<1> HIDE DEF d
<1>5. CASE c.frame.op = "text"
  BY <1>2, <1>3, <1>4, <1>5 DEF Calls, Whole, d
<1>6. CASE c.frame.op # "text"
  BY <1>3, <1>6 DEF Calls, Whole, d
<1> QED BY <1>5, <1>6 DEF d

\* The text that was at hand is now the last that was handed on (websocket.h:397-403).
LEMMA CompleteEnds ==
    ASSUME NEW c \in Members, NEW d, NEW q, NEW p, NEW i, NEW all, NEW h \in Seq(Units), NEW g,
           AllHanded(c, q, i, all, h), AtHand(c, q), c.fragment = <<>>,
           g = h \o Calls(WholePart(c, Len(c.frame.load))),
           d.frame = c.frame, AtHand(d, p) => c.frame.op = "close",
           c.frame.op \in Parts /\ c.frame.fin => d.message = <<>>,
           c.frame.op \notin Parts => d.message = c.message
    PROVE  AllHanded(d, p, i, all, g)
<1>1. /\ c.message = <<>> /\ Whole(c.frame) /\ \A j \in DOMAIN i : Whole(i[j])
      /\ Len(h) <= Len(all) /\ \A j \in 1 .. Len(h) : h[j] = all[j]
      /\ InHand(c, q) => /\ Len(h) + 1 <= Len(all) /\ c.frame.load = all[Len(h) + 1]
                         /\ Follows(Texts(i), i, all, Len(h) + 1, Len(all))
      /\ ~InHand(c, q) => Follows(Texts(i), i, all, Len(h), Len(all))
  BY CompleteParts
<1>2. Calls(WholePart(c, Len(c.frame.load))) = IF c.frame.op = "text" THEN <<c.frame.load>> ELSE <<>>
  BY <1>1, CallsWhole
<1>3. d.message = <<>> /\ (AtHand(d, p) => Whole(d.frame)) /\ ~InHand(d, p)
  BY <1>1 DEF Whole, Parts, InHand, AtHand
<1>4. c.frame.load \in Units
  BY DEF Members, Frame
<1>5. CASE c.frame.op = "text"
  <2>1. InHand(c, q)
    BY <1>5 DEF InHand, AtHand
  <2>2. g = Append(h, c.frame.load)
    BY <1>2, <1>4, <1>5
  <2>3. /\ g \in Seq(Units) /\ Len(g) = Len(h) + 1 /\ \A j \in 1 .. Len(h) : g[j] = h[j]
        /\ g[Len(h) + 1] = c.frame.load
    BY <1>4, <2>2, AppendIs
  <2>4. Len(h) \in Nat
    OBVIOUS
  <2>5. \A j \in 1 .. Len(g) : g[j] = all[j]
    BY <1>1, <2>1, <2>3, <2>4
  <2> QED BY <1>1, <1>3, <2>1, <2>3, <2>5, CompleteFrom
<1>6. CASE c.frame.op # "text"
  <2>1. ~InHand(c, q)
    BY <1>6 DEF InHand
  <2>2. g = h
    BY <1>2, <1>6
  <2> QED BY <1>1, <1>3, <2>1, <2>2, CompleteFrom
<1> QED BY <1>5, <1>6

\* The header of the next frame is read.
LEMMA TextsRest ==
    ASSUME NEW i \in Seq(Frame), i # <<>>
    PROVE  /\ Shifted(Texts(Tail(i)), Texts(i)) /\ ShiftedLoads(Texts(Tail(i)), i, Tail(i))
           /\ Texts(i) \in SUBSET (Nat \ {0}) /\ (1 \in Texts(i) <=> Head(i).op = "text") /\ i[1] = Head(i)
           /\ 1 \in DOMAIN i
           /\ \A j \in DOMAIN Tail(i) : j + 1 \in DOMAIN i /\ Tail(i)[j] = i[j + 1]
<1>1. /\ DOMAIN i = 1 .. Len(i) /\ DOMAIN Tail(i) = 1 .. Len(i) - 1 /\ Len(i) \in Nat /\ Len(i) >= 1
      /\ Head(i) = i[1] /\ \A j \in 1 .. Len(i) - 1 : Tail(i)[j] = i[j + 1]
  OBVIOUS
<1>2. Texts(Tail(i)) = {j \in 1 .. Len(i) - 1 : i[j + 1].op = "text"}
  BY <1>1 DEF Texts
<1>3. Texts(i) = {j \in 1 .. Len(i) : i[j].op = "text"}
  BY <1>1 DEF Texts
<1>4. \A j \in Nat \ {0} : j \in 1 .. Len(i) - 1 <=> j + 1 \in 1 .. Len(i)
  BY <1>1
<1>5. \A j \in 1 .. Len(i) - 1 : j \in Nat \ {0} /\ j + 1 \in 1 .. Len(i)
  BY <1>1
<1>6. Shifted(Texts(Tail(i)), Texts(i))
  BY <1>2, <1>3, <1>4, <1>5 DEF Shifted
<1>7. ShiftedLoads(Texts(Tail(i)), i, Tail(i))
  BY <1>1, <1>2 DEF ShiftedLoads
<1>8. Texts(i) \in SUBSET (Nat \ {0}) /\ (1 \in Texts(i) <=> Head(i).op = "text")
  BY <1>1, <1>3
<1> QED BY <1>1, <1>5, <1>6, <1>7, <1>8

\* The first of those to be read is now at hand.
LEMMA CompleteHeader ==
    ASSUME NEW c, NEW d, NEW q, NEW p, NEW i \in Seq(Frame), NEW all, NEW h \in Seq(Units),
           AllHanded(c, q, i, all, h), ~AtHand(c, q), AtHand(d, p), i # <<>>,
           d.frame = Head(i), d.message = c.message
    PROVE  AllHanded(d, p, Tail(i), all, h)
<1>1. ~InHand(c, q) /\ (InHand(d, p) <=> Head(i).op = "text")
  BY DEF InHand, AtHand
<1>2. /\ c.message = <<>> /\ \A j \in DOMAIN i : Whole(i[j])
      /\ Len(h) <= Len(all) /\ \A j \in 1 .. Len(h) : h[j] = all[j]
      /\ Follows(Texts(i), i, all, Len(h), Len(all))
  BY <1>1, CompleteParts
<1>3. /\ Shifted(Texts(Tail(i)), Texts(i)) /\ ShiftedLoads(Texts(Tail(i)), i, Tail(i))
      /\ Texts(i) \in SUBSET (Nat \ {0}) /\ (1 \in Texts(i) <=> Head(i).op = "text") /\ i[1] = Head(i)
      /\ 1 \in DOMAIN i
      /\ \A j \in DOMAIN Tail(i) : j + 1 \in DOMAIN i /\ Tail(i)[j] = i[j + 1]
  BY TextsRest
<1>4. /\ 1 \notin Texts(i) => Follows(Texts(Tail(i)), Tail(i), all, Len(h), Len(all))
      /\ 1 \in Texts(i) => /\ Len(h) < Len(all) /\ i[1].load = all[Len(h) + 1]
                           /\ Follows(Texts(Tail(i)), Tail(i), all, Len(h) + 1, Len(all))
  BY <1>2, <1>3, FollowsRest
<1>5. Whole(d.frame) /\ \A j \in DOMAIN Tail(i) : Whole(Tail(i)[j])
  BY <1>2, <1>3
<1>6. InHand(d, p) => Len(h) + 1 <= Len(all) /\ d.frame.load = all[Len(h) + 1]
  <2>1. Len(h) \in Nat /\ (Follows(Texts(i), i, all, Len(h), Len(all)) => Len(all) \in Nat)
    BY DEF Follows
  <2> QED BY <1>1, <1>2, <1>3, <1>4, <2>1
<1> QED BY <1>1, <1>2, <1>3, <1>4, <1>5, <1>6, CompleteFrom

\* A client says something: in a text, or in a frame that is no text.
LEMMA TextsNext ==
    ASSUME NEW i \in Seq(Frame), NEW f \in Frame
    PROVE  /\ f.op = "text" => Texts(Append(i, f)) = Texts(i) \cup {Len(i) + 1}
           /\ f.op # "text" => Texts(Append(i, f)) = Texts(i)
           /\ Texts(i) \in SUBSET Nat /\ Len(i) \in Nat /\ Append(i, f)[Len(i) + 1] = f
           /\ \A j \in Texts(i) : j < Len(i) + 1 /\ Append(i, f)[j] = i[j]
           /\ \A j \in DOMAIN Append(i, f) : Append(i, f)[j] = f \/ (j \in DOMAIN i /\ Append(i, f)[j] = i[j])
<1>1. /\ Len(i) \in Nat /\ DOMAIN Append(i, f) = 1 .. Len(i) + 1 /\ DOMAIN i = 1 .. Len(i)
      /\ Append(i, f)[Len(i) + 1] = f /\ \A j \in 1 .. Len(i) : Append(i, f)[j] = i[j]
  OBVIOUS
<1>2. Texts(Append(i, f)) = {j \in 1 .. Len(i) + 1 : Append(i, f)[j].op = "text"}
  BY <1>1 DEF Texts
<1>3. Texts(i) = {j \in 1 .. Len(i) : i[j].op = "text"}
  BY <1>1 DEF Texts
<1>4. \A j \in 1 .. Len(i) + 1 : j \in 1 .. Len(i) \/ j = Len(i) + 1
  BY <1>1
<1>5. \A j \in 1 .. Len(i) : j \in 1 .. Len(i) + 1 /\ j < Len(i) + 1 /\ j # Len(i) + 1 /\ j \in Nat
  BY <1>1
<1>6. Len(i) + 1 \in 1 .. Len(i) + 1
  BY <1>1
<1>7. f.op = "text" => Texts(Append(i, f)) = Texts(i) \cup {Len(i) + 1}
  BY <1>1, <1>2, <1>3, <1>4, <1>5, <1>6
<1>8. f.op # "text" => Texts(Append(i, f)) = Texts(i)
  BY <1>1, <1>2, <1>3, <1>4, <1>5, <1>6
<1>9. \A j \in Texts(i) : j < Len(i) + 1 /\ Append(i, f)[j] = i[j] /\ j \in Nat
  BY <1>1, <1>3, <1>5
<1> QED BY <1>1, <1>4, <1>7, <1>8, <1>9

\* It is the next of those to be read.
LEMMA CompleteText ==
    ASSUME NEW c, NEW q, NEW i \in Seq(Frame), NEW all \in Seq(Units), NEW h \in Seq(Units),
           AllHanded(c, q, i, all, h), NEW f \in Frame, Whole(f), f.op = "text"
    PROVE  AllHanded(c, q, Append(i, f), Append(all, f.load), h)
<1> DEFINE n == Len(i) + 1
           j == Append(i, f)
           more == Append(all, f.load)
<1>0. f.load \in Units
  BY DEF Frame
<1>1. /\ c.message = <<>> /\ (AtHand(c, q) => Whole(c.frame)) /\ \A x \in DOMAIN i : Whole(i[x])
      /\ Len(h) <= Len(all) /\ \A x \in 1 .. Len(h) : h[x] = all[x]
      /\ InHand(c, q) => /\ Len(h) + 1 <= Len(all) /\ c.frame.load = all[Len(h) + 1]
                         /\ Follows(Texts(i), i, all, Len(h) + 1, Len(all))
      /\ ~InHand(c, q) => Follows(Texts(i), i, all, Len(h), Len(all))
  BY CompleteParts
<1>2. /\ Texts(j) = Texts(i) \cup {n} /\ Texts(i) \in SUBSET Nat /\ n \in Nat /\ j[n] = f
      /\ \A x \in Texts(i) : x < n /\ j[x] = i[x]
      /\ \A x \in DOMAIN j : j[x] = f \/ (x \in DOMAIN i /\ j[x] = i[x])
  <2>1. Len(i) \in Nat /\ n \in Nat
    OBVIOUS
  <2>2. Texts(j) = Texts(i) \cup {n} /\ Texts(i) \in SUBSET Nat /\ j[n] = f
    BY TextsNext
  <2>3. /\ \A x \in Texts(i) : x < n /\ j[x] = i[x]
        /\ \A x \in DOMAIN j : j[x] = f \/ (x \in DOMAIN i /\ j[x] = i[x])
    BY TextsNext
  <2> QED BY <2>1, <2>2, <2>3
<1>3. /\ Len(all) \in Nat /\ Len(h) \in Nat /\ Len(more) = Len(all) + 1 /\ more[Len(all) + 1] = f.load
      /\ \A x \in 1 .. Len(all) : more[x] = all[x]
  BY <1>0, AppendIs
<1> HIDE DEF n, j, more
<1>4. ASSUME NEW a \in Nat, Follows(Texts(i), i, all, a, Len(all)) PROVE Follows(Texts(j), j, more, a, Len(more))
  <2>1. \A x \in a + 1 .. Len(all) : more[x] = all[x]
    BY <1>3
  <2>2. Follows(Texts(i), i, more, a, Len(all))
    BY <1>4, <2>1, FollowsSame
  <2>3. \A x \in Texts(i) : x < n /\ j[x].load = i[x].load
    BY <1>2
  <2>4. j[n].load = more[Len(all) + 1]
    BY <1>2, <1>3
  <2>5. Follows(Texts(i) \cup {n}, j, more, a, Len(all) + 1)
    BY <1>2, <2>2, <2>3, <2>4, FollowsNext
  <2> QED BY <1>2, <1>3, <2>5
<1>5. \A x \in DOMAIN j : Whole(j[x])
  BY <1>1, <1>2
<1>6. Len(h) <= Len(more) /\ \A x \in 1 .. Len(h) : h[x] = more[x]
  BY <1>1, <1>3
<1>7. InHand(c, q) => /\ Len(h) + 1 <= Len(more) /\ c.frame.load = more[Len(h) + 1]
                      /\ Follows(Texts(j), j, more, Len(h) + 1, Len(more))
  BY <1>1, <1>3, <1>4
<1>8. ~InHand(c, q) => Follows(Texts(j), j, more, Len(h), Len(more))
  BY <1>1, <1>3, <1>4
<1>9. AllHanded(c, q, j, more, h)
  BY <1>1, <1>5, <1>6, <1>7, <1>8, CompleteFrom
<1> QED BY <1>9 DEF j, more

\* One that is no text changes nothing of the texts.
LEMMA CompleteOther ==
    ASSUME NEW c, NEW q, NEW i \in Seq(Frame), NEW all, NEW h \in Seq(Units),
           AllHanded(c, q, i, all, h), NEW f \in Frame, Whole(f), f.op # "text"
    PROVE  AllHanded(c, q, Append(i, f), all, h)
<1> DEFINE j == Append(i, f)
<1>1. /\ c.message = <<>> /\ (AtHand(c, q) => Whole(c.frame)) /\ \A x \in DOMAIN i : Whole(i[x])
      /\ Len(h) <= Len(all) /\ \A x \in 1 .. Len(h) : h[x] = all[x]
      /\ InHand(c, q) => /\ Len(h) + 1 <= Len(all) /\ c.frame.load = all[Len(h) + 1]
                         /\ Follows(Texts(i), i, all, Len(h) + 1, Len(all))
      /\ ~InHand(c, q) => Follows(Texts(i), i, all, Len(h), Len(all))
  BY CompleteParts
<1>2. /\ Texts(j) = Texts(i)
      /\ \A x \in Texts(i) : j[x].load = i[x].load
      /\ \A x \in DOMAIN j : j[x] = f \/ (x \in DOMAIN i /\ j[x] = i[x])
  BY TextsNext
<1> HIDE DEF j
<1>3. ASSUME NEW a, Follows(Texts(i), i, all, a, Len(all)) PROVE Follows(Texts(j), j, all, a, Len(all))
  BY <1>2, <1>3, FollowsSame
<1>4. \A x \in DOMAIN j : Whole(j[x])
  BY <1>1, <1>2
<1>5. AllHanded(c, q, j, all, h)
  BY <1>1, <1>3, <1>4, CompleteFrom
<1> QED BY <1>5 DEF j

-----------------------------------------------------------------------------
(* Every step.                                                              *)

\* What was shown of the next state, with what the clients have got now.
LEMMA SafeLater ==
    ASSUME AllSafe(ws', handed'), got' = got, hung' = hung
    PROVE  AllSafe(ws, handed)'
BY DEF AllSafe, Safe

\* A step at k that leaves the frame at hand, and is not one of a client.
LEMMA CompleteLater ==
    ASSUME NEW k, AllComplete(ws, handed), Rest(ws, ws', k), SameFrame(ws, ws', k),
           UNCHANGED <<in, said, pieces, handed>>, cut \subseteq cut'
    PROVE  AllComplete(ws, handed)'
<1> SUFFICES ASSUME NEW x \in Conns \ Odd
             PROVE  AllHanded(ws'.conn[x], ws'.ready[x], in[x], said[x], handed[x])
  BY DEF AllComplete, CompleteAt, Odd
<1>1. AllHanded(ws.conn[x], ws.ready[x], in[x], said[x], handed[x])
  BY DEF AllComplete, CompleteAt
<1>2. CASE x = k
  BY <1>1, <1>2, CompleteSame DEF SameFrame
<1>3. CASE x # k
  <2>1. ws'.conn[x] = ws.conn[x] /\ (HasFrame(ws'.ready[x]) <=> HasFrame(ws.ready[x]))
    BY <1>3 DEF Rest
  <2>2. AtHand(ws'.conn[x], ws'.ready[x]) <=> AtHand(ws.conn[x], ws.ready[x])
    BY <2>1 DEF AtHand
  <2> QED BY <1>1, <2>1, <2>2, CompleteSame
<1> QED BY <1>2, <1>3

\* Such a step keeps the invariant.
LEMMA GoesOnStep ==
    ASSUME WsInv, NEW k \in Conns, GoesOn(ws, ws', handed, k),
           UNCHANGED <<in, got, said, handed, hung, pieces, sends>>, cut \subseteq cut'
    PROVE  WsInv'
<1>1. AllSafe(ws, handed)'
  BY SafeLater DEF GoesOn
<1>2. AllComplete(ws, handed)'
  BY CompleteLater DEF GoesOn, WsInv
<1> QED BY <1>1, <1>2 DEF WsInv, WsTyped

\* Upgrade keeps it.
LEMMA UpgradeStep == ASSUME WsInv, NEW k \in Conns, Upgrade(k) PROVE WsInv'
<1>1. GoesOn(ws, ws', handed, k)
  BY UpgradeSafe DEF WsInv
<1> QED BY <1>1, GoesOnStep DEF Upgrade, clientVars

\* A call of close by the application keeps it.
LEMMA KickStep == ASSUME WsInv, NEW k \in Conns, Kick(k) PROVE WsInv'
<1>1. GoesOn(ws, ws', handed, k)
  BY KickSafe DEF WsInv, Kick
<1>2. AllSafe(ws, handed)'
  BY <1>1, SafeLater DEF GoesOn, Kick
<1>3. AllComplete(ws, handed)'
  BY <1>1, CompleteLater DEF GoesOn, WsInv, Kick
<1>4. WsTyped'
  <2>1. sends \in Nat /\ sends' = sends + 1 /\ UNCHANGED <<in, got, said>>
    BY DEF WsInv, WsTyped, Kick, Spend
  <2> QED BY <2>1 DEF WsInv, WsTyped
<1> QED BY <1>2, <1>3, <1>4 DEF WsInv

\* The end of a payload keeps it.
LEMMA EndsStep ==
    ASSUME WsInv, NEW k \in Conns, NEW n \in Nat, Ends(ws, ws', handed', handed, k, n),
           UNCHANGED <<in, got, said, hung, pieces, cut, sends>>
    PROVE  WsInv'
<1>1. /\ Calling(handed', handed, k, Calls(WholePart(ws.conn[k], n))) /\ AllSafe(ws', handed')
      /\ Rest(ws, ws', k) /\ Over(ws, ws', k) /\ AtHand(ws.conn[k], ws.ready[k])
      /\ ws.conn[k].fragment = <<>> /\ n = Len(ws.conn[k].frame.load)
  BY DEF Ends
<1>2. ws.conn[k] \in Members /\ handed \in [Conns -> Seq(Units)]
  <2>1. ws \in Servers /\ handed \in [Conns -> Seq(Units)]
    BY SafeParts DEF WsInv
  <2> QED BY <2>1, PartsAre
<1>3. AllComplete(ws, handed)'
  <2> SUFFICES ASSUME NEW x \in Conns \ Odd
               PROVE  AllHanded(ws'.conn[x], ws'.ready[x], in[x], said[x], handed'[x])
    BY DEF AllComplete, CompleteAt, Odd
  <2>1. AllHanded(ws.conn[x], ws.ready[x], in[x], said[x], handed[x])
    BY DEF AllComplete, CompleteAt, WsInv
  <2>2. CASE x = k
    <3>1. handed'[k] = handed[k] \o Calls(WholePart(ws.conn[k], Len(ws.conn[k].frame.load)))
      BY <1>1, <1>2 DEF Calling
    <3>2. handed[k] \in Seq(Units)
      BY <1>2
    <3> QED BY <1>1, <1>2, <2>1, <2>2, <3>1, <3>2, CompleteEnds DEF Over
  <2>3. CASE x # k
    <3>1. ws'.conn[x] = ws.conn[x] /\ (HasFrame(ws'.ready[x]) <=> HasFrame(ws.ready[x]))
      BY <1>1, <2>3 DEF Rest
    <3>2. AtHand(ws'.conn[x], ws'.ready[x]) <=> AtHand(ws.conn[x], ws.ready[x])
      BY <3>1 DEF AtHand
    <3>3. handed'[x] = handed[x]
      BY <1>1, <1>2, <2>3 DEF Calling
    <3> QED BY <2>1, <3>1, <3>2, <3>3, CompleteSame
  <2> QED BY <2>2, <2>3
<1>4. AllSafe(ws, handed)'
  BY <1>1, SafeLater
<1> QED BY <1>3, <1>4 DEF WsInv, WsTyped

\* Every handler keeps it.
LEMMA RunStep == ASSUME WsInv, NEW k \in Conns, Run(k) PROVE WsInv'
<1>1. UNCHANGED <<in, got, said, hung, pieces, cut, sends>>
  BY DEF Run, clientVars
<1>2. \/ GoesOn(ws, ws', handed, k) /\ handed' = handed
      \/ \E n \in Nat : Ends(ws, ws', handed', handed, k, n)
  BY RunSafe DEF WsInv
<1> QED BY <1>1, <1>2, GoesOnStep, EndsStep

\* A read is answered with no error.
Filled(s, k, f, n) == ReadEnded(s, k, f, TRUE, n)

\* All is well after it, and the frame is at hand.
LEMMA ReadArrives ==
    ASSUME NEW s, NEW h, AllSafe(s, h), NEW k \in Conns, NEW f, NEW n, MayRead(s, k, f, n),
           NEW t, t = Filled(s, k, f, n)
    PROVE  /\ AllSafe(t, h) /\ Rest(s, t, k) /\ t.conn[k].frame = f /\ t.conn[k].message = s.conn[k].message
           /\ t.conn[k].at = s.conn[k].at /\ ~HasFrame(s.ready[k]) /\ HasFrame(t.ready[k])
<1> DEFINE ok == TRUE
<1>1. ok \in BOOLEAN /\ t = ReadEnded(s, k, f, ok, n)
  BY DEF Filled
<1>3. ok = TRUE
  OBVIOUS
<1> HIDE DEF ok
<1>2. /\ AllSafe(t, h) /\ Rest(s, t, k) /\ t.conn[k].frame = f /\ t.conn[k].message = s.conn[k].message
      /\ t.conn[k].at = s.conn[k].at /\ ~HasFrame(s.ready[k]) /\ (HasFrame(t.ready[k]) <=> ok)
  BY <1>1, ReadEndsSafe
<1> QED BY <1>2, <1>3

\* A read that ends, with the frame whose header it has read.
LEMMA ReadStep ==
    ASSUME WsInv, NEW k \in Conns, k \in ws.reads, NEW n \in Nat,
           ws.conn[k].at # "header", ws.conn[k].at = "payload" => n <= Len(ws.conn[k].frame.load),
           ws' = Arrives(k, n), UNCHANGED <<in, got, said, handed, hung, pieces, cut, sends>>
    PROVE  WsInv'
<1> DEFINE c == ws.conn[k]
           q == Append(ws.ready[k], Event("read", TRUE, n, NoItem))
           R == ws.reads \ {k}
           d == [c EXCEPT !.frame = c.frame]
<1>1. ws \in Servers /\ c \in Members /\ c.frame \in Frame /\ AllSafe(ws, handed)
  <2>1. ws \in Servers /\ AllSafe(ws, handed)
    BY SafeParts DEF WsInv
  <2> QED BY <2>1, PartsAre
<1>2. ws' = Filled(ws, k, c.frame, n)
  <2>1. d = c
    BY <1>1 DEF Members
  <2>2. ws.conn = [ws.conn EXCEPT ![k] = d]
    BY <1>1, <2>1, ConnSame
  <2>3. ws' = [ws EXCEPT !.conn = ws.conn, !.ready = [ws.ready EXCEPT ![k] = q],
                         !.reads = R, !.writes = ws.writes, !.users = ws.users]
    BY <1>1 DEF Arrives, Post, Servers
  <2>4. ws' = Made(ws, k, d, q, R, ws.writes, ws.users)
    <3> HIDE DEF d, q, R
    <3> QED BY <2>2, <2>3 DEF Made
  <2> QED BY <2>4 DEF Filled, ReadEnded
<1>3. /\ AllSafe(ws', handed) /\ Rest(ws, ws', k) /\ ws'.conn[k].frame = c.frame
      /\ ws'.conn[k].message = c.message /\ ws'.conn[k].at = c.at
  <2>1. MayRead(ws, k, c.frame, n)
    BY <1>1 DEF MayRead
  <2> QED BY <1>1, <1>2, <2>1, ReadArrives
<1>4. GoesOn(ws, ws', handed, k)
  BY <1>3 DEF GoesOn, SameFrame, AtHand
<1> QED BY <1>4, GoesOnStep

\* What all the steps of a client begin with.
LEMMA ClientParts ==
    ASSUME WsInv, NEW k \in Conns
    PROVE  /\ in[k] \in Seq(Frame) /\ said[k] \in Seq(Units) /\ handed[k] \in Seq(Units) /\ sends \in Nat
           /\ said = [said EXCEPT ![k] = said[k]]
           /\ k \notin Odd => AllHanded(ws.conn[k], ws.ready[k], in[k], said[k], handed[k])
<1>1. in \in [Conns -> Seq(Frame)] /\ said \in [Conns -> Seq(Units)] /\ sends \in Nat
  BY DEF WsInv, WsTyped
<1>2. handed[k] \in Seq(Units)
  BY SafeParts DEF WsInv
<1>3. k \notin Odd => AllHanded(ws.conn[k], ws.ready[k], in[k], said[k], handed[k])
  BY DEF WsInv, AllComplete, CompleteAt
<1> QED BY <1>1, <1>2, <1>3

\* A header is read: the server takes f for the frame, and i for what follows it.
HeaderRead(k, f, i) ==
    /\ k \in ws.reads /\ ws.conn[k].at = "header" /\ f \in Frame /\ i \in Seq(Frame)
    /\ ws' = [Arrives(k, 0) EXCEPT !.conn[k].frame = f]
    /\ in' = [in EXCEPT ![k] = i] /\ cut \subseteq cut'
    /\ UNCHANGED <<got, said, handed, hung, pieces, sends>>

\* It keeps the invariant, where they are the first of those on their way and the rest.
LEMMA HeaderStep ==
    ASSUME WsInv, NEW k \in Conns, NEW f, NEW i, HeaderRead(k, f, i),
           k \notin Odd' => in[k] # <<>> /\ f = Head(in[k]) /\ i = Tail(in[k])
    PROVE  WsInv'
<1> DEFINE c == ws.conn[k]
<1>0. /\ k \in ws.reads /\ c.at = "header" /\ in' = [in EXCEPT ![k] = i] /\ cut \subseteq cut'
      /\ f \in Frame /\ i \in Seq(Frame)
      /\ UNCHANGED <<got, said, handed, hung, pieces, sends>>
  BY DEF HeaderRead
<1>1. /\ ws \in Servers /\ c \in Members /\ AllSafe(ws, handed) /\ handed \in [Conns -> Seq(Units)]
      /\ in \in [Conns -> Seq(Frame)] /\ in[k] \in Seq(Frame)
  <2>1. ws \in Servers /\ AllSafe(ws, handed) /\ handed \in [Conns -> Seq(Units)] /\ in \in [Conns -> Seq(Frame)]
    BY SafeParts DEF WsInv, WsTyped
  <2> QED BY <2>1, PartsAre
<1>2. ws' = Filled(ws, k, f, 0)
  BY <1>1 DEF HeaderRead, Filled, ReadEnded, Made, Arrives, Post, Servers
<1>3. /\ AllSafe(ws', handed) /\ Rest(ws, ws', k) /\ ws'.conn[k].frame = f
      /\ ws'.conn[k].message = c.message /\ ws'.conn[k].at = c.at
      /\ ~HasFrame(ws.ready[k]) /\ HasFrame(ws'.ready[k])
  <2>1. MayRead(ws, k, f, 0)
    BY <1>0, <1>1 DEF MayRead
  <2>2. AllSafe(ws, handed)
    BY <1>1
  <2> HIDE DEF c
  <2>3. /\ AllSafe(ws', handed) /\ Rest(ws, ws', k) /\ ws'.conn[k].frame = f
        /\ ws'.conn[k].message = ws.conn[k].message /\ ws'.conn[k].at = ws.conn[k].at
        /\ ~HasFrame(ws.ready[k]) /\ HasFrame(ws'.ready[k])
    BY <1>2, <2>1, <2>2, ReadArrives
  <2> QED BY <2>3 DEF c
<1>4. AllComplete(ws, handed)'
  <2> SUFFICES ASSUME NEW x \in Conns \ Odd'
               PROVE  AllHanded(ws'.conn[x], ws'.ready[x], in'[x], said[x], handed[x])
    BY <1>0 DEF AllComplete, CompleteAt
  <2>0. x \in Conns \ Odd
    BY <1>0 DEF Odd
  <2>1. AllHanded(ws.conn[x], ws.ready[x], in[x], said[x], handed[x])
    BY <2>0 DEF AllComplete, CompleteAt, WsInv
  <2>2. CASE x = k
    <3>1. in'[k] = Tail(in[k]) /\ handed[k] \in Seq(Units) /\ in[k] # <<>> /\ f = Head(in[k])
      BY <1>0, <1>1, <2>2
    <3>2. ~AtHand(c, ws.ready[k]) /\ AtHand(ws'.conn[k], ws'.ready[k])
      BY <1>0, <1>3 DEF AtHand
    <3>3. AllHanded(c, ws.ready[k], in[k], said[k], handed[k])
      BY <2>1, <2>2
    <3>4. AllHanded(ws'.conn[k], ws'.ready[k], Tail(in[k]), said[k], handed[k])
      BY <1>0, <1>1, <1>3, <3>1, <3>2, <3>3, CompleteHeader
    <3> QED BY <2>2, <3>1, <3>4
  <2>3. CASE x # k
    <3>1. ws'.conn[x] = ws.conn[x] /\ (HasFrame(ws'.ready[x]) <=> HasFrame(ws.ready[x]))
      BY <1>3, <2>3 DEF Rest
    <3>2. AtHand(ws'.conn[x], ws'.ready[x]) <=> AtHand(ws.conn[x], ws.ready[x])
      BY <3>1 DEF AtHand
    <3>3. in'[x] = in[x]
      BY <1>0, <1>1, <2>3
    <3> QED BY <2>1, <3>1, <3>2, <3>3, CompleteSame
  <2> QED BY <2>2, <2>3
<1>5. AllSafe(ws, handed)'
  BY <1>0, <1>3, SafeLater
<1>6. in' \in [Conns -> Seq(Frame)]
  BY <1>0, <1>1
<1> QED BY <1>0, <1>4, <1>5, <1>6 DEF WsInv, WsTyped

\* Every answer of a read keeps it.
LEMMA ReadSomeStep == ASSUME WsInv, NEW k \in Conns, ReadSome(k) PROVE WsInv'
<1>1. k \in ws.reads /\ UNCHANGED <<got, said, handed, hung, pieces, cut, sends>>
  BY DEF ReadSome, clientVars
<1>2. CASE /\ ws.conn[k].at = "header" /\ in[k] # <<>>
           /\ ws' = [Arrives(k, 0) EXCEPT !.conn[k].frame = Head(in[k])]
           /\ in' = [in EXCEPT ![k] = Tail(@)]
  <2>1. in[k] \in Seq(Frame)
    BY ClientParts
  <2> DEFINE f == Head(in[k])
             i == Tail(in[k])
  <2>2. f \in Frame /\ i \in Seq(Frame)
    BY <1>2, <2>1
  <2>3. in' = [in EXCEPT ![k] = i] /\ ws' = [Arrives(k, 0) EXCEPT !.conn[k].frame = f]
    BY <1>2
  <2>4. HeaderRead(k, f, i)
    <3> HIDE DEF f, i
    <3> QED BY <1>1, <1>2, <2>2, <2>3 DEF HeaderRead
  <2> QED BY <1>2, <2>4, HeaderStep
<1>3. CASE ws.conn[k].at \in {"length", "mask"} /\ ws' = Arrives(k, 0) /\ UNCHANGED in
  BY <1>1, <1>3, ReadStep
<1>4. CASE ws.conn[k].at = "payload" /\ (\E n \in 1 .. ws.conn[k].left : ws' = Arrives(k, n)) /\ UNCHANGED in
  <2>1. PICK n \in 1 .. ws.conn[k].left : ws' = Arrives(k, n)
    BY <1>4
  <2>2. ws.conn[k].reading /\ FineAt(ws, k) /\ ws \in Servers
    BY <1>1, PendingLive, SafeParts DEF WsInv
  <2>3. ws.conn[k].left = Len(ws.conn[k].frame.load) /\ ws.conn[k].left \in Int
    BY <1>4, <2>2, PartsAre DEF FineAt, FromTheBeginning
  <2>4. n \in Nat /\ n <= Len(ws.conn[k].frame.load)
    BY <2>1, <2>3
  <2> QED BY <1>1, <1>4, <2>1, <2>4, ReadStep
<1> QED BY <1>2, <1>3, <1>4 DEF ReadSome

\* All is well after a read that got nothing.
LEMMA NothingRead ==
    ASSUME NEW s, NEW h, AllSafe(s, h), NEW k \in Conns, k \in s.reads, NEW f, f = s.conn[k].frame,
           NEW ok \in BOOLEAN, ~ok, NEW t, t = ReadEnded(s, k, f, ok, 0)
    PROVE  GoesOn(s, t, h, k)
<1>1. s \in Servers /\ s.conn[k] \in Members /\ f \in Frame
  BY SafeParts, PartsAre
<1>2. MayRead(s, k, f, 0)
  BY <1>1 DEF MayRead, Frame, Units
<1>3. /\ AllSafe(t, h) /\ Rest(s, t, k) /\ t.conn[k].frame = f
      /\ t.conn[k].message = s.conn[k].message /\ t.conn[k].at = s.conn[k].at
      /\ ~HasFrame(s.ready[k]) /\ (HasFrame(t.ready[k]) <=> ok)
  BY <1>2, ReadEndsSafe
<1> QED BY <1>3 DEF GoesOn, SameFrame, AtHand

\* A read fails.
LEMMA ReadFails ==
    ASSUME WsInv, NEW k \in Conns, k \in ws.reads,
           ws' = Post([ws EXCEPT !.reads = @ \ {k}], k, Result("read", FALSE))
    PROVE  GoesOn(ws, ws', handed, k)
<1> DEFINE c == ws.conn[k]
           q == Append(ws.ready[k], Event("read", FALSE, 0, NoItem))
           R == ws.reads \ {k}
           d == [c EXCEPT !.frame = c.frame]
<1>1. ws \in Servers /\ c \in Members /\ c.frame \in Frame /\ AllSafe(ws, handed)
  <2>1. ws \in Servers /\ AllSafe(ws, handed)
    BY SafeParts DEF WsInv
  <2> QED BY <2>1, PartsAre
<1>3. ws' = ReadEnded(ws, k, c.frame, FALSE, 0)
  <2>1. d = c
    BY <1>1 DEF Members
  <2>2. ws.conn = [ws.conn EXCEPT ![k] = d]
    BY <1>1, <2>1, ConnSame
  <2>3. ws' = [ws EXCEPT !.conn = ws.conn, !.ready = [ws.ready EXCEPT ![k] = q],
                         !.reads = R, !.writes = ws.writes, !.users = ws.users]
    BY <1>1 DEF Result, Post, Servers
  <2>4. ws' = Made(ws, k, d, q, R, ws.writes, ws.users)
    <3> HIDE DEF d, q, R
    <3> QED BY <2>2, <2>3 DEF Made
  <2> QED BY <2>4 DEF ReadEnded
<1> DEFINE ok == FALSE
           f == c.frame
<1>4. ok \in BOOLEAN /\ ~ok /\ ws' = ReadEnded(ws, k, f, ok, 0) /\ f = ws.conn[k].frame /\ k \in ws.reads
  BY <1>3
<1> HIDE DEF ok, f, c
<1> QED BY <1>1, <1>4, NothingRead

\* A header that is cut: of this client nothing is claimed from now on.
LEMMA CutHeaderStep == ASSUME WsInv, NEW k \in Conns, CutHeader(k) PROVE WsInv'
<1>1. /\ k \in ws.reads /\ ws.conn[k].at = "header" /\ cut' = cut \cup {k}
      /\ UNCHANGED <<got, said, handed, hung, pieces, sends>>
  BY DEF CutHeader, clientVars
<1>2. CASE ws' = Post([ws EXCEPT !.reads = @ \ {k}], k, Result("read", FALSE)) /\ UNCHANGED in
  BY <1>1, <1>2, ReadFails, GoesOnStep
<1>3. CASE \E frames \in Misread \ {<<>>} :
             /\ ws' = [Arrives(k, 0) EXCEPT !.conn[k].frame = Head(frames)]
             /\ in' = [in EXCEPT ![k] = Tail(frames)]
  <2>1. PICK frames \in Misread \ {<<>>} :
             /\ ws' = [Arrives(k, 0) EXCEPT !.conn[k].frame = Head(frames)]
             /\ in' = [in EXCEPT ![k] = Tail(frames)]
    BY <1>3
  <2> DEFINE f == Head(frames)
             i == Tail(frames)
  <2>2. f \in Frame /\ i \in Seq(Frame)
    <3>1. frames \in Seq(Frame) /\ frames # <<>>
      BY DoesAssumption
    <3> QED BY <3>1
  <2>3. ws' = [Arrives(k, 0) EXCEPT !.conn[k].frame = f] /\ in' = [in EXCEPT ![k] = i]
    BY <2>1
  <2> HIDE DEF f, i
  <2>4. HeaderRead(k, f, i) /\ k \in Odd'
    BY <1>1, <2>2, <2>3 DEF HeaderRead, Odd
  <2> QED BY <2>4, HeaderStep
<1> QED BY <1>2, <1>3 DEF CutHeader

\* Of who has gone nothing more is said, of the others the same.
LEMMA OrderedStays ==
    ASSUME NEW x, NEW r, NEW s, NEW g, NEW gone, NEW went, NEW all,
           Ordered(x, r, s, g, gone, all), r \in went <=> r \in gone
    PROVE  Ordered(x, r, s, g, went, all)
BY DEF Ordered

\* The client goes, or breaks the protocol.
LEMMA LoseStep == ASSUME WsInv, NEW k \in Conns, Lose(k) PROVE WsInv'
<1>2. /\ k \in ws.reads /\ hung' = hung \cup {k}
      /\ ws' = Post([ws EXCEPT !.reads = @ \ {k}], k, Result("read", FALSE))
      /\ UNCHANGED <<in, got, said, handed, pieces, cut, sends>>
  BY DEF Lose, clientVars
<1>4. GoesOn(ws, ws', handed, k)
  BY <1>2, ReadFails
<1>6. AllComplete(ws, handed)'
  BY <1>2, <1>4, CompleteLater DEF WsInv, GoesOn
<1>7. AllSafe(ws, handed)'
  <2>1. ASSUME NEW r \in Conns, NEW x \in Conns PROVE Ordered(x, r, ws', got[r], hung', handed[x])
    <3>0. AllSafe(ws', handed)
      BY <1>4 DEF GoesOn
    <3>1. Ordered(x, r, ws', got[r], hung, handed[x]) /\ handed[x] \in Seq(Units)
      BY <3>0, SafeParts
    <3>2. CASE r = k
      <4>1. r \in hung'
        BY <1>2, <3>2
      <4>2. ws'.ready[r] = ws'.ready[r]
        OBVIOUS
      <4> QED BY <3>1, <4>1, <4>2, OrderedGone
    <3>3. CASE r # k
      <4>1. r \in hung' <=> r \in hung
        BY <1>2, <3>3
      <4> QED BY <3>1, <4>1, OrderedStays
    <3> QED BY <3>2, <3>3
  <2> QED BY <1>2, <1>4, <2>1 DEF AllSafe, Safe, GoesOn
<1> QED BY <1>2, <1>6, <1>7 DEF WsInv, WsTyped

\* A write ends.
LEMMA WriteEndsStep == ASSUME WsInv, NEW k \in Conns, WriteEnds(k) PROVE WsInv'
<1>1. /\ ws \in Servers /\ AllSafe(ws, handed) /\ got \in [Conns -> Seq(WsItems)] /\ got[k] \in Seq(WsItems)
      /\ ws.conn[k].sending \in Seq(WsItems)
  <2>1. ws \in Servers /\ AllSafe(ws, handed) /\ got \in [Conns -> Seq(WsItems)]
    BY SafeParts DEF WsInv, WsTyped
  <2> QED BY <2>1, PartsAre
<1>2. /\ k \in ws.writes
      /\ got' = IF k \in hung' THEN got ELSE [got EXCEPT ![k] = @ \o ws.conn[k].sending]
      /\ UNCHANGED <<in, said, handed, pieces, cut, sends>>
  BY DEF WriteEnds, clientVars
<1>3. PICK ok \in BOOLEAN : ws' = Answered(ws, k, ok) /\ hung' = (IF ok THEN hung ELSE hung \cup {k})
  BY DEF WriteEnds, Answered
<1>4. /\ Kept(ws, ws', k) /\ FineAt(ws', k) /\ Rest(ws, ws', k) /\ SameFrame(ws, ws', k)
      /\ ws'.conn[k] = ws.conn[k] /\ ws' \in Servers
  BY <1>1, <1>2, <1>3, WriteEndsIs
<1>5. got' \in [Conns -> Seq(WsItems)] /\ got'[k] \in Seq(WsItems)
  <2>1. got[k] \o ws.conn[k].sending \in Seq(WsItems)
    BY <1>1
  <2> QED BY <1>1, <1>2, <2>1
<1>6. IF k \in hung' THEN got'[k] = got[k] ELSE k \notin hung /\ got'[k] = got[k] \o ws.conn[k].sending
  BY <1>1, <1>2, <1>3
<1>7. ASSUME NEW x \in Conns PROVE Ordered(x, k, ws', got'[k], hung', handed[x])
  BY <1>1, <1>2, <1>3, <1>5, <1>6, WriteEndsOrdered
<1>8. ws.conn[k].state = "live"
  BY <1>1, <1>2, PendingLive
<1>9. ASSUME NEW r \in Conns \ {k}
      PROVE  /\ FineAt(ws', r) /\ (ws'.conn[r].state = "free" => got'[r] = <<>>)
             /\ \A x \in Conns : Ordered(x, r, ws', got'[r], hung', handed[x])
  <2>1. SameAt(ws, ws', r)
    BY <1>4 DEF Kept, SameAt
  <2>2. Safe(ws', handed, r)
    BY <1>1, <2>1, SafeSame
  <2>3. got'[r] = got[r] /\ (r \in hung' <=> r \in hung)
    BY <1>1, <1>2, <1>3
  <2> QED BY <2>2, <2>3 DEF Safe, Ordered
<1>10. AllSafe(ws, handed)'
  <2>1. handed' = handed /\ handed \in [Conns -> Seq(Units)]
    BY <1>1, <1>2 DEF AllSafe
  <2>2. ASSUME NEW r \in Conns PROVE Safe(ws, handed, r)'
    <3>1. CASE r = k
      BY <1>4, <1>7, <1>8, <2>1, <3>1 DEF Safe
    <3>2. CASE r # k
      BY <1>9, <2>1, <3>2 DEF Safe
    <3> QED BY <3>1, <3>2
  <2> QED BY <1>4, <2>1, <2>2 DEF AllSafe
<1>11. AllComplete(ws, handed)'
  BY <1>2, <1>4, CompleteLater DEF WsInv
<1> QED BY <1>2, <1>5, <1>10, <1>11 DEF WsInv, WsTyped

\* A client sends frames: i is on its way now, and all said.
Saying(k, i, all) ==
    /\ i \in Seq(Frame) /\ all \in Seq(Units)
    /\ in' = [in EXCEPT ![k] = i] /\ said' = [said EXCEPT ![k] = all]
    /\ sends' \in Nat /\ UNCHANGED <<ws, got, handed, hung, cut>>

\* It keeps the invariant.
LEMMA SayingStep ==
    ASSUME WsInv, NEW k \in Conns, NEW i, NEW all, Saying(k, i, all),
           \/ pieces' = pieces /\ (k \notin Odd => AllHanded(ws.conn[k], ws.ready[k], i, all, handed[k]))
           \/ pieces' = pieces \cup {k}
    PROVE  WsInv'
<1>1. /\ i \in Seq(Frame) /\ all \in Seq(Units) /\ sends' \in Nat
      /\ in' = [in EXCEPT ![k] = i] /\ said' = [said EXCEPT ![k] = all]
      /\ UNCHANGED <<ws, got, handed, hung, cut>>
  BY DEF Saying
<1>2. in \in [Conns -> Seq(Frame)] /\ got \in [Conns -> Seq(WsItems)] /\ said \in [Conns -> Seq(Units)]
  BY DEF WsInv, WsTyped
<1>3. WsTyped'
  BY <1>1, <1>2 DEF WsTyped
<1>4. AllSafe(ws, handed)'
  <2>1. AllSafe(ws', handed')
    BY <1>1 DEF WsInv
  <2> QED BY <1>1, <2>1, SafeLater
<1>5. AllComplete(ws, handed)'
  <2> SUFFICES ASSUME NEW x \in Conns \ Odd'
               PROVE  AllHanded(ws.conn[x], ws.ready[x], in'[x], said'[x], handed[x])
    BY <1>1 DEF AllComplete, CompleteAt
  <2>0. x \in Conns \ Odd /\ x \notin pieces'
    BY <1>1 DEF Odd
  <2>1. CASE x = k
    BY <1>1, <1>2, <2>0, <2>1
  <2>2. CASE x # k
    <3>1. in'[x] = in[x] /\ said'[x] = said[x] /\ x \in Conns \ Odd
      BY <1>1, <1>2, <2>0, <2>2
    <3>2. AllHanded(ws.conn[x], ws.ready[x], in[x], said[x], handed[x])
      BY <3>1 DEF WsInv, AllComplete, CompleteAt
    <3> QED BY <3>1, <3>2
  <2> QED BY <2>1, <2>2
<1> QED BY <1>3, <1>4, <1>5 DEF WsInv

\* What a client says is units.
LEMMA LoadIs ==
    ASSUME WsInv, NEW k \in Conns, NEW n \in Nat
    PROVE  Load(k, n) \in Units
<1>1. Len(said[k]) + 1 \in Nat
  BY ClientParts
<1>2. Load(k, n) \in [1 .. n -> Conns \X Nat]
  BY <1>1 DEF Load
<1> QED BY <1>2 DEF Units

\* What is on its way once a client has sent frames.
LEMMA SendsIs ==
    ASSUME WsInv, NEW k \in Conns, NEW frames \in Seq(Frame), Sends(k, frames)
    PROVE  \E i \in Seq(Frame) : in' = [in EXCEPT ![k] = i] /\ (k \notin cut => i = in[k] \o frames)
<1>1. PICK f : /\ f \in (IF k \in cut THEN Misread ELSE {frames})
               /\ in' = [in EXCEPT ![k] = in[k] \o f]
  BY DEF Sends
<1>2. f \in Seq(Frame) /\ (k \notin cut => f = frames)
  BY <1>1, DoesAssumption
<1>3. in[k] \o f \in Seq(Frame)
  BY <1>2, ClientParts
<1> QED BY <1>1, <1>2, <1>3

\* A step of a client that sends one frame.
LEMMA OneFrameStep ==
    ASSUME WsInv, NEW k \in Conns, NEW f \in Frame, Whole(f), Sends(k, <<f>>), sends' \in Nat,
           f.op = "text" => said' = [said EXCEPT ![k] = Append(@, f.load)],
           f.op # "text" => said' = said,
           UNCHANGED <<ws, got, handed, hung, pieces, cut>>
    PROVE  WsInv'
<1>0. /\ in[k] \in Seq(Frame) /\ said[k] \in Seq(Units) /\ handed[k] \in Seq(Units)
      /\ said = [said EXCEPT ![k] = said[k]] /\ f.load \in Units
      /\ k \notin Odd => AllHanded(ws.conn[k], ws.ready[k], in[k], said[k], handed[k])
  BY ClientParts DEF Frame
<1> DEFINE all == IF f.op = "text" THEN Append(said[k], f.load) ELSE said[k]
<1>1. PICK i \in Seq(Frame) : in' = [in EXCEPT ![k] = i] /\ (k \notin cut => i = Append(in[k], f))
  <2>1. in[k] \o <<f>> = Append(in[k], f)
    BY <1>0
  <2>2. <<f>> \in Seq(Frame)
    OBVIOUS
  <2> QED BY <2>1, <2>2, SendsIs
<1>2. said' = [said EXCEPT ![k] = all] /\ all \in Seq(Units)
  <2>1. CASE f.op = "text"
    BY <1>0, <2>1
  <2>2. CASE f.op # "text"
    BY <1>0, <2>2
  <2> QED BY <2>1, <2>2
<1>3. k \notin Odd => AllHanded(ws.conn[k], ws.ready[k], i, all, handed[k])
  <2> SUFFICES ASSUME k \notin Odd PROVE AllHanded(ws.conn[k], ws.ready[k], i, all, handed[k])
    OBVIOUS
  <2>0. i = Append(in[k], f)
    BY <1>1 DEF Odd
  <2>1. CASE f.op = "text"
    <3>1. all = Append(said[k], f.load)
      BY <2>1
    <3> HIDE DEF all
    <3> QED BY <1>0, <2>0, <2>1, <3>1, CompleteText
  <2>2. CASE f.op # "text"
    <3>1. all = said[k]
      BY <2>2
    <3> HIDE DEF all
    <3> QED BY <1>0, <2>0, <2>2, <3>1, CompleteOther
  <2> QED BY <2>1, <2>2
<1> HIDE DEF all
<1>4. Saying(k, i, all)
  BY <1>1, <1>2 DEF Saying
<1> QED BY <1>3, <1>4, SayingStep

\* A client says something, in one frame.
LEMMA SayStep == ASSUME WsInv, NEW k \in Conns, NEW n \in Nat, Say(k, n) PROVE WsInv'
<1> DEFINE load == Load(k, n)
           f == [op |-> "text", fin |-> TRUE, ext |-> n > 1, load |-> load]
<1>1. load \in Units
  BY LoadIs
<1>2. /\ Sends(k, <<f>>) /\ said' = [said EXCEPT ![k] = Append(@, load)]
      /\ UNCHANGED <<ws, got, handed, hung, pieces, cut>>
  BY DEF Say
<1>3. sends' \in Nat
  <2>1. sends' = sends + 1 /\ sends \in Nat
    BY ClientParts DEF Say, Spend
  <2> QED BY <2>1
<1> HIDE DEF load
<1>4. f \in Frame /\ Whole(f) /\ f.op = "text" /\ f.load = load
  BY <1>1 DEF Frame, Ops, Whole
<1> HIDE DEF f
<1> QED BY <1>2, <1>3, <1>4, OneFrameStep

\* A client pings.
LEMMA PingStep == ASSUME WsInv, NEW k \in Conns, Ping(k) PROVE WsInv'
<1> DEFINE f == [op |-> "ping", fin |-> TRUE, ext |-> FALSE, load |-> <<>>]
<1>1. Sends(k, <<f>>) /\ UNCHANGED <<ws, got, handed, hung, said, pieces, cut>>
  BY DEF Ping
<1>2. sends' \in Nat
  <2>1. sends' = sends + 1 /\ sends \in Nat
    BY ClientParts DEF Ping, Spend
  <2> QED BY <2>1
<1>3. f \in Frame /\ Whole(f) /\ f.op # "text"
  BY EmptyUnits DEF Frame, Ops, Whole
<1> HIDE DEF f
<1> QED BY <1>1, <1>2, <1>3, OneFrameStep

\* A client closes.
LEMMA SayCloseStep == ASSUME WsInv, NEW k \in Conns, SayClose(k) PROVE WsInv'
<1> DEFINE f == [op |-> "close", fin |-> TRUE, ext |-> FALSE, load |-> <<>>]
<1>1. Sends(k, <<f>>) /\ UNCHANGED <<ws, got, handed, hung, said, pieces, cut, sends>>
  BY DEF SayClose
<1>2. sends' \in Nat
  BY <1>1, ClientParts
<1>3. f \in Frame /\ Whole(f) /\ f.op # "text"
  BY EmptyUnits DEF Frame, Ops, Whole
<1> HIDE DEF f
<1> QED BY <1>1, <1>2, <1>3, OneFrameStep

\* A client says something in two frames; of its messages nothing is claimed from now on.
LEMMA PiecesStep == ASSUME WsInv, NEW k \in Conns, SayInPieces(k) PROVE WsInv'
<1> DEFINE f == [op |-> "text", fin |-> FALSE, ext |-> FALSE, load |-> Load(k, 1)]
           g == [op |-> "continuation", fin |-> TRUE, ext |-> FALSE, load |-> Load(k, 1)]
           all == Append(said[k], Load(k, 2))
<1>0. in[k] \in Seq(Frame) /\ said[k] \in Seq(Units)
  BY ClientParts
<1>1. Load(k, 1) \in Units /\ Load(k, 2) \in Units
  BY LoadIs
<1>2. f \in Frame /\ g \in Frame
  BY <1>1 DEF Frame, Ops
<1>3. /\ Sends(k, <<f, g>>) /\ said' = [said EXCEPT ![k] = all]
      /\ pieces' = pieces \cup {k} /\ UNCHANGED <<ws, got, handed, hung, cut>>
  BY DEF SayInPieces
<1> HIDE DEF f, g
<1>4. sends' \in Nat
  <2>1. sends' = sends + 1 /\ sends \in Nat
    BY ClientParts DEF SayInPieces, Spend
  <2> QED BY <2>1
<1>5. PICK i \in Seq(Frame) : in' = [in EXCEPT ![k] = i]
  <2>1. <<f, g>> \in Seq(Frame)
    BY <1>2
  <2> QED BY <1>3, <2>1, SendsIs
<1>7. all \in Seq(Units)
  BY <1>0, <1>1
<1> HIDE DEF all
<1>6. Saying(k, i, all)
  BY <1>3, <1>4, <1>5, <1>7 DEF Saying
<1> QED BY <1>3, <1>6, SayingStep

-----------------------------------------------------------------------------

\* It holds before any connection is made.
LEMMA WsInitInv == WsInit => WsInv
<1> SUFFICES ASSUME WsInit PROVE WsInv
  OBVIOUS
<1>0. <<>> \in Units /\ <<>> \in Seq(WsItems) /\ <<>> \in Seq(Events) /\ <<>> \in Seq(Frame) /\ <<>> \in Seq(Units)
  BY EmptySeq DEF Units
<1>1. Fresh \in Members
  <2>1. NoFrame \in Frame
    BY <1>0 DEF NoFrame, Frame, Ops
  <2> QED BY <1>0, <2>1 DEF Fresh, Members
<1>2. /\ ws \in Servers /\ ws.reads = {} /\ ws.writes = {} /\ ws.users = {}
      /\ \A k \in Conns : ws.conn[k] = Fresh /\ ws.ready[k] = <<>>
  BY <1>0, <1>1 DEF WsInit, Servers
<1>3. Fresh.state = "free" /\ ~Fresh.reading /\ Fresh.sending = <<>> /\ Fresh.queue = <<>> /\ ~Fresh.open
      /\ Fresh.at = "header" /\ ~Fresh.called /\ Fresh.message = <<>> /\ Fresh.fragment = <<>>
  BY DEF Fresh
<1>4. WsTyped
  BY <1>0 DEF WsInit, WsTyped
<1>5. handed \in [Conns -> Seq(Units)] /\ \A k \in Conns : handed[k] = <<>> /\ got[k] = <<>> /\ in[k] = <<>> /\ said[k] = <<>>
  BY <1>0 DEF WsInit
<1>6. ASSUME NEW k \in Conns PROVE Safe(ws, handed, k)
  <2>1. OneAtATime("read", k \in ws.reads, ws.ready[k], ws.conn[k].reading)
    BY <1>2, <1>3 DEF OneAtATime
  <2>2. OneAtATime("write", k \in ws.writes, ws.ready[k], ws.conn[k].sending # <<>>)
    BY <1>2, <1>3 DEF OneAtATime
  <2>3. FromTheBeginning(ws.conn[k], ws.ready[k])
    BY <1>2, <1>3 DEF FromTheBeginning
  <2>4. OnlyLive(ws.conn[k], k \in ws.users \/ k \in ws.reads, ws.ready[k])
    BY <1>2, <1>3 DEF OnlyLive
  <2>5. FineAt(ws, k)
    BY <1>2, <1>3, <2>1, <2>2, <2>3, <2>4 DEF FineAt
  <2>6. ASSUME NEW x \in Conns PROVE Ordered(x, k, ws, got[k], hung, handed[x])
    <3>1. Under(ws, k) = <<>> /\ ws.conn[k].queue = <<>> /\ ws.ready[k] = <<>>
      BY <1>2, <1>3 DEF Under
    <3>2. Ordered(x, k, ws, <<>>, hung, handed[x])
      BY <1>5, <3>1, OrderedOpens
    <3> QED BY <1>5, <3>2
  <2> QED BY <1>5, <2>5, <2>6 DEF Safe
<1>7. AllSafe(ws, handed)
  BY <1>2, <1>5, <1>6 DEF AllSafe
<1>8. ASSUME NEW k \in Conns PROVE CompleteAt(ws, handed, k)
  <2>1. ~AtHand(ws.conn[k], ws.ready[k])
    BY <1>2, <1>3 DEF AtHand, HasFrame
  <2>2. ~InHand(ws.conn[k], ws.ready[k])
    BY <2>1 DEF AtHand, InHand
  <2> DEFINE e == <<>>
  <2>3. /\ e \in Seq(Units) /\ Texts(e) = {} /\ Len(e) = 0 /\ DOMAIN e = {} /\ 1 .. Len(e) = {}
        /\ Len(e) \in Nat /\ Len(e) <= Len(e)
    BY <1>0 DEF Texts
  <2>4. ws.conn[k].message = <<>>
    BY <1>2, <1>3
  <2>5. in[k] = e /\ said[k] = e /\ handed[k] = e
    BY <1>5
  <2> HIDE DEF e
  <2>6. Follows(Texts(e), e, e, Len(e), Len(e))
    BY <2>3, FollowsNone
  <2>7. AllHanded(ws.conn[k], ws.ready[k], e, e, e)
    BY <2>1, <2>2, <2>3, <2>4, <2>6, CompleteFrom
  <2> QED BY <2>5, <2>7 DEF CompleteAt
<1> QED BY <1>4, <1>7, <1>8 DEF WsInv, AllComplete

\* And every step keeps it.
LEMMA WsStep == WsInv /\ [WsNext]_wsVars => WsInv'
<1> SUFFICES ASSUME WsInv, [WsNext]_wsVars PROVE WsInv'
  OBVIOUS
<1>1. CASE UNCHANGED wsVars
  BY <1>1 DEF wsVars, clientVars, WsInv, WsTyped, AllSafe, Safe, AllComplete, CompleteAt, Odd
<1>2. ASSUME NEW k \in Conns, Server(k) PROVE WsInv'
  BY <1>2, RunStep, ReadSomeStep, WriteEndsStep DEF Server
<1>3. ASSUME NEW k \in Conns, Others(k) PROVE WsInv'
  <2>1. CASE Upgrade(k)
    BY <2>1, UpgradeStep
  <2>2. CASE Lose(k)
    BY <2>2, LoseStep
  <2>8. CASE CutHeader(k)
    BY <2>8, CutHeaderStep
  <2>3. CASE SayInPieces(k)
    BY <2>3, PiecesStep
  <2>4. CASE Ping(k)
    BY <2>4, PingStep
  <2>5. CASE SayClose(k)
    BY <2>5, SayCloseStep
  <2>6. CASE Kick(k)
    BY <2>6, KickStep
  <2>7. ASSUME NEW n \in Loads, Say(k, n) PROVE WsInv'
    <3>1. n \in Nat
      BY <2>7, WsAssumption
    <3> QED BY <2>7, <3>1, SayStep
  <2> QED BY <1>3, <2>1, <2>2, <2>3, <2>4, <2>5, <2>6, <2>7, <2>8 DEF Others
<1> QED BY <1>1, <1>2, <1>3 DEF WsNext

\* In every state that the connections of websocket.h can be in, for any clients and any
\* loads: reads and writes are under way one at a time, as is_reading and sending_buffers_ tell;
\* messages are on their way in their order; what was handed on is what was said.
THEOREM WsInvariance == WsFair => []WsInv
<1>1. WsInit => WsInv
  BY WsInitInv
<1>2. WsInv /\ [WsNext]_wsVars => WsInv'
  BY WsStep
<1> QED BY <1>1, <1>2, PTL DEF WsFair

\* Nothing of a connection outlives it (websocket.h:485-493): when check_destroy deletes it, it is
\* no user, and none of its reads and writes, nor the handler of a write, are under way; of a read
\* only the one that is begun after the close frame that ends the handshake (websocket.h:348-350).
THEOREM NothingIsLeft == WsFair => []NothingDangles
<1>1. WsInv => NothingDangles
  <2> SUFFICES ASSUME WsInv PROVE NothingDangles
    OBVIOUS
  <2>1. ASSUME NEW k \in Conns
        PROVE  /\ (k \in ws.users \/ k \in ws.reads \/ k \in ws.writes) => Live(k)
               /\ \A i \in DOMAIN ws.ready[k] :
                    /\ ws.ready[k][i].what = "write" => Live(k)
                    /\ ws.ready[k][i].what = "read" => Live(k) \/ Shaken(k)
    <3>1. FineAt(ws, k)
      BY SafeParts DEF WsInv
    <3> QED BY <3>1 DEF FineAt, OneAtATime, OnlyLive, LastRead, Live, Shaken
  <2>2. ws.users \subseteq Conns /\ ws.reads \subseteq Conns /\ ws.writes \subseteq Conns
    BY Subsets DEF WsInv, AllSafe
  <2> QED BY <2>1, <2>2 DEF NothingDangles
<1> QED BY <1>1, WsInvariance, PTL

\* What message_handler_ (websocket.h:397-403) is called with, of a client that sends each message
\* in one frame and no header of which arrives in two parts, are its messages, whole, in their order
\* and once, wherever the payloads are cut and whatever the headers of other clients do.
THEOREM MessagesAreWhole == WsFair => []WholeMessages
<1>1. WsInv => WholeMessages
  <2> SUFFICES ASSUME WsInv, NEW k \in Conns \ Odd PROVE IsPrefixOf(handed[k], said[k])
    BY DEF WholeMessages, Odd
  <2>1. handed[k] \in Seq(Units) /\ said[k] \in Seq(Units)
    BY ClientParts
  <2>2. AllHanded(ws.conn[k], ws.ready[k], in[k], said[k], handed[k])
    BY ClientParts
  <2>3. Len(handed[k]) <= Len(said[k]) /\ \A j \in 1 .. Len(handed[k]) : handed[k][j] = said[k][j]
    BY <2>1, <2>2, CompleteParts
  <2> DEFINE h == handed[k]
             all == said[k]
  <2> HIDE DEF h, all
  <2>4. ASSUME h \in Seq(Units), all \in Seq(Units), Len(h) <= Len(all), \A j \in 1 .. Len(h) : h[j] = all[j]
        PROVE  h = SubSeq(all, 1, Len(h))
    BY <2>4
  <2> QED BY <2>1, <2>3, <2>4 DEF IsPrefixOf, h, all
<1> QED BY <1>1, WsInvariance, PTL

\* What a client gets of another's messages is a run of those that were handed on: in their order,
\* none missing in the middle, none twice (websocket.h:454-483, example_ws.cpp:25-32).
THEOREM MessagesInOrder == WsFair => []InOrder
<1>1. WsInv => InOrder
  <2> SUFFICES ASSUME WsInv, NEW k \in Conns, NEW r \in Conns
               PROVE  \E a, b \in 0 .. Len(handed[k]) : Follow(Places(k, got[r]), got[r], handed[k], a, b)
    BY DEF InOrder
  <2>1. Ordered(k, r, ws, got[r], hung, handed[k]) /\ handed[k] \in Seq(Units)
    BY SafeParts DEF WsInv
  <2>2. Arrived(k, got[r], handed[k])
    BY <2>1, OrderedArrives
  <2>3. PICK a \in Nat, b \in Nat : Says(k, got[r], handed[k], a, b) /\ b <= Len(handed[k])
    BY <2>2 DEF Arrived
  <2>4. Follow(Places(k, got[r]), got[r], handed[k], a, b) /\ a <= b
    BY <2>3 DEF Says, Follows
  <2>5. a \in 0 .. Len(handed[k]) /\ b \in 0 .. Len(handed[k])
    BY <2>1, <2>3, <2>4
  <2> QED BY <2>4, <2>5
<1> QED BY <1>1, WsInvariance, PTL

===============================================================================
