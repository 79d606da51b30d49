------------------------------ MODULE CrowBytes ------------------------------
(***************************************************************************)
(* The bytes of a request as http_parser_merged.h sorts them: the classes  *)
(* of its macros and tables, the words it compares byte by byte, and the   *)
(* transition function of its URL parser.  A byte is a string: the         *)
(* character itself, or its name for the ones that cannot be seen.         *)
(***************************************************************************)
EXTENDS Naturals, Sequences

CR == "CR"
LF == "LF"
SP == "SP"
TAB == "TAB"
NUL == "NUL"

Uppers == <<"A", "B", "C", "D", "E", "F", "G", "H", "I", "J", "K", "L", "M",
            "N", "O", "P", "Q", "R", "S", "T", "U", "V", "W", "X", "Y", "Z">>
Lowers == <<"a", "b", "c", "d", "e", "f", "g", "h", "i", "j", "k", "l", "m",
            "n", "o", "p", "q", "r", "s", "t", "u", "v", "w", "x", "y", "z">>
Digits == <<"0", "1", "2", "3", "4", "5", "6", "7", "8", "9">>
HexDigits == SubSeq(Lowers, 1, 6)

InSeq(c, s) == \E i \in DOMAIN s : s[i] = c
PlaceIn(c, s) == CHOOSE i \in DOMAIN s : s[i] = c

\* CROW_LOWER (c | 0x20): letters lose their case.  What it makes of the bytes that
\* are no letters is never one of the words' bytes, so they stay.
Lower(c) == IF InSeq(c, Uppers) THEN Lowers[PlaceIn(c, Uppers)] ELSE c

IsAlpha(c) == InSeq(c, Uppers) \/ InSeq(c, Lowers)
IsNum(c) == InSeq(c, Digits)
DigitOf(c) == PlaceIn(c, Digits) - 1

\* The table unhex: -1 is "no digit", here a value of IsHex.
IsHex(c) == IsNum(c) \/ InSeq(Lower(c), HexDigits)
HexOf(c) == IF IsNum(c) THEN DigitOf(c) ELSE 9 + PlaceIn(Lower(c), HexDigits)

Marks == {"-", "_", ".", "!", "~", "*", "'", "(", ")"}
IsUserinfoChar(c) ==
  IsAlpha(c) \/ IsNum(c) \/ c \in Marks \cup {"%", ";", ":", "&", "=", "+", "$", ","}

\* normal_url_char under CROW_HTTP_PARSER_STRICT: what is printable, but the
\* two delimiters.
IsUrlChar(c) ==
  \/ IsUserinfoChar(c)
  \/ c \in {"/", "@", "[", "]", "<", ">", "\"", "\\", "^", "BACKQUOTE", "{", "|", "}"}

\* The table tokens: a byte a header name may hold, in lower case; any other
\* byte is 0 there.
IsToken(c) == IsAlpha(c) \/ IsNum(c) \/ c \in {"!", "#", "$", "%", "&", "'", "*",
                                              "+", "-", ".", "^", "_", "BACKQUOTE", "|", "~"}

(***************************************************************************)
(* The words.                                                              *)
(***************************************************************************)
DELETE == <<"D", "E", "L", "E", "T", "E">>
GET == <<"G", "E", "T">>
HEAD == <<"H", "E", "A", "D">>
POST == <<"P", "O", "S", "T">>
PUT == <<"P", "U", "T">>
CONNECT == <<"C", "O", "N", "N", "E", "C", "T">>
OPTIONS == <<"O", "P", "T", "I", "O", "N", "S">>
TRACE == <<"T", "R", "A", "C", "E">>
PATCH == <<"P", "A", "T", "C", "H">>
PURGE == <<"P", "U", "R", "G", "E">>
COPY == <<"C", "O", "P", "Y">>
LOCK == <<"L", "O", "C", "K">>
MKCOL == <<"M", "K", "C", "O", "L">>
MOVE == <<"M", "O", "V", "E">>
PROPFIND == <<"P", "R", "O", "P", "F", "I", "N", "D">>
PROPPATCH == <<"P", "R", "O", "P", "P", "A", "T", "C", "H">>
SEARCH == <<"S", "E", "A", "R", "C", "H">>
UNLOCK == <<"U", "N", "L", "O", "C", "K">>
REPORT == <<"R", "E", "P", "O", "R", "T">>
MKACTIVITY == <<"M", "K", "A", "C", "T", "I", "V", "I", "T", "Y">>
CHECKOUT == <<"C", "H", "E", "C", "K", "O", "U", "T">>
MERGE == <<"M", "E", "R", "G", "E">>
MSEARCH == <<"M", "-", "S", "E", "A", "R", "C", "H">>
NOTIFY == <<"N", "O", "T", "I", "F", "Y">>
SUBSCRIBE == <<"S", "U", "B", "S", "C", "R", "I", "B", "E">>
UNSUBSCRIBE == <<"U", "N", "S", "U", "B", "S", "C", "R", "I", "B", "E">>
MKCALENDAR == <<"M", "K", "C", "A", "L", "E", "N", "D", "A", "R">>

\* CROW_HTTP_METHOD_MAP; a method is its spelling.
Methods == {DELETE, GET, HEAD, POST, PUT, CONNECT, OPTIONS, TRACE, PATCH, PURGE, COPY,
            LOCK, MKCOL, MOVE, PROPFIND, PROPPATCH, SEARCH, UNLOCK, REPORT, MKACTIVITY,
            CHECKOUT, MERGE, MSEARCH, NOTIFY, SUBSCRIBE, UNSUBSCRIBE, MKCALENDAR}

\* The methods the first byte may still become: s_start_req takes the first one
\* and s_req_method changes its mind.
FirstMethods == {CONNECT, DELETE, GET, HEAD, LOCK, MKCOL, NOTIFY, OPTIONS, POST,
                 REPORT, SUBSCRIBE, TRACE, UNLOCK}

\* <<method so far, index, byte, method from here on>>
MethodSwitches ==
  {<<CONNECT, 1, "H", CHECKOUT>>, <<CONNECT, 2, "P", COPY>>,
   <<MKCOL, 1, "O", MOVE>>, <<MKCOL, 1, "E", MERGE>>, <<MKCOL, 1, "-", MSEARCH>>,
   <<MKCOL, 2, "A", MKACTIVITY>>, <<MKCOL, 3, "A", MKCALENDAR>>,
   <<SUBSCRIBE, 1, "E", SEARCH>>,
   <<POST, 1, "R", PROPFIND>>, <<POST, 1, "U", PUT>>, <<POST, 1, "A", PATCH>>,
   <<PUT, 2, "R", PURGE>>, <<UNLOCK, 2, "S", UNSUBSCRIBE>>,
   <<PROPFIND, 4, "P", PROPPATCH>>}

CONNECTION == <<"c", "o", "n", "n", "e", "c", "t", "i", "o", "n">>
PROXY_CONNECTION == <<"p", "r", "o", "x", "y", "-">> \o CONNECTION
CONTENT_LENGTH == <<"c", "o", "n", "t", "e", "n", "t", "-", "l", "e", "n", "g", "t", "h">>
TRANSFER_ENCODING == <<"t", "r", "a", "n", "s", "f", "e", "r", "-",
                       "e", "n", "c", "o", "d", "i", "n", "g">>
UPGRADE == <<"u", "p", "g", "r", "a", "d", "e">>
CHUNKED == <<"c", "h", "u", "n", "k", "e", "d">>
KEEP_ALIVE == <<"k", "e", "e", "p", "-", "a", "l", "i", "v", "e">>
CLOSE == <<"c", "l", "o", "s", "e">>

\* The step every h_matching_* case takes: i is parser->index after its
\* increment, counted from 0 as there; the answer is "fail", "more" or "whole".
MatchStep(word, i, c) ==
  IF i >= Len(word) \/ c # word[i + 1] THEN "fail"
  ELSE IF i = Len(word) - 1 THEN "whole" ELSE "more"

(***************************************************************************)
(* parse_url_char(s, ch).                                                  *)
(***************************************************************************)
ServerStates == {"s_req_server_start", "s_req_server", "s_req_server_with_at"}
QueryStates == {"s_req_query_string_start", "s_req_query_string"}

ParseUrlChar(s, ch) ==
  CASE s = "s_req_spaces_before_url" /\ ch \in {"/", "*"} -> "s_req_path"
    [] s = "s_req_spaces_before_url" /\ IsAlpha(ch) -> "s_req_schema"
    [] s = "s_req_schema" /\ IsAlpha(ch) -> "s_req_schema"
    [] s = "s_req_schema" /\ ch = ":" -> "s_req_schema_slash"
    [] s = "s_req_schema_slash" /\ ch = "/" -> "s_req_schema_slash_slash"
    [] s = "s_req_schema_slash_slash" /\ ch = "/" -> "s_req_server_start"
    [] s \in ServerStates /\ ch = "/" -> "s_req_path"
    [] s \in ServerStates /\ ch = "?" -> "s_req_query_string_start"
    [] s \in ServerStates \ {"s_req_server_with_at"} /\ ch = "@" -> "s_req_server_with_at"
    [] s \in ServerStates /\ (IsUserinfoChar(ch) \/ ch \in {"[", "]"}) -> "s_req_server"
    [] s = "s_req_path" /\ IsUrlChar(ch) -> "s_req_path"
    [] s = "s_req_path" /\ ch = "?" -> "s_req_query_string_start"
    [] s \in QueryStates /\ (IsUrlChar(ch) \/ ch = "?") -> "s_req_query_string"
    [] s \in QueryStates \cup {"s_req_path"} /\ ch = "#" -> "s_req_fragment_start"
    [] s = "s_req_fragment_start" /\ ch = "#" -> "s_req_fragment_start"
    [] s = "s_req_fragment_start" /\ (IsUrlChar(ch) \/ ch = "?") -> "s_req_fragment"
    [] s = "s_req_fragment" /\ (IsUrlChar(ch) \/ ch \in {"?", "#"}) -> "s_req_fragment"
    [] OTHER -> "s_dead"
=============================================================================
