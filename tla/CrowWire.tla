------------------------------- MODULE CrowWire -------------------------------
(***************************************************************************)
(* What a client that writes requests means by the bytes it sends: the     *)
(* reference the parser is held to.  A request is a record                 *)
(*   [method, path, query, fragment, minor, eol, headers, framing, body]   *)
(* with query a sequence of <<name, value>>, eol what ends its lines,      *)
(* headers a sequence of <<name, value, the value as it is sent>>, and     *)
(* framing "none", "length" (Content-Length, the last header) or           *)
(* "chunked": the body is then a sequence of chunks.                       *)
(***************************************************************************)
EXTENDS CrowBytes, SequencesExt

Header(name, value) == <<name, value, value>>
\* A value that goes on in a second line.
Folded(name, first, rest) ==
  <<name, first \o <<SP>> \o rest, first \o <<CR, LF, SP>> \o rest>>

ColonSp == <<":", SP>>
HexDigit(n) == IF n < 10 THEN Digits[n + 1] ELSE Lowers[n - 9]
Decimal(n) == IF n < 10 THEN <<HexDigit(n)>> ELSE <<HexDigit(n \div 10), HexDigit(n % 10)>>
Hexadecimal(n) == IF n < 16 THEN <<HexDigit(n)>> ELSE <<HexDigit(n \div 16), HexDigit(n % 16)>>

\* Names and values in a URL: what would mean something else there is escaped.
EscapedByte(c) == CASE c = SP -> <<"+">> [] c = "&" -> <<"%", "2", "6">>
                    [] c = "=" -> <<"%", "3", "d">> [] c = "+" -> <<"%", "2", "B">>
                    [] OTHER -> <<c>>
EscapedText(s) == FoldLeft(LAMBDA acc, c : acc \o EscapedByte(c), <<>>, s)
Target(r) ==
  LET pair(i) == EscapedText(r.query[i][1]) \o <<"=">> \o EscapedText(r.query[i][2])
      join(acc, i) == acc \o <<IF i = 1 THEN "?" ELSE "&">> \o pair(i)
  IN FoldLeft(join, r.path, [i \in DOMAIN r.query |-> i]) \o r.fragment

\* The headers with the one the framing asks for.
AllHeaders(r) ==
  r.headers \o CASE r.framing = "none" -> <<>>
                 [] r.framing = "length" -> <<Header(CONTENT_LENGTH, Decimal(Len(r.body)))>>
                 [] r.framing = "chunked" -> <<Header(TRANSFER_ENCODING, CHUNKED)>>

Wire(r) ==
  LET line(h) == h[1] \o ColonSp \o h[3] \o r.eol
      chunk(c) == Hexadecimal(Len(c)) \o r.eol \o c \o r.eol
      Flat(Op(_), s) == FoldLeft(LAMBDA acc, x : acc \o Op(x), <<>>, s)
  IN r.method \o <<SP>> \o Target(r) \o <<SP, "H", "T", "T", "P", "/", "1", ".">> \o Decimal(r.minor)
     \o r.eol \o Flat(line, AllHeaders(r)) \o r.eol
     \o CASE r.framing = "chunked" -> Flat(chunk, r.body) \o <<"0">> \o r.eol \o r.eol
          [] OTHER -> r.body

WireAll(sent) == FoldLeft(LAMBDA acc, r : acc \o Wire(r), <<>>, sent)

Lowered(w) == [i \in DOMAIN w |-> Lower(w[i])]
Says(r, name, value) ==
  \E i \in DOMAIN r.headers : Lowered(r.headers[i][1]) = name /\ Lowered(r.headers[i][2]) = value

\* The request is the last one its connection can carry.
IsLast(r) ==
  \/ r.minor > 0 /\ (Says(r, CONNECTION, CLOSE) \/ Says(r, PROXY_CONNECTION, CLOSE))
  \/ r.minor = 0 /\ ~Says(r, CONNECTION, KEEP_ALIVE)

\* A header with an empty value is lost when another one follows it: on_header_field
\* stores only what has a value, on_headers_complete the last header whatever it has.
KeptHeaders(r) ==
  LET hs == [i \in DOMAIN AllHeaders(r) |-> <<AllHeaders(r)[i][1], AllHeaders(r)[i][2]>>]
      hasValue(h) == h[2] # <<>>
  IN IF hs = <<>> THEN <<>> ELSE SelectSeq(Front(hs), hasValue) \o <<Last(hs)>>

Meant(r) ==
  [method |-> r.method, raw_url |-> Target(r),
   url |-> IF r.query = <<>> THEN r.path \o r.fragment ELSE r.path,
   headers |-> KeptHeaders(r),
   body |-> IF r.framing = "chunked" THEN FlattenSeq(r.body) ELSE r.body]

\* The requests the server may see of what was sent.
Seen(sent) ==
  LET i == SelectInSeq(sent, IsLast)
      taken == IF i = 0 THEN sent ELSE SubSeq(sent, 1, i)
  IN [j \in DOMAIN taken |-> Meant(taken[j])]

\* What the handler may ask of the query: the values of a name, in their order.
ValuesOf(query, name) ==
  LET named(p) == p[1] = name
      hits == SelectSeq(query, named)
  IN [i \in DOMAIN hits |-> hits[i][2]]
\* The keys of name[key], each with its first value.
DictOf(query, name) ==
  LET keys == {k \in UNION {{SubSeq(query[i][1], Len(name) + 2, Len(query[i][1]) - 1)} :
                              i \in DOMAIN query} :
                 \E i \in DOMAIN query : query[i][1] = name \o <<"[">> \o k \o <<"]">>}
  IN {<<k, ValuesOf(query, name \o <<"[">> \o k \o <<"]">>)[1]>> : k \in keys}
=============================================================================
