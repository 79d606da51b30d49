------------------------------- MODULE CrowQuery -------------------------------
(***************************************************************************)
(* query_string.h: the key/value pairs of a URL.  qs_parse cuts the bytes  *)
(* after the first '?' or '#' at each '&' and decodes the values in place; *)
(* the keys stay encoded and are decoded when they are compared.  A pair   *)
(* is kept as the C string it is in memory: the bytes before its NUL.      *)
(***************************************************************************)
EXTENDS CrowMessage, FiniteSets

CONSTANT MaxPairs   \* MAX_KEY_VALUE_PAIRS_COUNT

ASSUME PairsAssumption == MaxPairs \in Nat \ {0}

\* CROW_QS_ISQSCHR.
Delimiters == {"=", "#", "&", NUL}

\* The byte of a %XX, for the codes a key or a value here may have.
ByteOf(n) == CASE n = 0 -> NUL [] n = 32 -> SP [] n = 35 -> "#" [] n = 37 -> "%"
               [] n = 38 -> "&" [] n = 43 -> "+" [] n = 61 -> "=" [] n = 63 -> "?"
               [] n = 91 -> "[" [] n = 93 -> "]"
               [] n \in 48 .. 57 -> Digits[n - 47]
               [] n \in 65 .. 90 -> Uppers[n - 64] [] n \in 97 .. 122 -> Lowers[n - 96]
               [] OTHER -> "other"
Escaped(s, i) == i + 2 <= Len(s) /\ IsHex(s[i + 1]) /\ IsHex(s[i + 2])

\* The bytes s stands for, up to a delimiter; bad is what an escape that is none
\* leaves: nothing (qs_decode) or a NUL (qs_strncmp).
DecodedOr(s, bad) ==
  LET from[i \in 1 .. Len(s) + 1] ==
        IF i > Len(s) \/ (i <= Len(s) /\ s[i] \in Delimiters) THEN <<>>
        ELSE IF s[i] = "%"
        THEN IF Escaped(s, i) THEN <<ByteOf(HexOf(s[i + 1]) * 16 + HexOf(s[i + 2]))>> \o from[i + 3]
             ELSE bad
        ELSE <<IF s[i] = "+" THEN SP ELSE s[i]>> \o from[i + 1]
  IN from[1]

\* Mutant of Decode: '+' and escapes are left as they are.
DecodeRaw(s) == Before(s, Delimiters)

\* qs_decode: a NUL the value holds ends the string.
Decode(s) == Before(DecodedOr(s, <<>>), {NUL})

\* The bytes between the ampersands.
Split(s) ==
  LET cuts == {i \in DOMAIN s : s[i] = "&"}
      nth(k) == CHOOSE i \in cuts : Cardinality({j \in cuts : j < i}) = k - 1
      first(k) == IF k = 1 THEN 1 ELSE nth(k - 1) + 1
      last(k) == IF k = Cardinality(cuts) + 1 THEN Len(s) ELSE nth(k) - 1
  IN [k \in 1 .. Cardinality(cuts) + 1 |-> SubSeq(s, first(k), last(k))]

\* One pair after the second loop of qs_parse.
Pair(s) ==
  LET key == Before(s, {"=", "&", "#"})
  IN IF Len(key) = Len(s) THEN key
     ELSE key \o <<s[Len(key) + 1]>> \o Decode(SubSeq(s, Len(key) + 2, Len(s)))

\* qs_parse, for a URL with at most MaxPairs pairs: with one more the loop ends
\* before it has found the end, and counts and decodes a slot beyond the array.
Parse(url) ==
  LET path == Before(url, {"?", "#"})
      pairs == Split(SubSeq(url, Len(path) + 2, Len(url)))
  IN IF Len(path) = Len(url) THEN <<>>
     ELSE [i \in 1 .. Len(pairs) |-> Pair(pairs[i])]
Fits(url) == Cardinality({i \in DOMAIN url : url[i] = "&"}) < MaxPairs

\* qs_strncmp(name, pair, Len(name)) = 0.  Both sides are decoded as they are read,
\* the name as well, and a delimiter in it is its end: a name with one of them has to
\* be asked for as the URL spells it.
Text(s) == DecodedOr(s, <<NUL>>)
IsPlain(name) == \A i \in DOMAIN name : name[i] \notin Delimiters \cup {"%"}
Matches(name, pair) ==
  IF IsPlain(name) THEN Text(pair) = Text(name)
  ELSE Before(Text(pair), {NUL}) = Before(Text(name), {NUL})

\* What follows the first '='.
ValueOf(pair) == LET key == Before(pair, {"="}) IN SubSeq(pair, Len(key) + 2, Len(pair))

\* The k-th pair, from 0, that passes a test of qs_k2v or qs_dict_name2kv.
Nth(ps, hits, k) ==
  CHOOSE i \in hits : Cardinality({j \in hits : j < i}) = k

\* get: the value of the first pair of that name; a sequence of at most one value.
Get(ps, name) ==
  LET hits == {i \in DOMAIN ps : Matches(name, ps[i])}
  IN IF hits = {} THEN <<>> ELSE <<ValueOf(ps[Nth(ps, hits, 0)])>>

\* get_list: the values of name[].
GetList(ps, name) ==
  LET hits == {i \in DOMAIN ps : Matches(name \o <<"[", "]">>, ps[i])}
  IN [k \in 1 .. Cardinality(hits) |-> ValueOf(ps[Nth(ps, hits, k - 1)])]

\* qs_dict_name2kv: a pair that begins with name counts; one whose brackets are in
\* the wrong order ends the search.
StartsWith(s, t) == Len(t) <= Len(s) /\ SubSeq(s, 1, Len(t)) = t
BraceOpen(pair) == LET n == Len(Before(pair, {"["})) IN IF n < Len(pair) THEN n + 1 ELSE n
BraceClose(pair) == Len(Before(pair, {"]"}))
Bracketed(pair) == /\ BraceOpen(pair) <= BraceClose(pair)
                   /\ BraceOpen(pair) > 0 /\ BraceClose(pair) > 0
DictKey(pair) == SubSeq(pair, BraceOpen(pair) + 1, BraceClose(pair))

\* get_dict: the first value of each key; a set of <<key, value>>.
GetDict(ps, name) ==
  LET hits == {i \in DOMAIN ps : StartsWith(ps[i], name)}
      taken == {i \in hits : \A j \in hits : j <= i => Bracketed(ps[j])}
  IN {<<DictKey(ps[i]), ValueOf(ps[i])>> :
        i \in {i \in taken : \A j \in taken : j < i => DictKey(ps[j]) # DictKey(ps[i])}}
=============================================================================
