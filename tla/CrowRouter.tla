------------------------------- MODULE CrowRouter -------------------------------
(***************************************************************************)
(* routing.h: Router, with one Trie for every method.  The program lists   *)
(* its rules (new_rule_dynamic, new_rule_tagged, methods(), websocket()),  *)
(* validate() puts them in the tries in that order and merges the nodes    *)
(* that need not be apart, and from then on requests are answered.         *)
(*                                                                         *)
(* The path of a rule is a sequence of bytes and parameter tags.           *)
(***************************************************************************)
EXTENDS CrowBytes, FiniteSets, SequencesExt

CONSTANTS
  Catalogue,   \* the rules the program may list:
               \*   [path, methods, socket: websocket() was called, throws: its handler throws];
               \*   each has a handler, validate() throws for one that has none
  MaxRules,    \* bound: how many it lists
  MaxInt       \* the largest integer strtoll reads without ERANGE: LLONG_MAX

RoutableMethods == {DELETE, GET, HEAD, POST, PUT, CONNECT, OPTIONS, TRACE, PATCH, PURGE}
ParamTypes == {"<int>", "<uint>", "<float>", "<str>", "<path>"}
NoParam == [t \in ParamTypes |-> 0]
Redirect == 1   \* RULE_SPECIAL_REDIRECT_SLASH

VARIABLES
  all_rules,   \* Router::all_rules_
  phase,       \* "listing", "adding", "serving", "failed"
  added,       \* how many of the rules validate() has added
  tries,       \* per_methods_[m].trie: the nodes, node 1 the head
  rules        \* per_methods_[m].rules: the rules from index 2 on

rvars == <<all_rules, phase, added, tries, rules>>

EmptyNode == [rule |-> 0, params |-> NoParam, children |-> <<>>]

RouterInit == /\ all_rules = <<>> /\ phase = "listing" /\ added = 0
              /\ tries = [m \in RoutableMethods |-> <<EmptyNode>>]
              /\ rules = [m \in RoutableMethods |-> <<>>]

(***************************************************************************)
(* Trie::add.  children is a function from fragments to nodes; a fragment  *)
(* is one byte until validate() merges nodes.                              *)
(***************************************************************************)
Child(nodes, idx, token) ==
  IF token \in ParamTypes THEN nodes[idx].params[token]
  ELSE IF <<token>> \in DOMAIN nodes[idx].children THEN nodes[idx].children[<<token>>] ELSE 0

WithChild(nodes, idx, token) ==
  LET new == Len(nodes) + 1
      linked == IF token \in ParamTypes THEN [nodes EXCEPT ![idx].params[token] = new]
                ELSE [nodes EXCEPT ![idx].children =
                        [f \in DOMAIN @ \cup {<<token>>} |-> IF f = <<token>> THEN new ELSE @[f]]]
  IN Append(linked, EmptyNode)

\* One token of the path: at is [nodes, idx].
Descend(at, token) ==
  IF Child(at.nodes, at.idx, token) # 0
  THEN [at EXCEPT !.idx = Child(at.nodes, at.idx, token)]
  ELSE [nodes |-> WithChild(at.nodes, at.idx, token), idx |-> Len(at.nodes) + 1]

\* The answer is <<>> when it throws: a handler already exists.
TrieAdd(nodes, path, index) ==
  LET at == FoldLeft(Descend, [nodes |-> nodes, idx |-> 1], path)
  IN IF at.nodes[at.idx].rule # 0 THEN <<>> ELSE [at.nodes EXCEPT ![at.idx].rule = index]

(***************************************************************************)
(* Trie::optimize.                                                         *)
(***************************************************************************)
IsSimpleNode(node) == node.rule = 0 /\ node.params = NoParam

Children(node) == {node.children[f] : f \in DOMAIN node.children}
ParamChildren(node) == {node.params[t] : t \in ParamTypes} \ {0}

\* kv.first + child_kv.first, for every child and every child of it.
Merged(nodes, k) ==
  LET cs == nodes[k].children
      pairs == UNION {{f} \X DOMAIN nodes[cs[f]].children : f \in DOMAIN cs}
  IN [w \in {p[1] \o p[2] : p \in pairs} |->
        LET p == CHOOSE p \in pairs : p[1] \o p[2] = w IN nodes[cs[p[1]]].children[p[2]]]

RECURSIVE OptimizeNode(_, _)
OptimizeNode(nodes, k) ==
  LET each(acc, c) == OptimizeNode(acc, c)
      below == FoldLeft(each, nodes, SetToSeq(ParamChildren(nodes[k])))
      merge == \A c \in Children(below[k]) : IsSimpleNode(below[c])
  IN IF Children(below[k]) = {} THEN below
     ELSE IF merge THEN OptimizeNode([below EXCEPT ![k].children = Merged(below, k)], k)
     ELSE FoldLeft(each, below, SetToSeq(Children(below[k])))

(***************************************************************************)
(* Trie::find.  A parameter takes what strtoll, strtoull, strtod or the    *)
(* next '/' give it; of the rules that match, the one listed first wins.   *)
(***************************************************************************)
\* The end of the run of bytes from pos on (0 bytes consumed so far) in a set.
RunEnd(url, pos, set) ==
  CHOOSE e \in pos .. Len(url) :
    /\ \A i \in pos + 1 .. e : url[i] \in set
    /\ e = Len(url) \/ url[e + 1] \notin set

DigitSet == {Digits[i] : i \in 1 .. 10}
Signed(url, pos, signs) == IF url[pos + 1] \in signs THEN pos + 1 ELSE pos

\* strtoll, strtoull: where the number ends, pos if there is none.
IntegerEnd(url, pos, signs) ==
  LET start == Signed(url, pos, signs)
      e == RunEnd(url, start, DigitSet)
  IN IF e = start THEN pos ELSE e
\* errno # ERANGE: LLONG_MIN and ULLONG_MAX lie where they do.
RECURSIVE ValueAt(_, _, _)
ValueAt(url, from, to) ==
  IF from > to THEN 0 ELSE ValueAt(url, from, to - 1) * 10 + DigitOf(url[to])
InRange(url, pos, to, limit) ==
  ValueAt(url, Signed(url, pos, {"+", "-"}) + 1, to) <= limit

\* strtod, without exponents, infinities and NaN.
DoubleEnd(url, pos) ==
  LET start == Signed(url, pos, {"+", "-"})
      whole == RunEnd(url, start, DigitSet)
      dot == whole < Len(url) /\ url[whole + 1] = "."
      part == IF dot THEN RunEnd(url, whole + 1, DigitSet) ELSE whole
      digits == (whole - start) + (IF dot THEN part - whole - 1 ELSE 0)
  IN IF digits = 0 THEN pos ELSE part

\* Where a parameter of type t ends that begins after pos; pos if it cannot.
ParamEnd(url, pos, t) ==
  CASE t = "<int>" -> LET e == IntegerEnd(url, pos, {"+", "-"})
                          limit == IF url[pos + 1] = "-" THEN MaxInt + 1 ELSE MaxInt
                      IN IF e > pos /\ InRange(url, pos, e, limit) THEN e ELSE pos
    [] t = "<uint>" -> LET e == IntegerEnd(url, pos, {"+"})
                       IN IF e > pos /\ InRange(url, pos, e, 2 * MaxInt + 1) THEN e ELSE pos
    [] t = "<float>" -> DoubleEnd(url, pos)
    [] t = "<str>" -> RunEnd(url, pos, {url[i] : i \in DOMAIN url} \ {"/"})
    [] t = "<path>" -> Len(url)

NotFound == [rule |-> 0, params |-> <<>>]
\* Mutant of Better: the rule that is found first stays, whichever was listed first.
BetterFirst(found, ret) == IF found.rule = 0 THEN ret ELSE found

\* update_found.
Better(found, ret) ==
  IF ret.rule # 0 /\ (found.rule = 0 \/ ret.rule < found.rule) THEN ret ELSE found

RECURSIVE Find(_, _, _, _, _)
Find(nodes, url, k, pos, params) ==
  LET byParam(found, t) ==
        LET e == ParamEnd(url, pos, t)
        IN IF nodes[k].params[t] = 0 \/ e = pos THEN found
           ELSE Better(found, Find(nodes, url, nodes[k].params[t], e,
                                   Append(params, <<t, SubSeq(url, pos + 1, e)>>)))
      byFragment(found, f) ==
        IF pos + Len(f) > Len(url) \/ SubSeq(url, pos + 1, pos + Len(f)) # f THEN found
        ELSE Better(found, Find(nodes, url, nodes[k].children[f], pos + Len(f), params))
  IN IF pos = Len(url) THEN [rule |-> nodes[k].rule, params |-> params]
     ELSE FoldLeft(byFragment,
            FoldLeft(byParam, NotFound, <<"<int>", "<uint>", "<float>", "<str>", "<path>">>),
            SetToSeq(DOMAIN nodes[k].children))

(***************************************************************************)
(* The program starts.                                                     *)
(***************************************************************************)
\* CROW_ROUTE.
NewRule == \E r \in Catalogue :
  /\ phase = "listing" /\ Len(all_rules) < MaxRules
  /\ all_rules' = Append(all_rules, r)
  /\ UNCHANGED <<phase, added, tries, rules>>

\* validate() begins: from here on no rule is listed.
Validate == /\ phase = "listing" /\ phase' = "adding"
            /\ UNCHANGED <<all_rules, added, tries, rules>>

\* upgrade(): the rule of a websocket is a new one with the path of the old one
\* and the methods of a new one.
Effective(r) == IF r.socket THEN [r EXCEPT !.methods = {GET}] ELSE r

\* internal_add_rule_object for one method: the rule, and for a path that ends in
\* a slash the path without it.  <<>>: add has thrown, and the program does not start.
AddTo(m, r) ==
  LET index == Len(rules[m]) + 2
      once == TrieAdd(tries[m], r.path, index)
      slash == Len(r.path) > 1 /\ Last(r.path) = "/"
  IN IF once # <<>> /\ slash THEN TrieAdd(once, Front(r.path), Redirect) ELSE once

AddRule ==
  LET r == Effective(all_rules[added + 1])
  IN /\ phase = "adding" /\ added < Len(all_rules)
     /\ IF \E m \in r.methods : AddTo(m, r) = <<>>
        THEN phase' = "failed" /\ UNCHANGED <<all_rules, added, tries, rules>>
        ELSE /\ tries' = [m \in RoutableMethods |-> IF m \in r.methods THEN AddTo(m, r) ELSE tries[m]]
             /\ rules' = [m \in RoutableMethods |->
                            IF m \in r.methods THEN Append(rules[m], r) ELSE rules[m]]
             /\ added' = added + 1 /\ UNCHANGED <<all_rules, phase>>

\* Trie::validate for every method.
Serve ==
  /\ phase = "adding" /\ added = Len(all_rules)
  /\ IF \A m \in RoutableMethods : IsSimpleNode(tries[m][1])
     THEN /\ tries' = [m \in RoutableMethods |-> OptimizeNode(tries[m], 1)]
          /\ phase' = "serving"
     ELSE phase' = "failed" /\ UNCHANGED tries
  /\ UNCHANGED <<all_rules, added, rules>>

RouterNext == NewRule \/ Validate \/ AddRule \/ Serve

(***************************************************************************)
(* Router::handle and Router::handle_upgrade.  code 0: no answer is given. *)
(***************************************************************************)
Answer(method, url, upgrading) ==
  LET found == Find(tries[method], url, 1, 0, <<>>)
      r == rules[method][found.rule - 1]
      status == IF r.socket # upgrading THEN 404 ELSE IF upgrading THEN 101
                ELSE IF r.throws THEN 500 ELSE 200
  IN IF method \notin RoutableMethods THEN [code |-> 0]
     ELSE IF found.rule = 0 THEN [code |-> 404]
     ELSE IF found.rule = Redirect THEN [code |-> 301, location |-> Append(url, "/")]
     ELSE [code |-> status, rule |-> r, params |-> found.params]

(***************************************************************************)
(* What the program that lists the rules may rely on.                      *)
(***************************************************************************)
\* A rule read from left to right against a URL.
Reads(path, url) ==
  LET step(at, token) ==
        LET e == IF token \in ParamTypes
                 THEN IF at.pos < Len(url) THEN ParamEnd(url, at.pos, token) ELSE at.pos
                 ELSE IF at.pos < Len(url) /\ url[at.pos + 1] = token THEN at.pos + 1 ELSE at.pos
        IN [ok |-> at.ok /\ e > at.pos, pos |-> e,
            params |-> IF token \in ParamTypes
                       THEN Append(at.params, <<token, SubSeq(url, at.pos + 1, e)>>) ELSE at.params]
      end == FoldLeft(step, [ok |-> TRUE, pos |-> 0, params |-> <<>>], path)
  IN [ok |-> end.ok /\ end.pos = Len(url), params |-> end.params]

ListedFor(m) == SelectSeq([i \in DOMAIN all_rules |-> Effective(all_rules[i])],
                          LAMBDA r : m \in r.methods)
EndsInSlash(r) == Len(r.path) > 1 /\ Last(r.path) = "/"

Promised(m, url, upgrading) ==
  LET listed == ListedFor(m)
      slash == \E i \in DOMAIN listed : EndsInSlash(listed[i]) /\ Reads(Front(listed[i].path), url).ok
      hits == {i \in DOMAIN listed : Reads(listed[i].path, url).ok}
      r == listed[CHOOSE i \in hits : \A j \in hits : i <= j]
      works == IF r.socket # upgrading THEN 404 ELSE IF upgrading THEN 101
               ELSE IF r.throws THEN 500 ELSE 200
  IN IF m \notin RoutableMethods THEN [code |-> 0]
     ELSE IF slash THEN [code |-> 301, location |-> Append(url, "/")]
     ELSE IF hits = {} THEN [code |-> 404]
     ELSE [code |-> works, rule |-> r, params |-> Reads(r.path, url).params]

\* The paths a rule claims in the trie of a method it has.
Claims(r) == {r.path} \cup IF EndsInSlash(r) THEN {Front(r.path)} ELSE {}
Conflict == \E m \in RoutableMethods : \E i, j \in DOMAIN ListedFor(m) :
              i < j /\ Claims(ListedFor(m)[i]) \cap Claims(ListedFor(m)[j]) # {}
=============================================================================
