------------------------ MODULE ChatServerThreadsProofs ------------------------
(***************************************************************************)
(* What every interleaving of the handlers keeps, for any number of threads *)
(* and of requests.  Each dictionary of lists has one owner for good, even  *)
(* when a second sign-up of his name has replaced it; a thread only touches *)
(* a list of its caller about its target, or of its target about its        *)
(* caller; and the id of a message belongs to the thread that has drawn it. *)
(* When friends only send, every message has a thread that delivers it      *)
(* until it is delivered.                                                   *)
(***************************************************************************)
EXTENDS ChatServerLoads, FiniteSetTheorems, SequenceTheorems, WellFoundedInduction, TLAPS

-----------------------------------------------------------------------------
(* The invariant.                                                           *)

Dict == UNION {[S -> Seq(Message)] : S \in SUBSET Names}

PCs == {"scan", "add", "mkdir", "sub", "newdict",
        "check", "befriend", "newlist", "mkdir_friend",
        "forget", "drop", "rmtree",
        "lookup", "append", "save", "imwrite", "iterate", "find", "known",
        "len", "match", "type", "unlink", "pop"}

Busy == [pc : PCs, op : Endpoints, token : Nat, user : Names, target : Names, id : Nat,
         side : {"self", "opposite"}, dict : Nat, key : Names, i : Nat, n : Nat, keys : Nat]

Typed ==
    /\ accounts \in Seq(Account)
    /\ dicts \in Seq(Dict)
    /\ DOMAIN current \subseteq Names /\ IsFiniteSet(DOMAIN current)
    /\ \A u \in DOMAIN current : current[u] \in DOMAIN dicts
    /\ next_id \in Nat
    /\ job \in [Workers -> {Idle} \cup Busy]

\* A job has a list at hand from lookup on; one that sends has an id, too.
Using == {"append", "save", "imwrite", "iterate", "find", "known",
          "len", "match", "type", "unlink", "pop"}
Drawn(j) == j.pc \in {"append", "save", "imwrite", "iterate", "find", "known"} /\ j.op \in Sends
MessageOf(j) ==
    [id |-> j.id, from |-> j.user, to |-> j.target,
     kind |-> IF j.op = "put_messages" THEN "Generic" ELSE "Attachment"]
Unsent(j) == j.pc = "append" /\ j.side = "self"

\* The list at hand is between the caller and the target.
UsesItsList(own, j) ==
    j.pc \in Using =>
        \/ /\ j.side = "self" /\ j.key = j.target
           /\ j.dict \in DOMAIN dicts /\ own[j.dict] = j.user
        \/ /\ j.side = "opposite" /\ j.key = j.user
           /\ \/ j.dict \in DOMAIN dicts /\ own[j.dict] = j.target
              \/ j.dict = 0 /\ j.pc = "known"

InStep(j) ==
    /\ j.pc = "lookup" => j.side = "self" /\ j.key = j.target
    /\ j.pc = "append" => j.op \in Sends
    /\ j.pc = "known" => j.side = "opposite"
    /\ j.pc \in {"len", "match", "type", "unlink", "pop"} => j.op \notin Sends
    /\ j.pc \in {"match", "type", "unlink", "pop"} => j.i >= 1

\* What is stored under an id that has been drawn is the message of that thread,
\* in a dictionary of its caller, and nothing is before it is appended.
OwnsItsId(own, j) ==
    Drawn(j) =>
        /\ j.id < next_id
        /\ \A i \in DOMAIN dicts : \A k \in DOMAIN dicts[i] : \A m \in ToSet(dicts[i][k]) :
              m.id = j.id => m = MessageOf(j) /\ own[i] = j.user /\ ~ Unsent(j)

JobOK(own, j) == UsesItsList(own, j) /\ InStep(j) /\ OwnsItsId(own, j)

\* A list is about its owner and its key, and holds nothing twice if these differ.
ListsOK(own) ==
    \A i \in DOMAIN dicts : \A k \in DOMAIN dicts[i] :
        /\ own[i] # k => IsInjective(dicts[i][k])
        /\ \A m \in ToSet(dicts[i][k]) :
              {m.from, m.to} = {own[i], k} /\ m.id < next_id

OneId ==
    \A i, j \in DOMAIN dicts : \A k \in DOMAIN dicts[i], l \in DOMAIN dicts[j] :
        \A m \in ToSet(dicts[i][k]), n \in ToSet(dicts[j][l]) : m.id = n.id => m = n

OwnIds ==
    \A w, x \in Workers : Drawn(job[w]) /\ Drawn(job[x]) /\ w # x => job[w].id # job[x].id

Owned(own) ==
    /\ own \in [DOMAIN dicts -> Names]
    /\ \A u \in DOMAIN current : own[current[u]] = u
    /\ ListsOK(own)
    /\ OneId
    /\ OwnIds
    /\ \A w \in Workers : JobOK(own, job[w])

IInv == Typed /\ \E own \in [DOMAIN dicts -> Names] : Owned(own)

-----------------------------------------------------------------------------
(* Lists.                                                                   *)

\* A position dropped from a list: nothing new comes in, nothing is doubled.
LEMMA RemoveAtShrinks ==
    ASSUME NEW S, NEW s \in Seq(S), NEW k \in DOMAIN s
    PROVE  /\ RemoveAt(s, k) \in Seq(S)
           /\ ToSet(RemoveAt(s, k)) \subseteq ToSet(s)
           /\ IsInjective(s) => IsInjective(RemoveAt(s, k))
<1> DEFINE a == SubSeq(s, 1, k - 1)
           b == SubSeq(s, k + 1, Len(s))
           t == a \o b
           at(j) == IF j < k THEN j ELSE j + 1
<1>1. Len(s) \in Nat /\ DOMAIN s = 1 .. Len(s) /\ k \in 1 .. Len(s)
  OBVIOUS
<1>2. /\ a \in Seq(S) /\ Len(a) = k - 1
      /\ \A j \in 1 .. (k - 1) : a[j] = s[j]
  BY <1>1
<1>3. /\ b \in Seq(S) /\ Len(b) = Len(s) - k
      /\ \A j \in 1 .. (Len(s) - k) : b[j] = s[k + j]
  BY <1>1
<1>. HIDE DEF a, b
<1>4. /\ t \in Seq(S) /\ Len(t) = Len(a) + Len(b)
      /\ \A j \in 1 .. Len(a) + Len(b) : t[j] = IF j <= Len(a) THEN a[j] ELSE b[j - Len(a)]
  BY <1>2, <1>3, ConcatProperties
<1>. HIDE DEF t
<1>5. DOMAIN t = 1 .. (Len(s) - 1)
  BY <1>1, <1>2, <1>3, <1>4
<1>6. ASSUME NEW j \in DOMAIN t PROVE at(j) \in DOMAIN s /\ t[j] = s[at(j)]
  <2>1. CASE j < k
    BY <2>1, <1>1, <1>2, <1>3, <1>4, <1>5
  <2>2. CASE j >= k
    <3>1. t[j] = b[j - (k - 1)]
      BY <2>2, <1>1, <1>2, <1>3, <1>4, <1>5
    <3>2. j - (k - 1) \in 1 .. (Len(s) - k) /\ k + (j - (k - 1)) = j + 1
      BY <2>2, <1>1, <1>5
    <3>3. t[j] = s[j + 1]
      BY <3>1, <3>2, <1>3
    <3>. QED BY <3>3, <2>2, <1>1, <1>5
  <2>. QED BY <2>1, <2>2, <1>1, <1>5
<1>7. \A i, j \in DOMAIN t : at(i) = at(j) => i = j
  BY <1>1, <1>5
<1>. HIDE DEF at
<1>8. ToSet(t) \subseteq ToSet(s)
  BY <1>6 DEF ToSet
<1>9. IsInjective(s) => IsInjective(t)
  BY <1>6, <1>7 DEF IsInjective
<1>. QED BY <1>4, <1>8, <1>9 DEF RemoveAt, t, a, b

\* forget leaves a list of friends (app_fake.py: list.remove).
LEMMA RemoveFirstTyped ==
    ASSUME NEW S, NEW s \in Seq(S), NEW e
    PROVE  RemoveFirst(s, e) \in Seq(S)
<1>1. CASE \E i \in 1 .. Len(s) : s[i] = e
  <2> DEFINE I == {i \in 1 .. Len(s) : s[i] = e}
  <2>1. RemoveFirst(s, e) = RemoveAt(s, Min(I))
    BY <1>1 DEF RemoveFirst, SelectInSeq
  <2>2. Min(I) \in DOMAIN s
    <3>1. I # {} /\ I \subseteq Nat /\ Len(s) \in Nat
      BY <1>1
    <3>2. PICK n \in I : \A m \in I : ~ (<<m, n>> \in OpToRel(<, Nat))
      BY <3>1, NatLessThanWellFounded, WFMin
    <3>3. \A m \in I : n <= m
      <4>. SUFFICES ASSUME NEW m \in I PROVE n <= m
        OBVIOUS
      <4>1. ~ (m < n)
        BY <3>1, <3>2 DEF OpToRel
      <4>. QED BY <4>1, <3>1
    <3>. HIDE DEF I
    <3>4. Min(I) \in I
      BY <3>3 DEF Min
    <3>. QED BY <3>4 DEF I
  <2>. QED BY <2>1, <2>2, RemoveAtShrinks
<1>. QED BY <1>1 DEF RemoveFirst

\* What is appended comes in, once if it was not there.
LEMMA AppendGrows ==
    ASSUME NEW S, NEW s \in Seq(S), NEW e \in S
    PROVE  /\ Append(s, e) \in Seq(S)
           /\ ToSet(Append(s, e)) = ToSet(s) \cup {e}
           /\ IsInjective(s) /\ e \notin ToSet(s) => IsInjective(Append(s, e))
<1> DEFINE t == Append(s, e)
<1>1. /\ t \in Seq(S) /\ Len(t) = Len(s) + 1 /\ Len(s) \in Nat
      /\ \A i \in 1 .. Len(s) : t[i] = s[i]
      /\ t[Len(s) + 1] = e
  OBVIOUS
<1>2. DOMAIN s = 1 .. Len(s) /\ DOMAIN t = 1 .. (Len(s) + 1)
  BY <1>1
<1>. HIDE DEF t
<1>3. \A i \in DOMAIN t : (i \in DOMAIN s /\ t[i] = s[i]) \/ (i = Len(s) + 1 /\ t[i] = e)
  BY <1>1, <1>2
<1>4. ToSet(t) = ToSet(s) \cup {e}
  <2>1. ToSet(t) \subseteq ToSet(s) \cup {e}
    BY <1>3 DEF ToSet
  <2>2. ToSet(s) \cup {e} \subseteq ToSet(t)
    BY <1>1, <1>2 DEF ToSet
  <2>. QED BY <2>1, <2>2
<1>5. ASSUME IsInjective(s), e \notin ToSet(s) PROVE IsInjective(t)
  <2>. SUFFICES ASSUME NEW i \in DOMAIN t, NEW j \in DOMAIN t, t[i] = t[j] PROVE i = j
    BY DEF IsInjective
  <2>1. \A x \in DOMAIN s : s[x] # e
    BY <1>5 DEF ToSet
  <2>. QED BY <2>1, <1>3, <1>5 DEF IsInjective
<1>. QED BY <1>1, <1>4, <1>5 DEF t

-----------------------------------------------------------------------------
(* Jobs.                                                                    *)

\* A thread that is not idle has all the variables of a handler.
LEMMA Working ==
    ASSUME Typed, NEW w \in Workers, job[w].pc # "idle"
    PROVE  job[w] \in Busy
BY DEF Typed, Idle

\* Going on to another access changes nothing else of a job.
LEMMA GoesOn ==
    ASSUME Typed, NEW w \in Workers, job[w] \in Busy, NEW pc \in PCs, Goto(w, pc)
    PROVE  \E j \in Busy :
              /\ job' = [job EXCEPT ![w] = j] /\ j.pc = pc
              /\ j.op = job[w].op /\ j.user = job[w].user /\ j.target = job[w].target
              /\ j.id = job[w].id /\ j.side = job[w].side /\ j.dict = job[w].dict
              /\ j.key = job[w].key /\ j.i = job[w].i
<1> DEFINE j == [job[w] EXCEPT !.pc = pc]
<1>1. j \in Busy
  BY DEF Busy
<1>2. job' = [job EXCEPT ![w] = j]
  BY DEF Goto, Typed
<1>3. /\ j.pc = pc
      /\ j.op = job[w].op /\ j.user = job[w].user /\ j.target = job[w].target
      /\ j.id = job[w].id /\ j.side = job[w].side /\ j.dict = job[w].dict
      /\ j.key = job[w].key /\ j.i = job[w].i
  BY DEF Busy
<1>. QED BY <1>1, <1>2, <1>3

\* A step after which w does j and no list has anything new preserves the invariant.
Kept(own, w, j) ==
    /\ j \in {Idle} \cup Busy /\ job' = [job EXCEPT ![w] = j]
    /\ UsesItsList(own, j) /\ InStep(j)
    /\ Drawn(j) => /\ Drawn(job[w]) /\ MessageOf(j) = MessageOf(job[w])
                   /\ j.id = job[w].id /\ j.user = job[w].user /\ ~ Unsent(j)
Shrunk ==
    /\ dicts' \in Seq(Dict) /\ DOMAIN dicts' = DOMAIN dicts
    /\ \A i \in DOMAIN dicts : \A k \in DOMAIN dicts'[i] :
          \/ dicts'[i][k] = <<>>
          \/ /\ k \in DOMAIN dicts[i]
             /\ ToSet(dicts'[i][k]) \subseteq ToSet(dicts[i][k])
             /\ IsInjective(dicts[i][k]) => IsInjective(dicts'[i][k])

LEMMA NothingNew ==
    ASSUME Typed, NEW own \in [DOMAIN dicts -> Names], Owned(own),
           NEW w \in Workers, NEW j, Kept(own, w, j),
           Shrunk, accounts' \in Seq(Account), UNCHANGED <<current, next_id>>
    PROVE  IInv'
<1>1. Typed'
  BY DEF Typed, Kept, Shrunk
<1>2. \A i \in DOMAIN dicts' : \A k \in DOMAIN dicts'[i] : \A m \in ToSet(dicts'[i][k]) :
         k \in DOMAIN dicts[i] /\ m \in ToSet(dicts[i][k])
  <2>1. ToSet(<<>>) = {}
    BY DEF ToSet
  <2>. QED BY <2>1 DEF Shrunk
<1>3. ListsOK(own)'
  <2>1. IsInjective(<<>>)
    BY DEF IsInjective
  <2>. SUFFICES ASSUME NEW i \in DOMAIN dicts', NEW k \in DOMAIN dicts'[i]
                PROVE  /\ own[i] # k => IsInjective(dicts'[i][k])
                       /\ \A m \in ToSet(dicts'[i][k]) :
                             {m.from, m.to} = {own[i], k} /\ m.id < next_id
    BY DEF ListsOK
  <2>2. i \in DOMAIN dicts
    BY DEF Shrunk
  <2>3. own[i] # k => IsInjective(dicts'[i][k])
    BY <2>1, <2>2 DEF Shrunk, Owned, ListsOK
  <2>4. \A m \in ToSet(dicts'[i][k]) : {m.from, m.to} = {own[i], k} /\ m.id < next_id
    BY <1>2, <2>2 DEF Owned, ListsOK
  <2>. QED BY <2>3, <2>4
<1>4. OneId'
  BY <1>2 DEF Shrunk, Owned, OneId
<1>5. \A x \in Workers : job'[x] = IF x = w THEN j ELSE job[x]
  BY DEF Kept, Typed
<1>6. OwnIds'
  BY <1>5 DEF Owned, OwnIds, Kept
<1>7. ASSUME NEW x \in Workers PROVE JobOK(own, job[x])'
  <2>1. CASE x # w
    <3>1. job'[x] = job[x] /\ JobOK(own, job[x])
      BY <2>1, <1>5 DEF Owned
    <3>2. UsesItsList(own, job[x])'
      BY <3>1 DEF JobOK, UsesItsList, Shrunk
    <3>3. OwnsItsId(own, job[x])'
      BY <3>1, <1>2 DEF JobOK, OwnsItsId, Shrunk, Drawn, Unsent, MessageOf
    <3>. QED BY <3>1, <3>2, <3>3 DEF JobOK, InStep
  <2>2. CASE x = w
    <3>1. job'[x] = j
      BY <2>2, <1>5
    <3>2. UsesItsList(own, job[x])' /\ InStep(job[x])'
      BY <3>1 DEF Kept, UsesItsList, Shrunk, InStep
    <3>3. OwnsItsId(own, job[x])'
      <4>. SUFFICES ASSUME Drawn(j)
                    PROVE  /\ j.id < next_id
                           /\ \A i \in DOMAIN dicts' : \A k \in DOMAIN dicts'[i] :
                                 \A m \in ToSet(dicts'[i][k]) :
                                    m.id = j.id => /\ m = MessageOf(j)
                                                   /\ own[i] = j.user /\ ~ Unsent(j)
        BY <3>1 DEF OwnsItsId, Drawn, MessageOf, Unsent
      <4>1. OwnsItsId(own, job[w]) /\ Drawn(job[w])
        BY DEF Owned, JobOK, Kept
      <4>2. j.id = job[w].id /\ j.user = job[w].user /\ MessageOf(j) = MessageOf(job[w]) /\ ~ Unsent(j)
        BY DEF Kept
      <4>3. j.id < next_id
        BY <4>1, <4>2 DEF OwnsItsId
      <4>4. \A i \in DOMAIN dicts' : i \in DOMAIN dicts
        BY DEF Shrunk
      <4>. QED BY <4>1, <4>2, <4>3, <4>4, <1>2 DEF OwnsItsId
    <3>. QED BY <3>2, <3>3 DEF JobOK
  <2>. QED BY <2>1, <2>2
<1>8. own \in [DOMAIN dicts' -> Names]
  BY DEF Shrunk
<1>9. Owned(own)'
  BY <1>3, <1>4, <1>6, <1>7, <1>8 DEF Owned
<1>. QED BY <1>1, <1>8, <1>9 DEF IInv

\* Lists that nobody touches.
LEMMA ListsStay ==
    ASSUME Typed, UNCHANGED dicts
    PROVE  Shrunk
BY DEF Typed, Shrunk

\* A thread answers, and is idle again.
LEMMA Answers ==
    ASSUME NEW w \in Workers, NEW status, NEW own, Answer(w, status)
    PROVE  Kept(own, w, Idle)
BY DEF Answer, Kept, Idle, UsesItsList, InStep, Drawn, Using

\* A thread goes on without a list at hand.
LEMMA GoesQuietly ==
    ASSUME Typed, NEW own, NEW w \in Workers, job[w] \in Busy,
           NEW pc \in PCs, pc \notin Using \cup {"lookup"}, Goto(w, pc)
    PROVE  \E j : Kept(own, w, j)
<1>1. PICK j \in Busy : job' = [job EXCEPT ![w] = j] /\ j.pc = pc
  BY GoesOn
<1>2. Kept(own, w, j)
  BY <1>1 DEF Kept, UsesItsList, InStep, Drawn, Using
<1>. QED BY <1>2

\* A thread goes on with the list it has.
LEMMA GoesOnWithList ==
    ASSUME Typed, NEW own \in [DOMAIN dicts -> Names], Owned(own),
           NEW w \in Workers, job[w] \in Busy, job[w].pc \in Using,
           NEW pc \in PCs, Goto(w, pc), pc \in Using \ {"known"},
           job[w].pc = "known" => job[w].dict # 0,
           pc = "append" => job[w].pc = "known" /\ job[w].op \in Sends,
           pc \in {"type", "unlink", "pop"} => job[w].i >= 1, pc # "match",
           pc \in {"len", "type", "unlink", "pop"} => job[w].op \notin Sends,
           job[w].op \in Sends /\ pc # "append" => Drawn(job[w])
    PROVE  \E j : Kept(own, w, j)
<1>1. PICK j \in Busy :
         /\ job' = [job EXCEPT ![w] = j] /\ j.pc = pc
         /\ j.op = job[w].op /\ j.user = job[w].user /\ j.target = job[w].target
         /\ j.id = job[w].id /\ j.side = job[w].side /\ j.dict = job[w].dict
         /\ j.key = job[w].key /\ j.i = job[w].i
  BY GoesOn
<1>2. JobOK(own, job[w])
  BY DEF Owned
<1>3. UsesItsList(own, j)
  BY <1>1, <1>2 DEF JobOK, UsesItsList
<1>4. InStep(j)
  BY <1>1 DEF InStep, Using
<1>5. Drawn(j) => /\ Drawn(job[w]) /\ MessageOf(j) = MessageOf(job[w])
                  /\ j.id = job[w].id /\ j.user = job[w].user /\ ~ Unsent(j)
  BY <1>1, <1>2 DEF Drawn, MessageOf, Unsent, JobOK, InStep
<1>. QED BY <1>1, <1>3, <1>4, <1>5 DEF Kept

-----------------------------------------------------------------------------
(* put_account, put_friends and del_friends.                                *)

\* A request is taken up (app_fake.py: the decorated handlers).
LEMMA StartHolds ==
    ASSUME IInv, NEW w \in Workers, NEW r \in Requests, Start(w, r)
    PROVE  IInv'
<1>1. PICK own \in [DOMAIN dicts -> Names] : Owned(own)
  BY DEF IInv
<1>2. Typed /\ r \in Request
  BY RequestsAssumption DEF IInv
<1> DEFINE user == IF r.op = "put_account" THEN r.target ELSE Username(r.token)
           j == [pc |-> Entry(r.op), op |-> r.op, token |-> r.token, user |-> user,
                 target |-> r.target, id |-> r.id, side |-> "self", dict |-> 0,
                 key |-> r.target, i |-> 0, n |-> 0, keys |-> 0]
<1>3. user \in Names
  <2>1. CASE r.op = "put_account"
    BY <1>2, <2>1 DEF Request
  <2>2. CASE r.op # "put_account"
    <3>1. accounts[r.token] \in Account
      BY <1>2, <2>2 DEF Start, Typed
    <3>. QED BY <2>2, <3>1 DEF Username, Account
  <2>. QED BY <2>1, <2>2
<1>4. Entry(r.op) \in {"scan", "check", "forget", "lookup"}
  BY DEF Entry
<1>5. j \in Busy
  BY <1>2, <1>3, <1>4 DEF Busy, Request, PCs
<1>6. job' = [job EXCEPT ![w] = j]
  BY DEF Start
<1>7. Kept(own, w, j)
  BY <1>4, <1>5, <1>6 DEF Kept, UsesItsList, InStep, Drawn, Using
<1>8. Shrunk /\ accounts' \in Seq(Account) /\ UNCHANGED <<current, next_id>>
  BY <1>2, ListsStay DEF Start, db, Typed
<1>. QED BY <1>1, <1>2, <1>7, <1>8, NothingNew

\* What put_account does until it makes the dictionary: scan, add, mkdir, sub.
LEMMA SigningUpHolds ==
    ASSUME IInv, NEW w \in Workers, scan(w) \/ add(w) \/ mkdir(w) \/ sub(w)
    PROVE  IInv'
<1>1. PICK own \in [DOMAIN dicts -> Names] : Owned(own)
  BY DEF IInv
<1>2. Typed /\ job[w] \in Busy
  BY Working DEF IInv, scan, add, mkdir, sub, At
<1>3. \E j : Kept(own, w, j)
  <2>1. CASE scan(w) \/ mkdir(w) \/ sub(w)
    BY <1>2, <2>1, Answers, GoesQuietly DEF scan, mkdir, sub, PCs, Using
  <2>2. CASE add(w)
    BY <1>2, <2>2, GoesQuietly DEF add, PCs, Using
  <2>. QED BY <2>1, <2>2
<1>4. accounts' \in Seq(Account)
  <2>1. CASE add(w)
    <3>1. [username |-> job[w].user, friend_list |-> <<>>] \in Account
      BY <1>2 DEF Busy, Account
    <3>. QED BY <3>1, <2>1, <1>2 DEF add, Typed
  <2>2. CASE scan(w) \/ mkdir(w) \/ sub(w)
    BY <2>2, <1>2 DEF scan, mkdir, sub, db, Typed
  <2>. QED BY <2>1, <2>2
<1>5. UNCHANGED <<dicts, current, next_id>>
  BY DEF scan, add, mkdir, sub, db
<1>. QED BY <1>1, <1>2, <1>3, <1>4, <1>5, ListsStay, NothingNew

\* An account that is there keeps its name when its friends change.
LEMMA FriendsChange ==
    ASSUME Typed, NEW t \in DOMAIN accounts, NEW l \in Seq(Names),
           accounts' = [accounts EXCEPT ![t].friend_list = l]
    PROVE  accounts' \in Seq(Account)
<1>1. [accounts[t] EXCEPT !.friend_list = l] \in Account
  <2>1. accounts[t] \in Account
    BY DEF Typed
  <2>. QED BY <2>1 DEF Account
<1>2. accounts' = [accounts EXCEPT ![t] = [accounts[t] EXCEPT !.friend_list = l]]
  OBVIOUS
<1>. QED BY <1>1, <1>2 DEF Typed

\* The accesses of put_friends and del_friends to accounts and directories.
LEMMA BefriendingHolds ==
    ASSUME IInv, NEW w \in Workers,
           check(w) \/ befriend(w) \/ mkdir_friend(w) \/ forget(w) \/ rmtree(w)
    PROVE  IInv'
<1>1. PICK own \in [DOMAIN dicts -> Names] : Owned(own)
  BY DEF IInv
<1>2. Typed /\ job[w] \in Busy
  BY Working DEF IInv, check, befriend, mkdir_friend, forget, rmtree, At
<1>3. \E j : Kept(own, w, j)
  <2>1. CASE check(w)
    BY <1>2, <2>1, Answers, GoesQuietly DEF check, PCs, Using
  <2>2. CASE befriend(w) \/ forget(w)
    BY <1>2, <2>2, Answers, GoesQuietly DEF befriend, forget, PCs, Using
  <2>3. CASE mkdir_friend(w) \/ rmtree(w)
    BY <1>2, <2>3, Answers DEF mkdir_friend, rmtree
  <2>. QED BY <2>1, <2>2, <2>3
<1>4. accounts' \in Seq(Account)
  <2>1. ASSUME NEW x, accounts' = [accounts EXCEPT ![job[w].token].friend_list = x],
               job[w].token \in DOMAIN accounts => x \in Seq(Names)
        PROVE  accounts' \in Seq(Account)
    <3>1. CASE job[w].token \in DOMAIN accounts
      BY <1>2, <2>1, <3>1, FriendsChange
    <3>2. CASE job[w].token \notin DOMAIN accounts
      <4>1. accounts' = accounts
        BY <1>2, <2>1, <3>2 DEF Typed
      <4>. QED BY <1>2, <4>1 DEF Typed
    <3>. QED BY <3>1, <3>2
  <2>2. job[w].token \in DOMAIN accounts => Friends(w) \in Seq(Names)
    <3>1. ASSUME job[w].token \in DOMAIN accounts PROVE accounts[job[w].token] \in Account
      BY <1>2, <3>1 DEF Typed
    <3>. QED BY <3>1 DEF Friends, Account
  <2>3. CASE befriend(w)
    <3>1. job[w].target \in Names
      BY <1>2 DEF Busy
    <3>2. accounts' = [accounts EXCEPT ![job[w].token].friend_list = Append(Friends(w), job[w].target)]
      BY <2>3 DEF befriend, Friends
    <3>3. Friends(w) \in Seq(Names) => Append(Friends(w), job[w].target) \in Seq(Names)
      BY <3>1
    <3>. QED BY <2>1, <2>2, <3>2, <3>3
  <2>4. CASE forget(w)
    <3>1. CASE job[w].target \in ToSet(Friends(w))
      <4>1. accounts' = [accounts EXCEPT ![job[w].token].friend_list =
                                            RemoveFirst(Friends(w), job[w].target)]
        BY <2>4, <3>1 DEF forget, Friends
      <4>2. Friends(w) \in Seq(Names) => RemoveFirst(Friends(w), job[w].target) \in Seq(Names)
        BY RemoveFirstTyped
      <4>. QED BY <2>1, <2>2, <4>1, <4>2
    <3>2. CASE job[w].target \notin ToSet(Friends(w))
      BY <1>2, <2>4, <3>2 DEF forget, Typed
    <3>. QED BY <3>1, <3>2
  <2>5. CASE check(w) \/ mkdir_friend(w) \/ rmtree(w)
    BY <1>2, <2>5 DEF check, mkdir_friend, rmtree, db, Typed
  <2>. QED BY <2>3, <2>4, <2>5
<1>5. UNCHANGED <<dicts, current, next_id>>
  BY DEF check, befriend, mkdir_friend, forget, rmtree, db
<1>. QED BY <1>1, <1>2, <1>3, <1>4, <1>5, ListsStay, NothingNew

\* One dictionary loses a list, or has one that is cut or empty.
LEMMA OneDictShrinks ==
    ASSUME Typed, NEW d \in DOMAIN dicts, NEW new \in Dict, dicts' = [dicts EXCEPT ![d] = new],
           \A k \in DOMAIN new :
              \/ new[k] = <<>>
              \/ /\ k \in DOMAIN dicts[d]
                 /\ ToSet(new[k]) \subseteq ToSet(dicts[d][k])
                 /\ IsInjective(dicts[d][k]) => IsInjective(new[k])
    PROVE  Shrunk
<1>1. dicts' \in Seq(Dict) /\ DOMAIN dicts' = DOMAIN dicts
  BY DEF Typed
<1>2. ASSUME NEW i \in DOMAIN dicts, NEW k \in DOMAIN dicts'[i]
      PROVE  \/ dicts'[i][k] = <<>>
             \/ /\ k \in DOMAIN dicts[i]
                /\ ToSet(dicts'[i][k]) \subseteq ToSet(dicts[i][k])
                /\ IsInjective(dicts[i][k]) => IsInjective(dicts'[i][k])
  <2>1. CASE i = d
    <3>1. dicts'[i] = new
      BY <2>1 DEF Typed
    <3>. QED BY <3>1, <2>1, <1>2
  <2>2. CASE i # d
    <3>1. dicts'[i] = dicts[i]
      BY <2>2 DEF Typed
    <3>. QED BY <3>1, <1>2
  <2>. QED BY <2>1, <2>2
<1>. QED BY <1>1, <1>2 DEF Shrunk

\* A dictionary, and what subscripting it gives.
LEMMA Dicts ==
    ASSUME Typed, NEW d \in DOMAIN dicts
    PROVE  /\ dicts[d] \in Dict
           /\ DOMAIN dicts[d] \subseteq Names
           /\ dicts[d] = [k \in DOMAIN dicts[d] |-> dicts[d][k]]
           /\ \A k \in DOMAIN dicts[d] : dicts[d][k] \in Seq(Message)
<1>1. dicts[d] \in Dict
  BY DEF Typed
<1>2. PICK S \in SUBSET Names : dicts[d] \in [S -> Seq(Message)]
  BY <1>1 DEF Dict
<1>. QED BY <1>1, <1>2

\* What makes a dictionary.
LEMMA MakesDict ==
    ASSUME NEW S \in SUBSET Names, NEW f \in [S -> Seq(Message)]
    PROVE  f \in Dict
BY DEF Dict

\* put_friends gives the new friend an empty list, whatever was there.
LEMMA NewListHolds ==
    ASSUME IInv, NEW w \in Workers, newlist(w)
    PROVE  IInv'
<1>1. PICK own \in [DOMAIN dicts -> Names] : Owned(own)
  BY DEF IInv
<1>2. Typed /\ job[w] \in Busy
  BY Working DEF IInv, newlist, At
<1>3. \E j : Kept(own, w, j)
  BY <1>2, Answers, GoesQuietly DEF newlist, PCs, Using
<1>4. Shrunk
  <2>1. CASE job[w].user \in DOMAIN current
    <3> DEFINE d == current[job[w].user]
               new == SetItem(dicts[d], job[w].target, <<>>)
    <3>1. d \in DOMAIN dicts /\ job[w].target \in Names
      BY <1>2, <2>1 DEF Typed, Busy
    <3>2. dicts' = [dicts EXCEPT ![d] = new]
      BY <2>1 DEF newlist
    <3>3. /\ DOMAIN new = {job[w].target} \cup DOMAIN dicts[d]
          /\ new = [k \in {job[w].target} \cup DOMAIN dicts[d] |-> new[k]]
          /\ new[job[w].target] = <<>>
          /\ \A k \in DOMAIN new : k # job[w].target => new[k] = dicts[d][k]
      <4>1. new = [k \in {job[w].target} \cup DOMAIN dicts[d] |->
                     IF k = job[w].target THEN <<>> ELSE dicts[d][k]]
        BY DEF SetItem
      <4>. HIDE DEF new
      <4>. QED BY <4>1
    <3>. HIDE DEF new, d
    <3>4. \A k \in DOMAIN new : new[k] \in Seq(Message)
      <4>1. <<>> \in Seq(Message)
        OBVIOUS
      <4>. QED BY <1>2, <3>1, <3>3, <4>1, Dicts
    <3>5. new \in Dict
      <4> DEFINE S == {job[w].target} \cup DOMAIN dicts[d]
      <4>1. S \in SUBSET Names
        BY <1>2, <3>1, Dicts
      <4>2. new \in [S -> Seq(Message)]
        BY <3>3, <3>4
      <4>. HIDE DEF S
      <4>. QED BY <4>1, <4>2, MakesDict
    <3>6. \A k \in DOMAIN new :
             \/ new[k] = <<>>
             \/ /\ k \in DOMAIN dicts[d]
                /\ ToSet(new[k]) \subseteq ToSet(dicts[d][k])
                /\ IsInjective(dicts[d][k]) => IsInjective(new[k])
      BY <3>3
    <3>. QED BY <1>2, <3>1, <3>2, <3>5, <3>6, OneDictShrinks
  <2>2. CASE job[w].user \notin DOMAIN current
    BY <1>2, <2>2, ListsStay DEF newlist
  <2>. QED BY <2>1, <2>2
<1>5. accounts' \in Seq(Account) /\ UNCHANGED <<current, next_id>>
  BY <1>2 DEF newlist, Typed
<1>. QED BY <1>1, <1>2, <1>3, <1>4, <1>5, NothingNew

\* del_friends takes the list of the friend away.
LEMMA DropHolds ==
    ASSUME IInv, NEW w \in Workers, drop(w)
    PROVE  IInv'
<1>1. PICK own \in [DOMAIN dicts -> Names] : Owned(own)
  BY DEF IInv
<1>2. Typed /\ job[w] \in Busy
  BY Working DEF IInv, drop, At
<1>3. \E j : Kept(own, w, j)
  BY <1>2, Answers, GoesQuietly DEF drop, PCs, Using
<1>4. Shrunk
  <2>1. CASE HasList(job[w].user, job[w].target)
    <3> DEFINE d == current[job[w].user]
               K == DOMAIN dicts[d] \ {job[w].target}
               new == Restrict(dicts[d], K)
    <3>1. d \in DOMAIN dicts
      BY <1>2, <2>1 DEF Typed, HasList
    <3>2. dicts' = [dicts EXCEPT ![d] = new]
      BY <2>1 DEF drop
    <3>3. new = [k \in K |-> dicts[d][k]]
      BY DEF Restrict
    <3>. HIDE DEF new, d
    <3>4. new \in Dict
      <4>1. K \in SUBSET Names
        BY <1>2, <3>1, Dicts
      <4>2. new \in [K -> Seq(Message)]
        BY <1>2, <3>1, <3>3, Dicts
      <4>. HIDE DEF K
      <4>. QED BY <4>1, <4>2, MakesDict
    <3>. QED BY <1>2, <3>1, <3>2, <3>3, <3>4, OneDictShrinks
  <2>2. CASE ~ HasList(job[w].user, job[w].target)
    BY <1>2, <2>2, ListsStay DEF drop
  <2>. QED BY <2>1, <2>2
<1>5. accounts' \in Seq(Account) /\ UNCHANGED <<current, next_id>>
  BY <1>2 DEF drop, Typed
<1>. QED BY <1>1, <1>2, <1>3, <1>4, <1>5, NothingNew

-----------------------------------------------------------------------------
(* The accesses of put_messages, put_messages_file and del_messages that    *)
(* leave the lists alone.                                                   *)

\* A step that changes neither a list nor an account.
LEMMA ListsAlone ==
    ASSUME IInv, NEW own \in [DOMAIN dicts -> Names], Owned(own),
           NEW w \in Workers, \E j : Kept(own, w, j), UNCHANGED <<db, next_id>>
    PROVE  IInv'
<1>1. Typed /\ Shrunk
  BY ListsStay DEF IInv, db
<1>2. accounts' \in Seq(Account) /\ UNCHANGED <<current, next_id>>
  BY <1>1 DEF Typed, db
<1>. QED BY <1>1, <1>2, NothingNew

\* put_messages_file writes the file, and the image a second time.
LEMMA SavingHolds ==
    ASSUME IInv, NEW w \in Workers, save(w) \/ imwrite(w)
    PROVE  IInv'
<1>1. PICK own \in [DOMAIN dicts -> Names] : Owned(own)
  BY DEF IInv
<1>2. Typed /\ job[w] \in Busy /\ job[w].pc \in {"save", "imwrite"}
  BY Working DEF IInv, save, imwrite, At
<1>3. ASSUME NEW pc \in {"imwrite", "iterate"}, Goto(w, pc)
      PROVE  \E j : Kept(own, w, j)
  BY <1>1, <1>2, <1>3, GoesOnWithList DEF PCs, Using, Drawn
<1>4. \E j : Kept(own, w, j)
  BY <1>2, <1>3, Answers DEF save, imwrite
<1>. QED BY <1>1, <1>4, ListsAlone DEF save, imwrite, db

\* The search for the counterpart's dictionary begins.
LEMMA IterateHolds ==
    ASSUME IInv, NEW w \in Workers, iterate(w)
    PROVE  IInv'
<1>1. PICK own \in [DOMAIN dicts -> Names] : Owned(own)
  BY DEF IInv
<1>2. Typed /\ job[w] \in Busy /\ job[w].pc = "iterate" /\ JobOK(own, job[w])
  BY <1>1, Working DEF IInv, iterate, At, Owned
<1> DEFINE j == [job[w] EXCEPT !.pc = "find", !.keys = Cardinality(DOMAIN current)]
<1>3. Cardinality(DOMAIN current) \in Nat
  BY <1>2, FS_CardinalityType DEF Typed
<1>4. j \in Busy
  BY <1>2, <1>3 DEF Busy, PCs
<1>5. job' = [job EXCEPT ![w] = j]
  BY <1>2 DEF iterate, Typed
<1>6. /\ j.pc = "find" /\ j.op = job[w].op /\ j.user = job[w].user /\ j.target = job[w].target
      /\ j.id = job[w].id /\ j.side = job[w].side /\ j.dict = job[w].dict
      /\ j.key = job[w].key /\ j.i = job[w].i
  BY <1>2 DEF Busy
<1>. HIDE DEF j
<1>7. Kept(own, w, j)
  BY <1>2, <1>4, <1>5, <1>6
     DEF Kept, JobOK, UsesItsList, InStep, Drawn, MessageOf, Unsent, Using
<1>. QED BY <1>1, <1>7, ListsAlone DEF iterate

\* The counterpart's dictionary is the one that has his name now, if there is one.
LEMMA FindHolds ==
    ASSUME IInv, NEW w \in Workers, find(w)
    PROVE  IInv'
<1>1. PICK own \in [DOMAIN dicts -> Names] : Owned(own)
  BY DEF IInv
<1>2. Typed /\ job[w] \in Busy /\ job[w].pc = "find" /\ JobOK(own, job[w])
  BY <1>1, Working DEF IInv, find, At, Owned
<1>3. \E j : Kept(own, w, j)
  <2>1. CASE job[w].keys # Cardinality(DOMAIN current)
    BY <1>2, <2>1, Answers DEF find
  <2>2. CASE job[w].keys = Cardinality(DOMAIN current)
    <3> DEFINE d == IF job[w].target \in DOMAIN current THEN current[job[w].target] ELSE 0
               j == [job[w] EXCEPT !.pc = "known", !.side = "opposite",
                                   !.key = job[w].user, !.dict = d]
    <3>1. /\ d \in Nat
          /\ d = 0 \/ (d \in DOMAIN dicts /\ own[d] = job[w].target)
      <4>1. \A i \in DOMAIN dicts : i \in Nat
        BY <1>2 DEF Typed
      <4>. QED BY <1>1, <1>2, <4>1 DEF Typed, Owned
    <3>2. job' = [job EXCEPT ![w] = j]
      BY <1>2, <2>2 DEF find, Typed
    <3>. HIDE DEF d
    <3>3. j \in Busy
      BY <1>2, <3>1 DEF Busy, PCs
    <3>4. /\ j.pc = "known" /\ j.op = job[w].op /\ j.user = job[w].user
          /\ j.target = job[w].target /\ j.id = job[w].id
          /\ j.side = "opposite" /\ j.key = job[w].user /\ j.dict = d
      BY <1>2 DEF Busy
    <3>. HIDE DEF j
    <3>5. Kept(own, w, j)
      BY <1>2, <3>1, <3>2, <3>3, <3>4
         DEF Kept, JobOK, UsesItsList, InStep, Drawn, MessageOf, Unsent, Using
    <3>. QED BY <3>5
  <2>. QED BY <2>1, <2>2
<1>. QED BY <1>1, <1>3, ListsAlone DEF find

\* A counterpart that has not added the caller is left alone.
LEMMA KnownHolds ==
    ASSUME IInv, NEW w \in Workers, known(w)
    PROVE  IInv'
<1>1. PICK own \in [DOMAIN dicts -> Names] : Owned(own)
  BY DEF IInv
<1>2. Typed /\ job[w] \in Busy /\ job[w].pc = "known"
  BY Working DEF IInv, known, At
<1>3. \E j : Kept(own, w, j)
  <2>1. CASE job[w].dict = 0 \/ ~ Listed(w)
    BY <1>2, <2>1, Answers DEF known
  <2>2. CASE job[w].dict # 0 /\ Listed(w) /\ job[w].op \in Sends
    BY <1>1, <1>2, <2>2, GoesOnWithList DEF known, PCs, Using
  <2>3. CASE job[w].dict # 0 /\ Listed(w) /\ job[w].op \notin Sends
    BY <1>1, <1>2, <2>3, GoesOnWithList DEF known, PCs, Using
  <2>. QED BY <2>1, <2>2, <2>3
<1>. QED BY <1>1, <1>3, ListsAlone DEF known

\* What follows the loop over a list.
LEMMA Leaves ==
    ASSUME Typed, NEW own \in [DOMAIN dicts -> Names], Owned(own), NEW w \in Workers,
           job[w].pc \in {"match", "pop"}, Leave(w)
    PROVE  \E j : Kept(own, w, j)
<1>1. job[w] \in Busy /\ InStep(job[w])
  BY Working DEF Owned, JobOK
<1>2. CASE job[w].side = "self"
  BY <1>1, <1>2, GoesOnWithList DEF Leave, PCs, Using, InStep
<1>3. CASE job[w].side # "self"
  BY <1>3, Answers DEF Leave
<1>. QED BY <1>2, <1>3

\* The loop of del_messages over a list.
LEMMA LoopHolds ==
    ASSUME IInv, NEW w \in Workers, len(w) \/ match(w)
    PROVE  IInv'
<1>1. PICK own \in [DOMAIN dicts -> Names] : Owned(own)
  BY DEF IInv
<1>2. /\ Typed /\ job[w] \in Busy /\ job[w].pc \in {"len", "match"}
      /\ JobOK(own, job[w]) /\ InStep(job[w])
  BY <1>1, Working DEF IInv, len, match, At, Owned, JobOK
<1>3. ASSUME NEW i \in Nat \ {0}, NEW n \in Nat,
             job' = [job EXCEPT ![w] = [job[w] EXCEPT !.pc = "match", !.i = i, !.n = n]]
      PROVE  \E j : Kept(own, w, j)
  <2> DEFINE j == [job[w] EXCEPT !.pc = "match", !.i = i, !.n = n]
  <2>1. j \in Busy
    BY <1>2, <1>3 DEF Busy, PCs
  <2>2. /\ j.pc = "match" /\ j.op = job[w].op /\ j.user = job[w].user
        /\ j.target = job[w].target /\ j.id = job[w].id /\ j.side = job[w].side
        /\ j.dict = job[w].dict /\ j.key = job[w].key /\ j.i = i
    BY <1>2 DEF Busy
  <2>3. job' = [job EXCEPT ![w] = j] /\ i >= 1
    BY <1>3
  <2>. HIDE DEF j
  <2>4. Kept(own, w, j)
    BY <1>2, <2>1, <2>2, <2>3
       DEF Kept, JobOK, UsesItsList, InStep, Drawn, MessageOf, Unsent, Using
  <2>. QED BY <2>4
<1>4. \E j : Kept(own, w, j)
  <2>1. CASE len(w)
    <3>1. Len(AtHand(w)) \in Nat
      <4>1. job[w].dict \in DOMAIN dicts
        BY <1>2, <2>1 DEF JobOK, UsesItsList, len, At, Using
      <4>2. AtHand(w) \in Seq(Message)
        BY <1>2, <2>1, <4>1, Dicts DEF len, Listed, AtHand
      <4>. QED BY <4>2
    <3>2. job' = [job EXCEPT ![w] = [job[w] EXCEPT !.pc = "match", !.i = 1, !.n = Len(AtHand(w))]]
      BY <1>2, <2>1 DEF len, Typed
    <3>3. 1 \in Nat \ {0}
      OBVIOUS
    <3>. QED BY <1>3, <3>1, <3>2, <3>3
  <2>2. CASE match(w) /\ job[w].i > job[w].n
    BY <1>1, <1>2, <2>2, Leaves DEF match, At, Busy
  <2>3. CASE match(w) /\ job[w].i <= job[w].n /\ AtHand(w)[job[w].i].id # job[w].id
    <3>1. job' = [job EXCEPT ![w].i = job[w].i + 1] /\ job[w].pc = "match"
      BY <1>2, <2>3 DEF match, At, Busy
    <3>2. job[w].i + 1 \in Nat \ {0} /\ job[w].n \in Nat
      BY <1>2 DEF Busy
    <3>3. [job[w] EXCEPT !.i = job[w].i + 1]
             = [job[w] EXCEPT !.pc = "match", !.i = job[w].i + 1, !.n = job[w].n]
      BY <1>2, <3>1 DEF Busy
    <3>4. job' = [job EXCEPT ![w] = [job[w] EXCEPT !.i = job[w].i + 1]]
      BY <1>2, <3>1 DEF Typed
    <3>. QED BY <1>3, <3>2, <3>3, <3>4
  <2>4. CASE match(w) /\ job[w].i <= job[w].n /\ AtHand(w)[job[w].i].id = job[w].id
    <3>1. job[w].pc = "match" /\ job[w].i >= 1 /\ job[w].op \notin Sends
      BY <1>2, <2>4 DEF match, At, InStep
    <3>2. \E pc \in {"type", "pop"} : Goto(w, pc)
      BY <1>2, <2>4 DEF match, Busy
    <3>. QED BY <1>1, <1>2, <3>1, <3>2, GoesOnWithList DEF PCs, Using
  <2>. QED BY <2>1, <2>2, <2>3, <2>4 DEF match
<1>. QED BY <1>1, <1>4, ListsAlone DEF len, match

\* The file of an attachment goes, or the loop over a list breaks off.
LEMMA UnlinkHolds ==
    ASSUME IInv, NEW w \in Workers, type(w) \/ unlink(w)
    PROVE  IInv'
<1>1. PICK own \in [DOMAIN dicts -> Names] : Owned(own)
  BY DEF IInv
<1>2. /\ Typed /\ job[w] \in Busy /\ job[w].pc \in {"type", "unlink"}
      /\ job[w].op \notin Sends /\ job[w].i >= 1
  BY <1>1, Working DEF IInv, type, unlink, At, Owned, JobOK, InStep
<1>3. ASSUME NEW pc \in {"unlink", "pop"}, Goto(w, pc)
      PROVE  \E j : Kept(own, w, j)
  BY <1>1, <1>2, <1>3, GoesOnWithList DEF PCs, Using
<1>4. CASE type(w)
  BY <1>1, <1>3, <1>4, ListsAlone DEF type
<1>5. CASE unlink(w)
  <2>1. \E j : Kept(own, w, j)
    BY <1>3, <1>5, Answers DEF unlink
  <2>. QED BY <1>1, <1>5, <2>1, ListsAlone DEF unlink, db
<1>. QED BY <1>4, <1>5

\* A subscript that fails ends the request.
LEMMA RaiseHolds ==
    ASSUME IInv, NEW w \in Workers, raise(w)
    PROVE  IInv'
<1>1. PICK own \in [DOMAIN dicts -> Names] : Owned(own)
  BY DEF IInv
<1>. QED BY <1>1, Answers, ListsAlone DEF raise

-----------------------------------------------------------------------------
(* The accesses that change a list or draw an id.                           *)

\* pop takes a message out of the list at hand, whichever it is by now.
LEMMA PopHolds ==
    ASSUME IInv, NEW w \in Workers, pop(w)
    PROVE  IInv'
<1>1. PICK own \in [DOMAIN dicts -> Names] : Owned(own)
  BY DEF IInv
<1>2. Typed /\ job[w] \in Busy /\ job[w].pc = "pop" /\ JobOK(own, job[w])
  BY <1>1, Working DEF IInv, pop, At, Owned
<1>3. \E j : Kept(own, w, j)
  BY <1>1, <1>2, Leaves DEF pop
<1>4. Shrunk
  <2> DEFINE d == job[w].dict
             k == job[w].key
             new == [dicts[d] EXCEPT ![k] = RemoveAt(dicts[d][k], job[w].i)]
  <2>1. d \in DOMAIN dicts /\ k \in DOMAIN dicts[d] /\ job[w].i \in 1 .. Len(dicts[d][k])
    BY <1>2 DEF pop, InRange, Listed, AtHand, JobOK, UsesItsList, Using, InStep, Busy
  <2>2. dicts' = [dicts EXCEPT ![d] = new]
    BY DEF pop
  <2>. HIDE DEF d, k
  <2>3. dicts[d][k] \in Seq(Message) /\ job[w].i \in DOMAIN dicts[d][k]
    BY <1>2, <2>1, Dicts
  <2>4. /\ RemoveAt(dicts[d][k], job[w].i) \in Seq(Message)
        /\ ToSet(RemoveAt(dicts[d][k], job[w].i)) \subseteq ToSet(dicts[d][k])
        /\ IsInjective(dicts[d][k]) => IsInjective(RemoveAt(dicts[d][k], job[w].i))
    BY <2>3, RemoveAtShrinks
  <2>5. new \in Dict
    <3>1. new \in [DOMAIN dicts[d] -> Seq(Message)]
      BY <1>2, <2>1, <2>4, Dicts
    <3>. HIDE DEF new
    <3>. QED BY <1>2, <2>1, <3>1, Dicts, MakesDict
  <2>6. /\ DOMAIN new = DOMAIN dicts[d]
        /\ \A x \in DOMAIN new : new[x] = IF x = k THEN RemoveAt(dicts[d][k], job[w].i)
                                          ELSE dicts[d][x]
    BY <2>1
  <2>. HIDE DEF new
  <2>7. \A x \in DOMAIN new :
           \/ new[x] = <<>>
           \/ /\ x \in DOMAIN dicts[d]
              /\ ToSet(new[x]) \subseteq ToSet(dicts[d][x])
              /\ IsInjective(dicts[d][x]) => IsInjective(new[x])
    BY <2>4, <2>6
  <2>. QED BY <1>2, <2>1, <2>2, <2>5, <2>7, OneDictShrinks
<1>5. accounts' \in Seq(Account) /\ UNCHANGED <<current, next_id>>
  BY <1>2 DEF pop, Typed
<1>. QED BY <1>1, <1>2, <1>3, <1>4, <1>5, NothingNew

\* What is in a list is a message, with an id that is a number.
LEMMA Stored ==
    ASSUME Typed, NEW i \in DOMAIN dicts, NEW k \in DOMAIN dicts[i], NEW m \in ToSet(dicts[i][k])
    PROVE  m \in Message /\ m.id \in Nat
<1>1. dicts[i][k] \in Seq(Message)
  BY Dicts
<1>2. m \in Message
  BY <1>1 DEF ToSet
<1>. QED BY <1>2 DEF Message

\* The id of a message that a thread has drawn is a number below next_id.
LEMMA DrawnIds ==
    ASSUME Typed, NEW own, Owned(own), NEW w \in Workers, Drawn(job[w])
    PROVE  job[w] \in Busy /\ job[w].id \in Nat /\ job[w].id < next_id
<1>1. job[w] \in Busy
  BY Working DEF Drawn
<1>. QED BY <1>1 DEF Busy, Owned, JobOK, OwnsItsId

\* A thread finds the dictionary of its caller, and draws an id if it sends.
LEMMA LookupHolds ==
    ASSUME IInv, NEW w \in Workers, lookup(w)
    PROVE  IInv'
<1>1. PICK own \in [DOMAIN dicts -> Names] : Owned(own)
  BY DEF IInv
<1>2. Typed /\ job[w] \in Busy /\ job[w].pc = "lookup" /\ JobOK(own, job[w])
  BY <1>1, Working DEF IInv, lookup, At, Owned
<1> DEFINE d == current[job[w].user]
<1>3. ASSUME job[w].user \in DOMAIN current
      PROVE  d \in DOMAIN dicts /\ d \in Nat /\ own[d] = job[w].user
  <2>1. \A i \in DOMAIN dicts : i \in Nat
    BY <1>2 DEF Typed
  <2>. QED BY <1>1, <1>2, <1>3, <2>1 DEF Typed, Owned
<1>4. CASE \E status \in {"exception", "error"} : Answer(w, status) /\ UNCHANGED next_id
  <2>1. \E j : Kept(own, w, j)
    BY <1>4, Answers
  <2>. QED BY <1>1, <1>4, <2>1, ListsAlone DEF lookup
<1>5. CASE /\ job[w].user \in DOMAIN current /\ job[w].op \notin Sends
           /\ job' = [job EXCEPT ![w].pc = "len", ![w].dict = d] /\ UNCHANGED next_id
  <2> DEFINE j == [job[w] EXCEPT !.pc = "len", !.dict = d]
  <2>1. j \in Busy
    BY <1>2, <1>3, <1>5 DEF Busy, PCs
  <2>2. /\ j.pc = "len" /\ j.op = job[w].op /\ j.user = job[w].user
        /\ j.target = job[w].target /\ j.side = job[w].side /\ j.dict = d
        /\ j.key = job[w].key
    BY <1>2 DEF Busy
  <2>3. job' = [job EXCEPT ![w] = j]
    BY <1>2, <1>5 DEF Typed
  <2>. HIDE DEF j
  <2>4. Kept(own, w, j)
    BY <1>2, <1>3, <1>5, <2>1, <2>2, <2>3
       DEF Kept, JobOK, UsesItsList, InStep, Drawn, Using
  <2>. QED BY <1>1, <1>5, <2>4, ListsAlone DEF lookup
<1>6. CASE /\ job[w].user \in DOMAIN current /\ job[w].op \in Sends
           /\ job' = [job EXCEPT ![w].pc = "append", ![w].id = next_id, ![w].dict = d]
           /\ next_id' = next_id + 1
  <2> DEFINE j == [job[w] EXCEPT !.pc = "append", !.id = next_id, !.dict = d]
  <2>1. j \in Busy
    BY <1>2, <1>3, <1>6 DEF Busy, PCs, Typed
  <2>2. /\ j.pc = "append" /\ j.op = job[w].op /\ j.user = job[w].user
        /\ j.target = job[w].target /\ j.side = job[w].side /\ j.dict = d
        /\ j.key = job[w].key /\ j.id = next_id
    BY <1>2 DEF Busy
  <2>3. job' = [job EXCEPT ![w] = j]
    BY <1>2, <1>6 DEF Typed
  <2>4. /\ UNCHANGED <<accounts, dicts, current>> /\ next_id \in Nat /\ next_id' = next_id + 1
        /\ job[w].op \in Sends /\ d \in DOMAIN dicts /\ own[d] = job[w].user
    BY <1>2, <1>3, <1>6 DEF lookup, db, Typed
  <2>. HIDE DEF j, d
  <2>5. \A x \in Workers : job'[x] = IF x = w THEN j ELSE job[x]
    BY <1>2, <2>3 DEF Typed
  <2>6. Typed'
    BY <1>2, <2>1, <2>3, <2>4 DEF Typed
  <2>7. \A i \in DOMAIN dicts : \A k \in DOMAIN dicts[i] : \A m \in ToSet(dicts[i][k]) :
           m.id \in Nat /\ m.id < next_id
    BY <1>1, <1>2, Stored DEF Owned, ListsOK
  <2>8. ListsOK(own)' /\ OneId'
    BY <1>1, <2>4, <2>7 DEF Owned, ListsOK, OneId
  <2>9. \A x \in Workers : Drawn(job[x]) => job[x].id \in Nat /\ job[x].id < next_id
    BY <1>1, <1>2, DrawnIds
  <2>10. OwnIds'
    BY <1>1, <2>2, <2>4, <2>5, <2>9 DEF Owned, OwnIds
  <2>11. ASSUME NEW x \in Workers, x # w PROVE JobOK(own, job[x])'
    <3>1. job'[x] = job[x] /\ JobOK(own, job[x])
      BY <1>1, <2>5, <2>11 DEF Owned
    <3>2. UsesItsList(own, job[x])' /\ InStep(job[x])'
      BY <2>4, <3>1 DEF JobOK, UsesItsList, InStep
    <3>3. OwnsItsId(own, job[x])'
      BY <2>4, <2>9, <3>1 DEF JobOK, OwnsItsId, Drawn, MessageOf, Unsent
    <3>. QED BY <3>2, <3>3 DEF JobOK
  <2>12. JobOK(own, job[w])'
    <3>1. job'[w] = j
      BY <2>5
    <3>2. UsesItsList(own, job[w])' /\ InStep(job[w])'
      BY <1>2, <2>2, <2>4, <3>1 DEF JobOK, UsesItsList, InStep
    <3>3. OwnsItsId(own, job[w])'
      BY <2>2, <2>4, <2>7, <3>1 DEF OwnsItsId
    <3>. QED BY <3>2, <3>3 DEF JobOK
  <2>13. Owned(own)'
    BY <1>1, <2>4, <2>8, <2>10, <2>11, <2>12 DEF Owned
  <2>. QED BY <1>1, <2>4, <2>6, <2>13 DEF IInv
<1>. QED BY <1>4, <1>5, <1>6 DEF lookup

\* append puts the message where it belongs: nothing has its id yet, or its own
\* copies in the caller's dictionaries do.
LEMMA AppendHolds ==
    ASSUME IInv, NEW w \in Workers, append(w)
    PROVE  IInv'
<1>1. PICK own \in [DOMAIN dicts -> Names] : Owned(own)
  BY DEF IInv
<1>2. Typed /\ job[w] \in Busy /\ job[w].pc = "append" /\ JobOK(own, job[w]) /\ Listed(w)
  BY <1>1, Working DEF IInv, append, At, Owned
<1> DEFINE d == job[w].dict
           k == job[w].key
           m == MessageOf(job[w])
           new == Append(dicts[d][k], m)
<1>3. m \in Message /\ m.id = job[w].id /\ {m.from, m.to} = {job[w].user, job[w].target}
  BY <1>2 DEF Busy, Message, MessageOf, Kinds
<1>4. /\ d \in DOMAIN dicts /\ k \in DOMAIN dicts[d]
      /\ \/ job[w].side = "self" /\ k = job[w].target /\ own[d] = job[w].user
         \/ job[w].side = "opposite" /\ k = job[w].user /\ own[d] = job[w].target
  BY <1>2 DEF JobOK, UsesItsList, Using, Listed
<1>5. /\ Drawn(job[w]) /\ job[w].id < next_id
      /\ \A i \in DOMAIN dicts : \A l \in DOMAIN dicts[i] : \A n \in ToSet(dicts[i][l]) :
            n.id = m.id => n = m /\ own[i] = job[w].user /\ job[w].side # "self"
  BY <1>2, <1>3 DEF JobOK, InStep, Drawn, OwnsItsId, Unsent
<1>6. /\ new \in Seq(Message) /\ ToSet(new) = ToSet(dicts[d][k]) \cup {m}
      /\ IsInjective(dicts[d][k]) /\ m \notin ToSet(dicts[d][k]) => IsInjective(new)
  BY <1>2, <1>3, <1>4, Dicts, AppendGrows
<1>7. UNCHANGED <<accounts, current, next_id>>
  BY DEF append
<1>8. [dicts[d] EXCEPT ![k] = new] \in Dict
  <2> DEFINE f == [dicts[d] EXCEPT ![k] = new]
  <2>1. f \in [DOMAIN dicts[d] -> Seq(Message)]
    BY <1>2, <1>4, <1>6, Dicts
  <2>. HIDE DEF f
  <2>2. DOMAIN dicts[d] \in SUBSET Names
    BY <1>2, <1>4, Dicts
  <2>3. f \in Dict
    BY <2>1, <2>2, MakesDict
  <2>. QED BY <2>3 DEF f
<1>9. /\ dicts' \in Seq(Dict) /\ DOMAIN dicts' = DOMAIN dicts
      /\ \A i \in DOMAIN dicts : DOMAIN dicts'[i] = DOMAIN dicts[i]
      /\ \A i \in DOMAIN dicts : \A l \in DOMAIN dicts[i] :
            dicts'[i][l] = IF i = d /\ l = k THEN new ELSE dicts[i][l]
  <2>1. dicts' = [dicts EXCEPT ![d] = [dicts[d] EXCEPT ![k] = new]]
    BY DEF append, NewMessage, MessageOf
  <2>. QED BY <1>2, <1>4, <1>8, <2>1 DEF Typed
<1>. HIDE DEF new
<1>10. PICK j : /\ j \in {Idle} \cup Busy /\ job' = [job EXCEPT ![w] = j]
                /\ UsesItsList(own, j) /\ InStep(j)
                /\ Drawn(j) => /\ MessageOf(j) = m /\ j.id = m.id /\ j.user = job[w].user
                               /\ ~ Unsent(j) /\ job[w].side = "self"
  <2>1. CASE job[w].side = "opposite"
    <3>1. Kept(own, w, Idle)
      BY <2>1, Answers DEF append
    <3>2. ~ Drawn(Idle)
      BY DEF Drawn, Idle
    <3>. QED BY <3>1, <3>2 DEF Kept
  <2>2. CASE job[w].side # "opposite"
    <3>1. job[w].side = "self"
      BY <2>2, <1>4
    <3>2. \E pc \in {"iterate", "save"} : Goto(w, pc)
      BY <2>2 DEF append
    <3>3. PICK j : Kept(own, w, j)
      BY <1>1, <1>2, <1>5, <3>2, GoesOnWithList DEF PCs, Using
    <3>. QED BY <3>1, <3>3, <1>3 DEF Kept
  <2>. QED BY <2>1, <2>2
<1>11. \A x \in Workers : job'[x] = IF x = w THEN j ELSE job[x]
  BY <1>2, <1>10 DEF Typed
<1>. HIDE DEF m, d, k
<1>12. Typed'
  BY <1>2, <1>7, <1>9, <1>10 DEF Typed
<1>13. \A i \in DOMAIN dicts' : \A l \in DOMAIN dicts'[i] : \A n \in ToSet(dicts'[i][l]) :
          n \in ToSet(dicts[i][l]) \/ (n = m /\ i = d /\ l = k)
  BY <1>6, <1>9
<1>14. ListsOK(own)'
  <2>. SUFFICES ASSUME NEW i \in DOMAIN dicts', NEW l \in DOMAIN dicts'[i]
                PROVE  /\ own[i] # l => IsInjective(dicts'[i][l])
                       /\ \A n \in ToSet(dicts'[i][l]) :
                             {n.from, n.to} = {own[i], l} /\ n.id < next_id
    BY <1>7 DEF ListsOK
  <2>1. i \in DOMAIN dicts /\ l \in DOMAIN dicts[i]
    BY <1>9
  <2>2. /\ own[i] # l => IsInjective(dicts[i][l])
        /\ \A n \in ToSet(dicts[i][l]) : {n.from, n.to} = {own[i], l} /\ n.id < next_id
    BY <1>1, <2>1 DEF Owned, ListsOK
  <2>3. \A n \in ToSet(dicts'[i][l]) : {n.from, n.to} = {own[i], l} /\ n.id < next_id
    BY <1>3, <1>4, <1>5, <1>13, <2>2
  <2>4. ASSUME own[i] # l PROVE IsInjective(dicts'[i][l])
    <3>1. CASE i = d /\ l = k
      <4>1. m \notin ToSet(dicts[d][k])
        BY <1>4, <1>5, <2>4, <3>1
      <4>. QED BY <1>6, <1>9, <2>1, <2>2, <2>4, <3>1, <4>1
    <3>2. CASE ~ (i = d /\ l = k)
      BY <1>9, <2>1, <2>2, <2>4, <3>2
    <3>. QED BY <3>1, <3>2
  <2>. QED BY <2>3, <2>4
<1>15. OneId'
  <2>. SUFFICES ASSUME NEW i \in DOMAIN dicts', NEW l \in DOMAIN dicts'[i],
                       NEW a \in DOMAIN dicts', NEW b \in DOMAIN dicts'[a],
                       NEW n \in ToSet(dicts'[i][l]), NEW o \in ToSet(dicts'[a][b]),
                       n.id = o.id
                PROVE  n = o
    BY DEF OneId
  <2>1. i \in DOMAIN dicts /\ l \in DOMAIN dicts[i] /\ a \in DOMAIN dicts /\ b \in DOMAIN dicts[a]
    BY <1>9
  <2>2. n \in ToSet(dicts[i][l]) \/ n = m
    BY <1>13
  <2>3. o \in ToSet(dicts[a][b]) \/ o = m
    BY <1>13
  <2>4. n \in ToSet(dicts[i][l]) /\ o \in ToSet(dicts[a][b]) => n = o
    BY <1>1, <2>1 DEF Owned, OneId
  <2>. QED BY <1>5, <2>1, <2>2, <2>3, <2>4
<1>16. OwnIds'
  BY <1>1, <1>3, <1>5, <1>10, <1>11 DEF Owned, OwnIds
<1>17. ASSUME NEW x \in Workers, x # w PROVE JobOK(own, job[x])'
  <2>1. job'[x] = job[x] /\ JobOK(own, job[x])
    BY <1>1, <1>11, <1>17 DEF Owned
  <2>2. UsesItsList(own, job[x])' /\ InStep(job[x])'
    BY <1>9, <2>1 DEF JobOK, UsesItsList, InStep
  <2>3. Drawn(job[x]) => job[x].id # m.id
    BY <1>1, <1>3, <1>5, <1>17 DEF Owned, OwnIds
  <2>4. OwnsItsId(own, job[x])'
    BY <1>7, <1>9, <1>13, <2>1, <2>3 DEF JobOK, OwnsItsId, Drawn, MessageOf, Unsent
  <2>. QED BY <2>2, <2>4 DEF JobOK
<1>18. JobOK(own, job[w])'
  <2>1. job'[w] = j
    BY <1>11
  <2>2. UsesItsList(own, job[w])' /\ InStep(job[w])'
    BY <1>9, <1>10, <2>1 DEF UsesItsList, InStep
  <2>3. OwnsItsId(own, job[w])'
    <3>. SUFFICES ASSUME Drawn(j)
                  PROVE  /\ j.id < next_id
                         /\ \A i \in DOMAIN dicts' : \A l \in DOMAIN dicts'[i] :
                               \A n \in ToSet(dicts'[i][l]) :
                                  n.id = j.id => /\ n = MessageOf(j)
                                                 /\ own[i] = j.user /\ ~ Unsent(j)
      BY <1>7, <2>1 DEF OwnsItsId, Drawn, MessageOf, Unsent
    <3>1. own[d] = job[w].user
      BY <1>4, <1>10
    <3>. QED BY <1>3, <1>5, <1>9, <1>10, <1>13, <3>1
  <2>. QED BY <2>2, <2>3 DEF JobOK
<1>19. Owned(own)'
  BY <1>1, <1>7, <1>9, <1>14, <1>15, <1>16, <1>17, <1>18 DEF Owned
<1>. QED BY <1>1, <1>9, <1>12, <1>19 DEF IInv

\* put_account makes an empty dictionary, which has the name from now on.
LEMMA NewDictHolds ==
    ASSUME IInv, NEW w \in Workers, newdict(w)
    PROVE  IInv'
<1>1. PICK own \in [DOMAIN dicts -> Names] : Owned(own)
  BY DEF IInv
<1>2. Typed /\ job[w] \in Busy
  BY Working DEF IInv, newdict, At
<1> DEFINE u == job[w].user
           e == Len(dicts) + 1
<1>3. u \in Names
  BY <1>2 DEF Busy
<1>4. /\ <<>> \in Dict /\ DOMAIN <<>> = {}
  <2>1. <<>> \in [{} -> Seq(Message)] /\ DOMAIN <<>> = {}
    OBVIOUS
  <2>2. {} \in SUBSET Names
    OBVIOUS
  <2>. QED BY <2>1, <2>2, MakesDict
<1>5. /\ dicts' \in Seq(Dict) /\ Len(dicts') = e
      /\ DOMAIN dicts' = DOMAIN dicts \cup {e} /\ e \notin DOMAIN dicts
      /\ \A i \in DOMAIN dicts : dicts'[i] = dicts[i]
      /\ dicts'[e] = <<>>
  BY <1>2, <1>4 DEF newdict, Typed
<1>6. /\ DOMAIN current' = {u} \cup DOMAIN current
      /\ \A v \in DOMAIN current' : current'[v] = IF v = u THEN e ELSE current[v]
  BY <1>5 DEF newdict, SetItem
<1>7. UNCHANGED <<accounts, next_id>> /\ job' = [job EXCEPT ![w] = Idle]
  BY DEF newdict, Answer
<1>. HIDE DEF u, e
<1>8. Typed'
  <2>1. IsFiniteSet(DOMAIN current')
    <3>1. IsFiniteSet(DOMAIN current \cup {u})
      BY <1>2, FS_AddElement DEF Typed
    <3>2. DOMAIN current' = DOMAIN current \cup {u}
      BY <1>6
    <3>. QED BY <3>1, <3>2
  <2>2. DOMAIN current' \subseteq Names /\ \A v \in DOMAIN current' : current'[v] \in DOMAIN dicts'
    BY <1>2, <1>3, <1>5, <1>6 DEF Typed
  <2>3. job' \in [Workers -> {Idle} \cup Busy]
    BY <1>2, <1>7 DEF Typed
  <2>. QED BY <1>2, <1>5, <1>7, <2>1, <2>2, <2>3 DEF Typed
<1>9. PICK oz \in [DOMAIN dicts' -> Names] :
         oz[e] = u /\ \A i \in DOMAIN dicts : oz[i] = own[i]
  <2> DEFINE f == [i \in DOMAIN dicts' |-> IF i \in DOMAIN dicts THEN own[i] ELSE u]
  <2>1. f \in [DOMAIN dicts' -> Names] /\ f[e] = u /\ \A i \in DOMAIN dicts : f[i] = own[i]
    BY <1>3, <1>5
  <2>. QED BY <2>1
<1>10. \A v \in DOMAIN current' : oz[current'[v]] = v
  BY <1>1, <1>2, <1>5, <1>6, <1>9 DEF Owned, Typed
<1>11. \A i \in DOMAIN dicts' : \A k \in DOMAIN dicts'[i] :
          i \in DOMAIN dicts /\ dicts'[i] = dicts[i] /\ oz[i] = own[i]
  BY <1>4, <1>5, <1>9
<1>12. ListsOK(oz)'
  BY <1>1, <1>7, <1>11 DEF Owned, ListsOK
<1>13. OneId'
  BY <1>1, <1>11 DEF Owned, OneId
<1>14. \A x \in Workers : job'[x] = IF x = w THEN Idle ELSE job[x]
  BY <1>2, <1>7 DEF Typed
<1>15. OwnIds'
  BY <1>1, <1>14 DEF Owned, OwnIds, Drawn, Idle
<1>16. ASSUME NEW x \in Workers PROVE JobOK(oz, job[x])'
  <2>1. CASE x = w
    BY <2>1, <1>14 DEF JobOK, UsesItsList, InStep, OwnsItsId, Drawn, Idle, Using
  <2>2. CASE x # w
    <3>1. job'[x] = job[x] /\ JobOK(own, job[x])
      BY <1>1, <1>14, <2>2 DEF Owned
    <3>2. UsesItsList(oz, job[x])' /\ InStep(job[x])'
      BY <1>5, <1>9, <3>1 DEF JobOK, UsesItsList, InStep
    <3>3. OwnsItsId(oz, job[x])'
      BY <1>7, <1>11, <3>1 DEF JobOK, OwnsItsId, Drawn, MessageOf, Unsent
    <3>. QED BY <3>2, <3>3 DEF JobOK
  <2>. QED BY <2>1, <2>2
<1>17. Owned(oz)'
  BY <1>9, <1>10, <1>12, <1>13, <1>15, <1>16 DEF Owned
<1>. QED BY <1>8, <1>9, <1>17 DEF IInv

-----------------------------------------------------------------------------
(* The specification.                                                       *)

\* The lists in the source, each with the account it belongs to as its owner.
LEMMA InitHolds == Init => IInv
<1>. SUFFICES ASSUME Init PROVE IInv
  OBVIOUS
<1> DEFINE name(i) == SeedAccounts[i].username
<1>1. /\ SeedAccounts \in Seq(Account) /\ DOMAIN SeedAccounts = 1 .. Len(SeedAccounts)
      /\ Len(SeedAccounts) \in Nat
      /\ \A i \in DOMAIN SeedAccounts : SeedAccounts[i] \in ToSet(SeedAccounts)
      /\ \A i \in DOMAIN SeedAccounts : SeedAccounts[i] \in Account
  BY SeedAssumption DEF ToSet
<1>2. \A i \in DOMAIN SeedAccounts : name(i) \in Names /\ name(i) \in DOMAIN SeedLists
  BY <1>1, SeedAssumption DEF Account
<1>3. \A u \in DOMAIN SeedLists : \E i \in DOMAIN SeedAccounts : name(i) = u
  BY SeedAssumption DEF ToSet
<1>4. \A u \in DOMAIN SeedLists :
         SeedLists[u] \in Dict /\ u \in Names /\ \A v \in DOMAIN SeedLists[u] : v \in Names
  <2>. SUFFICES ASSUME NEW u \in DOMAIN SeedLists
                PROVE  /\ SeedLists[u] \in Dict /\ u \in Names
                       /\ \A v \in DOMAIN SeedLists[u] : v \in Names
    OBVIOUS
  <2>1. PICK i \in DOMAIN SeedAccounts : name(i) = u
    BY <1>3
  <2>2. SeedLists[u] \in [ToSet(SeedAccounts[i].friend_list) -> Seq(Message)]
    BY <1>1, <2>1, SeedAssumption
  <2>3. ToSet(SeedAccounts[i].friend_list) \in SUBSET Names
    <3>1. SeedAccounts[i].friend_list \in Seq(Names)
      BY <1>1 DEF Account
    <3>. QED BY <3>1 DEF ToSet
  <2>4. SeedLists[u] \in Dict
    BY <2>2, <2>3, MakesDict
  <2>. QED BY <1>2, <2>1, <2>2, <2>3, <2>4
<1> DEFINE own == [i \in DOMAIN SeedAccounts |-> name(i)]
<1>5. /\ DOMAIN dicts = DOMAIN SeedAccounts /\ dicts \in Seq(Dict)
      /\ \A i \in DOMAIN dicts : dicts[i] = SeedLists[name(i)]
  BY <1>1, <1>2, <1>4 DEF Init
<1>6. /\ DOMAIN current = DOMAIN SeedLists
      /\ \A u \in DOMAIN current : current[u] \in DOMAIN SeedAccounts /\ name(current[u]) = u
  <2>1. DOMAIN current = DOMAIN SeedLists
    BY DEF Init
  <2>2. ASSUME NEW u \in DOMAIN SeedLists
        PROVE  current[u] \in DOMAIN SeedAccounts /\ name(current[u]) = u
    <3>1. current[u] = CHOOSE i \in DOMAIN SeedAccounts : name(i) = u
      BY DEF Init
    <3>2. \E i \in DOMAIN SeedAccounts : name(i) = u
      BY <1>3
    <3>. HIDE DEF name
    <3>. QED BY <3>1, <3>2
  <2>. QED BY <2>1, <2>2
<1>7. IsFiniteSet(DOMAIN SeedLists)
  <2> DEFINE f == [i \in 1 .. Len(SeedAccounts) |-> name(i)]
  <2>1. IsFiniteSet(1 .. Len(SeedAccounts))
    BY <1>1, FS_Interval
  <2>2. f \in Surjection(1 .. Len(SeedAccounts), DOMAIN SeedLists)
    BY <1>1, <1>2, <1>3 DEF Surjection
  <2>. HIDE DEF f
  <2>. QED BY <2>1, <2>2, FS_Surjection
<1>8. next_id = FirstId /\ next_id \in Nat /\ accounts \in Seq(Account)
  BY <1>1, SeedMessagesAssumption DEF Init
<1>9. job = [w \in Workers |-> Idle]
  BY DEF Init
<1>10. Typed
  <2>1. DOMAIN current \subseteq Names /\ IsFiniteSet(DOMAIN current)
    BY <1>4, <1>6, <1>7
  <2>2. \A u \in DOMAIN current : current[u] \in DOMAIN dicts
    BY <1>5, <1>6
  <2>. QED BY <1>5, <1>8, <1>9, <2>1, <2>2 DEF Typed
<1>11. own \in [DOMAIN dicts -> Names] /\ \A i \in DOMAIN dicts : own[i] = name(i)
  BY <1>2, <1>5
<1>12. \A i \in DOMAIN dicts : own[i] \in DOMAIN SeedLists
  BY <1>2, <1>5, <1>11
<1>. HIDE DEF own, name
<1>13. \A i \in DOMAIN dicts : dicts[i] = SeedLists[own[i]]
  BY <1>5, <1>11
<1>14. ListsOK(own)
  <2>. SUFFICES ASSUME NEW i \in DOMAIN dicts, NEW k \in DOMAIN dicts[i]
                PROVE  /\ IsInjective(dicts[i][k])
                       /\ \A m \in ToSet(dicts[i][k]) :
                             {m.from, m.to} = {own[i], k} /\ m.id < next_id
    BY DEF ListsOK
  <2>1. own[i] \in DOMAIN SeedLists /\ k \in DOMAIN SeedLists[own[i]]
        /\ dicts[i][k] = SeedLists[own[i]][k]
    BY <1>12, <1>13
  <2>2. IsInjective(SeedLists[own[i]][k])
    BY <2>1, SeedMessagesAssumption
  <2>3. \A m \in ToSet(SeedLists[own[i]][k]) : {m.from, m.to} = {own[i], k} /\ m.id < FirstId
    BY <2>1, SeedMessagesAssumption
  <2>. QED BY <1>8, <2>1, <2>2, <2>3
<1>15. OneId
  BY <1>12, <1>13, SeedMessagesAssumption DEF OneId
<1>16. \A w \in Workers : job[w] = Idle
  BY <1>9
<1>17. OwnIds /\ \A w \in Workers : JobOK(own, job[w])
  BY <1>16 DEF OwnIds, JobOK, UsesItsList, InStep, OwnsItsId, Drawn, Idle, Using
<1>18. \A u \in DOMAIN current : own[current[u]] = u
  BY <1>5, <1>6, <1>11
<1>19. Owned(own)
  BY <1>11, <1>14, <1>15, <1>17, <1>18 DEF Owned
<1>. QED BY <1>10, <1>11, <1>19 DEF IInv

\* Every access of every handler preserves the invariant.
LEMMA NextHolds == IInv /\ [Next]_vars => IInv'
<1>. SUFFICES ASSUME IInv, [Next]_vars PROVE IInv'
  OBVIOUS
<1>1. ASSUME NEW w \in Workers, Step(w) PROVE IInv'
  BY <1>1, SigningUpHolds, NewDictHolds, BefriendingHolds, NewListHolds, DropHolds,
     LookupHolds, AppendHolds, SavingHolds, IterateHolds, FindHolds, KnownHolds,
     LoopHolds, UnlinkHolds, PopHolds, RaiseHolds DEF Step
<1>2. CASE UNCHANGED vars
  <2>1. UNCHANGED <<accounts, dicts, current, next_id, job>>
    BY <1>2 DEF vars, db
  <2>2. Typed'
    BY <2>1 DEF IInv, Typed
  <2>3. PICK own \in [DOMAIN dicts -> Names] : Owned(own)
    BY DEF IInv
  <2>4. ListsOK(own)' /\ OneId' /\ OwnIds'
    BY <2>1, <2>3 DEF Owned, ListsOK, OneId, OwnIds
  <2>5. \A w \in Workers : JobOK(own, job[w])'
    BY <2>1, <2>3 DEF Owned, JobOK, UsesItsList, InStep, OwnsItsId
  <2>6. Owned(own)'
    BY <2>1, <2>3, <2>4, <2>5 DEF Owned
  <2>. QED BY <2>1, <2>2, <2>3, <2>6 DEF IInv
<1>. QED BY <1>1, <1>2, StartHolds DEF Next, Done

\* The invariant holds in every state of every behaviour of app_fake.py under threads.
THEOREM Invariance == Spec => []IInv
<1>1. Init => IInv
  BY InitHolds
<1>2. IInv /\ [Next]_vars => IInv'
  BY NextHolds
<1>. QED BY <1>1, <1>2, PTL DEF Spec

\* Messages never mix (put_messages, app_fake.py): whatever the interleaving, copies with
\* one id are copies of one message, and only its two parties have them.
THEOREM MessagesNeverMix == Spec => []OneMessagePerId
<1>1. IInv => OneMessagePerId
  <2>. SUFFICES ASSUME IInv, NEW u \in Names, NEW v \in Names, NEW a \in Names, NEW b \in Names,
                       NEW m \in Held(u, v), NEW n \in Held(a, b)
                PROVE  {m.from, m.to} = {u, v} /\ (m.id = n.id => m = n)
    BY DEF OneMessagePerId
  <2>1. PICK own \in [DOMAIN dicts -> Names] : Owned(own)
    BY DEF IInv
  <2>2. /\ HasList(u, v) /\ m \in ToSet(dicts[current[u]][v])
        /\ HasList(a, b) /\ n \in ToSet(dicts[current[a]][b])
    <3>1. ToSet(<<>>) = {}
      BY DEF ToSet
    <3>. QED BY <3>1 DEF Held, ListOf
  <2>3. /\ current[u] \in DOMAIN dicts /\ own[current[u]] = u /\ v \in DOMAIN dicts[current[u]]
        /\ current[a] \in DOMAIN dicts /\ b \in DOMAIN dicts[current[a]]
    BY <2>1, <2>2 DEF HasList, IInv, Typed, Owned
  <2>4. {m.from, m.to} = {u, v}
    BY <2>1, <2>2, <2>3 DEF Owned, ListsOK
  <2>5. m.id = n.id => m = n
    BY <2>1, <2>2, <2>3 DEF Owned, OneId
  <2>. QED BY <2>4, <2>5
<1>. QED BY <1>1, Invariance, PTL

\* No list has a message twice (put_messages, put_messages_file, del_messages): neither
\* requests that overlap nor a second sign-up of a name doubles one.
THEOREM NeverTwice == Spec => []NoDuplicates
<1>1. IInv => NoDuplicates
  <2>. SUFFICES ASSUME IInv, NEW u \in Names, NEW v \in Names, u # v
                PROVE  IsInjective(ListOf(u, v))
    BY DEF NoDuplicates
  <2>1. PICK own \in [DOMAIN dicts -> Names] : Owned(own)
    BY DEF IInv
  <2>2. CASE HasList(u, v)
    <3>1. current[u] \in DOMAIN dicts /\ own[current[u]] = u /\ v \in DOMAIN dicts[current[u]]
      BY <2>1, <2>2 DEF HasList, IInv, Typed, Owned
    <3>. QED BY <2>1, <2>2, <3>1 DEF Owned, ListsOK, ListOf
  <2>3. CASE ~ HasList(u, v)
    BY <2>3 DEF ListOf, IsInjective
  <2>. QED BY <2>2, <2>3
<1>. QED BY <1>1, Invariance, PTL

\* A step that changes one dictionary, and there the list about the caller or any list
\* if it is his own, changes no conversation but his.
LEMMA OneDictTouched ==
    ASSUME NEW own, Owned(own), NEW w \in Workers, NEW d,
           UNCHANGED current, DOMAIN dicts' = DOMAIN dicts,
           \A u \in DOMAIN current : current[u] \in DOMAIN dicts,
           \A i \in DOMAIN dicts : i # d => dicts'[i] = dicts[i],
           \/ own[d] = job[w].user
           \/ /\ DOMAIN dicts'[d] = DOMAIN dicts[d]
              /\ \A k \in DOMAIN dicts[d] : k # job[w].user => dicts'[d][k] = dicts[d][k],
           NEW u, NEW v, ListOf(u, v)' # ListOf(u, v)
    PROVE  job[w].user \in {u, v}
<1>1. CASE u \notin DOMAIN current
  BY <1>1 DEF ListOf, HasList
<1>2. CASE u \in DOMAIN current
  <2>1. current[u] = d
    BY <1>2 DEF ListOf, HasList
  <2>2. own[d] = u
    BY <1>2, <2>1 DEF Owned
  <2>3. CASE own[d] # job[w].user
    BY <1>2, <2>1, <2>3 DEF ListOf, HasList
  <2>. QED BY <2>2, <2>3
<1>. QED BY <1>1, <1>2

\* Only the parties touch a conversation: while none of its two parties has a request
\* running, no thread of app_fake.py changes a list of it.
THEOREM OnlyParties == Spec => PartiesOnly
<1>1. IInv /\ [Next]_vars => [OnlyPartiesTouch]_vars
  <2>. SUFFICES ASSUME IInv, [Next]_vars, NEW u \in Names, NEW v \in Names,
                       ListOf(u, v)' # ListOf(u, v)
                PROVE  \E w \in Workers : job[w].pc # "idle" /\ job[w].user \in {u, v}
    BY DEF OnlyPartiesTouch
  <2>1. PICK own \in [DOMAIN dicts -> Names] : Owned(own)
    BY DEF IInv
  <2>2. ~ UNCHANGED <<dicts, current>>
    BY DEF ListOf, HasList
  <2>3. PICK w \in Workers :
           append(w) \/ pop(w) \/ newlist(w) \/ drop(w) \/ newdict(w)
    <3>1. ~ UNCHANGED vars /\ ~ Done
      BY <2>2 DEF vars, db, Done
    <3>2. \A w \in Workers : \A r \in Requests : ~ Start(w, r)
      BY <2>2 DEF Start, db
    <3>3. PICK w \in Workers : Step(w)
      BY <3>1, <3>2 DEF Next
    <3>. QED BY <2>2, <3>3
         DEF Step, db, scan, add, mkdir, sub, check, befriend, mkdir_friend, forget, rmtree,
             lookup, save, imwrite, iterate, find, known, len, match, type, unlink, raise
  <2>4. /\ job[w].pc # "idle" /\ job[w] \in Busy /\ Typed /\ JobOK(own, job[w])
        /\ \A a \in DOMAIN current : current[a] \in DOMAIN dicts
    BY <2>1, <2>3, Working DEF append, pop, newlist, drop, newdict, At, IInv, Owned, Typed
  <2>5. CASE append(w) \/ pop(w)
    <3> DEFINE d == job[w].dict
               k == job[w].key
    <3>1. PICK x : dicts' = [dicts EXCEPT ![d] = [dicts[d] EXCEPT ![k] = x]]
      BY <2>5 DEF append, pop
    <3>2. UNCHANGED current /\ DOMAIN dicts' = DOMAIN dicts /\ d \in DOMAIN dicts
      BY <2>4, <2>5, <3>1 DEF append, pop, At, InRange, Listed, JobOK, UsesItsList, Using
    <3>3. own[d] = job[w].user \/ k = job[w].user
      BY <2>4, <2>5 DEF append, pop, At, JobOK, UsesItsList, Using
    <3>4. /\ \A i \in DOMAIN dicts : i # d => dicts'[i] = dicts[i]
          /\ DOMAIN dicts'[d] = DOMAIN dicts[d]
          /\ \A l \in DOMAIN dicts[d] : l # k => dicts'[d][l] = dicts[d][l]
      BY <2>4, <3>1, <3>2, Dicts DEF Typed
    <3>. HIDE DEF d, k
    <3>5. \/ own[d] = job[w].user
          \/ /\ DOMAIN dicts'[d] = DOMAIN dicts[d]
             /\ \A l \in DOMAIN dicts[d] : l # job[w].user => dicts'[d][l] = dicts[d][l]
      BY <3>3, <3>4
    <3>. QED BY <2>1, <2>4, <3>2, <3>4, <3>5, OneDictTouched
  <2>6. CASE newlist(w) \/ drop(w)
    <3>1. PICK x : /\ dicts' = [dicts EXCEPT ![current[job[w].user]] = x]
                   /\ job[w].user \in DOMAIN current
      BY <2>2, <2>6 DEF newlist, drop, HasList
    <3>2. UNCHANGED current /\ DOMAIN dicts' = DOMAIN dicts
      BY <2>4, <2>6, <3>1 DEF newlist, drop
    <3>3. /\ \A i \in DOMAIN dicts : i # current[job[w].user] => dicts'[i] = dicts[i]
          /\ own[current[job[w].user]] = job[w].user
      BY <2>1, <2>4, <3>1 DEF Owned, Typed
    <3>. QED BY <2>1, <2>4, <3>2, <3>3, OneDictTouched
  <2>7. CASE newdict(w)
    <3>1. ASSUME u # job[w].user PROVE FALSE
      <4>1. u \in DOMAIN current' <=> u \in DOMAIN current
        BY <2>7, <3>1 DEF newdict, SetItem
      <4>2. u \in DOMAIN current => current'[u] = current[u]
        BY <2>7, <3>1 DEF newdict, SetItem
      <4>3. \A i \in DOMAIN dicts : dicts'[i] = dicts[i]
        BY <2>4, <2>7 DEF newdict, Typed
      <4>. QED BY <2>4, <4>1, <4>2, <4>3 DEF ListOf, HasList
    <3>. QED BY <2>4, <3>1
  <2>. QED BY <2>3, <2>5, <2>6, <2>7
<1>. QED BY <1>1, Invariance, PTL DEF PartiesOnly, Spec

-----------------------------------------------------------------------------
(* Friends who only send.                                                   *)

\* Nobody loses a list or a chat directory.
Steady ==
    /\ accounts = SeedAccounts
    /\ FirstId <= next_id
    /\ \A u, v \in Names : SeedFriends(u, v) => HasList(u, v) /\ ChatDir(u, v) \in dirs

\* A friend's message is in the caller's list once it is out of append, its file on the
\* disk once it is out of save; the counterpart's list is there to be found.
Stepped(j) ==
    /\ j.pc \in {"lookup", "append", "save", "imwrite", "iterate", "find", "known"}
    /\ j.pc \in {"save", "imwrite", "iterate", "find"} => j.side = "self"
    /\ j.op \in Sends
AtFriends(j) ==
    /\ j.side = "self" /\ j.pc # "lookup" => j.dict = current[j.user] /\ j.key = j.target
    /\ j.side = "opposite" => j.dict = current[j.target] /\ j.key = j.user
    /\ j.pc = "find" => j.keys = Cardinality(DOMAIN current)
HasSent(j) ==
    /\ j.pc # "lookup" => j.id \in FirstId .. next_id - 1
    /\ j.pc # "lookup" /\ ~ Unsent(j) => MessageOf(j) \in Held(j.user, j.target)
    /\ j.op = "put_messages_file" /\ j.pc \notin {"lookup", "save"} /\ ~ Unsent(j) =>
          FileOf(MessageOf(j)) \in files
Sending(j) ==
    /\ j \in Busy /\ SeedFriends(j.user, j.target)
    /\ Stepped(j) /\ AtFriends(j) /\ HasSent(j)

\* What has been drawn is delivered, or has a thread that delivers it.
Served(id) ==
    \E u, v \in Names : \E m \in Held(u, v) \cap Held(v, u) :
        m.id = id /\ (Attachment(m) => FileOf(m) \in files)
InHand(w, id) == job[w].pc \notin {"idle", "lookup"} /\ job[w].id = id
Accounted ==
    \A id \in FirstId .. next_id - 1 : Served(id) \/ \E w \in Workers : InHand(w, id)

AllSend == \A w \in Workers : job[w] = Idle \/ Sending(job[w])
Friendly == Steady /\ Accounted /\ AllSend

\* A step that takes nothing away.
Grown ==
    /\ UNCHANGED <<accounts, current, dirs>>
    /\ files \subseteq files'
    /\ next_id \in Nat /\ next_id' \in Nat /\ next_id <= next_id'
    /\ \A u, v \in Names : (HasList(u, v) => HasList(u, v)') /\ Held(u, v) \subseteq Held(u, v)'
OnlyMoves(w) == \A x \in Workers : x # w => job'[x] = job[x]

\* Friends of the source are names.
LEMMA FriendsAreNames ==
    ASSUME NEW u, NEW v, SeedFriends(u, v)
    PROVE  u \in Names /\ v \in Names /\ SeedFriends(v, u)
<1>1. \A x \in DOMAIN SeedLists : x \in Names
  <2>. SUFFICES ASSUME NEW x \in DOMAIN SeedLists PROVE x \in Names
    OBVIOUS
  <2>1. PICK a \in ToSet(SeedAccounts) : a.username = x
    BY SeedAssumption
  <2>2. a \in Account
    BY <2>1, SeedAssumption DEF ToSet
  <2>. QED BY <2>1, <2>2 DEF Account
<1>. QED BY <1>1 DEF SeedFriends

\* A thread that others' steps do not move goes on sending.
LEMMA GoesOnSending ==
    ASSUME Grown, NEW x \in Workers, job'[x] = job[x], Sending(job[x]), FirstId \in Nat
    PROVE  Sending(job[x])'
<1>1. job[x].user \in Names /\ job[x].target \in Names /\ SeedFriends(job[x].user, job[x].target)
  BY DEF Sending, Busy
<1>2. Stepped(job[x])' /\ AtFriends(job[x])' /\ SeedFriends(job[x].user, job[x].target)' /\ job'[x] \in Busy
  BY DEF Sending, Stepped, AtFriends, Grown, SeedFriends
<1>3. job[x].id \in FirstId .. next_id - 1 => job[x].id \in FirstId .. next_id' - 1
  BY DEF Grown
<1>4. HasSent(job[x])'
  BY <1>1, <1>3 DEF Sending, HasSent, Grown, Unsent, MessageOf
<1>. QED BY <1>2, <1>4 DEF Sending

\* What is delivered stays delivered.
LEMMA StaysServed ==
    ASSUME Grown, NEW id, Served(id)
    PROVE  Served(id)'
BY DEF Served, Grown

\* A number that one range has, and a shorter one has not.
LEMMA Beyond ==
    ASSUME NEW a \in Nat, NEW b \in Nat, NEW c \in Nat, NEW n \in a .. c - 1, n \notin a .. b - 1
    PROVE  n \in Nat /\ b <= n /\ n <= c - 1 /\ c # b
OBVIOUS

\* A step of one sender, seen from the whole.
LEMMA SenderMoves ==
    ASSUME Friendly, Grown, NEW w \in Workers, OnlyMoves(w), FirstId \in Nat,
           job'[w] = Idle \/ Sending(job[w])',
           \A id : InHand(w, id) => Served(id)' \/ InHand(w, id)',
           next_id' # next_id =>
              /\ next_id' = next_id + 1
              /\ job'[w].pc = "append" /\ job'[w].id = next_id
    PROVE  Friendly'
<1>1. Steady'
  BY DEF Friendly, Steady, Grown, SeedFriends
<1>2. AllSend'
  BY GoesOnSending DEF Friendly, AllSend, OnlyMoves
<1>3. Accounted'
  <2>. SUFFICES ASSUME NEW id \in FirstId .. next_id' - 1
                PROVE  Served(id)' \/ \E x \in Workers : InHand(x, id)'
    BY DEF Accounted
  <2>1. CASE id \in FirstId .. next_id - 1
    <3>1. CASE Served(id)
      BY <3>1, StaysServed
    <3>2. CASE \E x \in Workers : InHand(x, id)
      <4>1. PICK x \in Workers : InHand(x, id)
        BY <3>2
      <4>2. CASE x = w
        BY <4>1, <4>2
      <4>3. CASE x # w
        BY <4>1, <4>3 DEF OnlyMoves, InHand
      <4>. QED BY <4>2, <4>3
    <3>. QED BY <2>1, <3>1, <3>2 DEF Friendly, Accounted
  <2>2. CASE id \notin FirstId .. next_id - 1
    <3>1. next_id \in Nat /\ next_id' \in Nat
      BY DEF Grown
    <3>2. id \in Nat /\ next_id <= id /\ id <= next_id' - 1 /\ next_id' # next_id
      BY <2>2, <3>1, Beyond
    <3>4. next_id' = next_id + 1 /\ job'[w].pc = "append" /\ job'[w].id = next_id
      BY <3>2
    <3>5. id = next_id
      BY <3>1, <3>2, <3>4
    <3>6. InHand(w, id)'
      BY <3>4, <3>5 DEF InHand
    <3>. QED BY <3>6
  <2>. QED BY <2>1, <2>2
<1>. QED BY <1>1, <1>2, <1>3 DEF Friendly

\* A step that touches no list takes nothing away.
LEMMA NothingTaken ==
    ASSUME UNCHANGED <<accounts, dicts, current, dirs>>, files \subseteq files',
           next_id \in Nat, next_id' \in Nat, next_id <= next_id'
    PROVE  Grown
BY DEF Grown, HasList, Held, ListOf

-----------------------------------------------------------------------------
\* What a sender is, as a step finds it.
LEMMA ASender ==
    ASSUME IInv, Friendly, NEW w \in Workers, job[w].pc # "idle"
    PROVE  /\ Typed /\ Sending(job[w]) /\ InStep(job[w])
           /\ HasList(job[w].user, job[w].target) /\ HasList(job[w].target, job[w].user)
           /\ ChatDir(job[w].user, job[w].target) \in dirs
           /\ job[w].user \in Names /\ job[w].target \in Names
           /\ current[job[w].user] \in DOMAIN dicts /\ current[job[w].target] \in DOMAIN dicts
           /\ NewMessage(w) = MessageOf(job[w])
<1>1. Typed /\ InStep(job[w])
  BY DEF IInv, Owned, JobOK
<1>2. Sending(job[w])
  BY DEF Friendly, AllSend, Idle
<1>3. /\ job[w].user \in Names /\ job[w].target \in Names
      /\ SeedFriends(job[w].user, job[w].target) /\ SeedFriends(job[w].target, job[w].user)
  BY <1>2, FriendsAreNames DEF Sending
<1>4. /\ HasList(job[w].user, job[w].target) /\ HasList(job[w].target, job[w].user)
      /\ ChatDir(job[w].user, job[w].target) \in dirs
  BY <1>3 DEF Friendly, Steady
<1>5. NewMessage(w) = MessageOf(job[w])
  BY DEF NewMessage, MessageOf
<1>. QED BY <1>1, <1>2, <1>3, <1>4, <1>5 DEF HasList, Typed

\* Going on, a sender keeps all but its place.
LEMMA SenderGoesOn ==
    ASSUME IInv, Friendly, NEW w \in Workers, job[w].pc \notin {"idle", "lookup"},
           NEW pc \in {"append", "save", "imwrite", "iterate", "known"}, Goto(w, pc), Grown,
           UNCHANGED next_id, FirstId \in Nat,
           pc \in {"save", "imwrite", "iterate"} => job[w].side = "self",
           pc \in {"append", "known"} => job[w].side = "opposite",
           NEW u, NEW v, NEW m, u = job[w].user, v = job[w].target, m = MessageOf(job[w]),
           m \in Held(u, v)',
           job[w].op = "put_messages_file" /\ pc # "save" => FileOf(m) \in files'
    PROVE  Friendly'
<1>1. Sending(job[w]) /\ job[w] \in Busy /\ Typed
  BY ASender DEF Sending
<1>2. PICK j \in Busy :
         /\ job' = [job EXCEPT ![w] = j] /\ j.pc = pc
         /\ j.op = job[w].op /\ j.user = job[w].user /\ j.target = job[w].target
         /\ j.id = job[w].id /\ j.side = job[w].side /\ j.dict = job[w].dict
         /\ j.key = job[w].key /\ j.i = job[w].i
  BY <1>1, GoesOn DEF PCs
<1>3. job'[w] = j /\ OnlyMoves(w)
  BY <1>1, <1>2 DEF Typed, OnlyMoves
<1>4. Stepped(j) /\ SeedFriends(j.user, j.target)
  BY <1>1, <1>2 DEF Sending, Stepped
<1>5. AtFriends(job[w])'
  BY <1>1, <1>2, <1>3 DEF Sending, AtFriends, Grown
<1>6. HasSent(job[w])'
  <2>1. MessageOf(j) = m /\ j.user = u /\ j.target = v /\ j.id \in FirstId .. next_id - 1
    BY <1>1, <1>2 DEF Sending, HasSent, MessageOf
  <2>. QED BY <1>2, <1>3, <2>1 DEF HasSent
<1>7. Sending(job[w])'
  BY <1>2, <1>3, <1>4, <1>5, <1>6 DEF Sending, Stepped, SeedFriends
<1>8. ASSUME NEW id, InHand(w, id) PROVE InHand(w, id)'
  BY <1>2, <1>3, <1>8 DEF InHand
<1>. QED BY <1>3, <1>7, <1>8, SenderMoves

\* A request to send is taken up.
LEMMA SendStarts ==
    ASSUME IInv, Friendly, NEW w \in Workers, NEW r \in Requests, ToFriend(r), Start(w, r)
    PROVE  Friendly'
<1>1. Typed /\ r \in Request /\ FirstId \in Nat
  BY RequestsAssumption, SeedMessagesAssumption DEF IInv
<1>2. /\ UNCHANGED <<db, disk, next_id>> /\ job[w].pc = "idle"
      /\ r.op \in Sends /\ accounts = SeedAccounts
  BY DEF Start, At, ToFriend, Friendly, Steady
<1> DEFINE u == SeedAccounts[r.token].username
           j == [pc |-> "lookup", op |-> r.op, token |-> r.token, user |-> u,
                 target |-> r.target, id |-> r.id, side |-> "self", dict |-> 0,
                 key |-> r.target, i |-> 0, n |-> 0, keys |-> 0]
<1>3. job' = [job EXCEPT ![w] = j]
  BY <1>2 DEF Start, Sends, Entry, Username
<1>4. SeedFriends(u, r.target) /\ u \in Names
  BY FriendsAreNames DEF ToFriend
<1>5. j \in Busy
  BY <1>1, <1>4 DEF Request, Busy, PCs
<1>6. job'[w] = j /\ OnlyMoves(w)
  BY <1>1, <1>3 DEF Typed, OnlyMoves
<1>7. Grown
  BY <1>1, <1>2, NothingTaken DEF Typed, db, disk
<1>8. Sending(job[w])'
  BY <1>2, <1>4, <1>5, <1>6 DEF Sending, Stepped, AtFriends, HasSent, Unsent, SeedFriends
<1>9. \A id : InHand(w, id) => Served(id)' \/ InHand(w, id)'
  BY <1>2 DEF InHand
<1>. QED BY <1>1, <1>2, <1>6, <1>7, <1>8, <1>9, SenderMoves

\* lookup draws the id; the friends have lists, so it does not fail.
LEMMA SendLooksUp ==
    ASSUME IInv, Friendly, NEW w \in Workers, lookup(w)
    PROVE  Friendly'
<1>1. FirstId \in Nat /\ job[w].pc = "lookup"
  BY SeedMessagesAssumption DEF lookup, At
<1>2. /\ Typed /\ Sending(job[w]) /\ InStep(job[w]) /\ job[w] \in Busy
      /\ HasList(job[w].user, job[w].target)
  BY <1>1, ASender DEF Sending
<1>3. job[w].op \in Sends /\ job[w].side = "self" /\ job[w].key = job[w].target
  BY <1>1, <1>2 DEF Sending, Stepped, InStep
<1>4. /\ job' = [job EXCEPT ![w].pc = "append", ![w].id = next_id,
                            ![w].dict = current[job[w].user]]
      /\ next_id' = next_id + 1 /\ UNCHANGED <<db, disk>>
  BY <1>2, <1>3 DEF lookup, HasList
<1> DEFINE j == [job[w] EXCEPT !.pc = "append", !.id = next_id, !.dict = current[job[w].user]]
<1>5. j \in Busy
  <2>1. current[job[w].user] \in Nat /\ next_id \in Nat
    BY <1>2 DEF Typed, HasList
  <2>. QED BY <1>2, <2>1 DEF Busy, PCs
<1>6. job'[w] = j /\ OnlyMoves(w)
  BY <1>2, <1>4 DEF Typed, OnlyMoves
<1>7. /\ j.pc = "append" /\ j.side = "self" /\ j.id = next_id /\ j.op \in Sends
      /\ j.user = job[w].user /\ j.target = job[w].target
      /\ j.dict = current[j.user] /\ j.key = j.target
  BY <1>2, <1>3 DEF Busy
<1>8. Grown
  BY <1>2, <1>4, NothingTaken DEF Typed, db, disk
<1>. HIDE DEF j
<1>9. next_id \in FirstId .. next_id' - 1
  BY <1>1, <1>2, <1>4 DEF Typed, Friendly, Steady
<1>10. Sending(job[w])'
  <2>1. SeedFriends(j.user, j.target)
    BY <1>2, <1>7 DEF Sending
  <2>2. AtFriends(job[w])'
    BY <1>4, <1>6, <1>7 DEF AtFriends, db
  <2>3. HasSent(job[w])'
    BY <1>6, <1>7, <1>9 DEF HasSent, Unsent
  <2>. QED BY <1>5, <1>6, <1>7, <2>1, <2>2, <2>3 DEF Sending, Stepped, SeedFriends
<1>11. \A id : ~ InHand(w, id)
  BY <1>1 DEF InHand
<1>12. job'[w].pc = "append" /\ job'[w].id = next_id
  BY <1>6, <1>7
<1>. QED BY <1>1, <1>4, <1>6, <1>8, <1>10, <1>11, <1>12, SenderMoves

\* The message goes into the list at hand, and comes into no other.
LEMMA Fuller ==
    ASSUME IInv, Friendly, NEW w \in Workers, append(w), NEW u \in Names, NEW k, HasList(u, k),
           job[w].dict = current[u], job[w].key = k,
           NEW m \in Message, m = NewMessage(w)
    PROVE  Grown /\ m \in Held(u, k)'
<1>1. /\ Typed /\ UNCHANGED <<accounts, current, disk, next_id>>
      /\ dicts' = [dicts EXCEPT ![current[u]][k] = Append(@, m)]
  BY DEF IInv, append
<1>0. PICK d : d = current[u]
  OBVIOUS
<1>7. PICK new : new = Append(dicts[d][k], m)
  OBVIOUS
<1>2. /\ d \in DOMAIN dicts /\ k \in DOMAIN dicts[d] /\ k \in Names
      /\ dicts[d][k] \in Seq(Message)
  <2>1. d \in DOMAIN dicts /\ k \in DOMAIN dicts[d]
    BY <1>0, <1>1 DEF HasList, Typed
  <2>. QED BY <2>1, <1>1, Dicts
<1>3. /\ DOMAIN dicts' = DOMAIN dicts
      /\ \A i \in DOMAIN dicts : DOMAIN dicts'[i] = DOMAIN dicts[i]
      /\ \A i \in DOMAIN dicts : \A l \in DOMAIN dicts[i] :
            dicts'[i][l] = IF i = d /\ l = k THEN new ELSE dicts[i][l]
  BY <1>0, <1>1, <1>2, <1>7
<1>4. ToSet(new) = ToSet(dicts[d][k]) \cup {m}
  BY <1>2, <1>7, AppendGrows
<1>5. ASSUME NEW x \in Names, NEW y \in Names
      PROVE  (HasList(x, y) => HasList(x, y)') /\ Held(x, y) \subseteq Held(x, y)'
  <2>1. CASE HasList(x, y)
    <3>1. HasList(x, y)' /\ current'[x] = current[x] /\ current[x] \in DOMAIN dicts
      BY <1>1, <1>3, <2>1 DEF HasList, Typed
    <3>2. ToSet(dicts[current[x]][y]) \subseteq ToSet(dicts'[current[x]][y])
      BY <1>3, <1>4, <2>1, <3>1 DEF HasList
    <3>. QED BY <2>1, <3>1, <3>2 DEF Held, ListOf
  <2>2. CASE ~ HasList(x, y)
    <3>1. Held(x, y) = {}
      BY <2>2 DEF Held, ListOf, ToSet
    <3>. QED BY <2>2, <3>1
  <2>. QED BY <2>1, <2>2
<1>6. Grown
  BY <1>1, <1>5 DEF Grown, Typed, disk
<1>8. m \in Held(u, k)'
  <2>1. HasList(u, k)' /\ current'[u] = d
    BY <1>0, <1>1, <1>2, <1>5
  <2>2. ListOf(u, k)' = dicts'[d][k]
    BY <2>1 DEF ListOf
  <2>. QED BY <1>2, <1>3, <1>4, <2>2 DEF Held
<1>. QED BY <1>6, <1>8

\* What is in both lists, with its file, is delivered.
LEMMA BothHave ==
    ASSUME NEW m, NEW u \in Names, NEW v \in Names, m \in Held(u, v)', m \in Held(v, u)',
           Attachment(m) => FileOf(m) \in files'
    PROVE  Served(m.id)'
BY DEF Served, Attachment, FileOf

\* append: the first copy, or the second, with which the message is delivered.
LEMMA SendAppends ==
    ASSUME IInv, Friendly, NEW w \in Workers, append(w)
    PROVE  Friendly'
<1>1. FirstId \in Nat /\ job[w].pc = "append" /\ UNCHANGED next_id
  BY SeedMessagesAssumption DEF append, At
<1>0. PICK u, v, m : u = job[w].user /\ v = job[w].target /\ m = MessageOf(job[w])
  OBVIOUS
<1>2. /\ Typed /\ Sending(job[w]) /\ job[w] \in Busy /\ u \in Names /\ v \in Names
      /\ HasList(u, v) /\ HasList(v, u) /\ NewMessage(w) = m
  BY <1>0, <1>1, ASender DEF Sending
<1>3. m \in Message /\ m.id = job[w].id
      /\ (Attachment(m) => job[w].op = "put_messages_file")
  BY <1>0, <1>2 DEF Sending, Stepped, Sends, Busy, Message, MessageOf, Kinds, Attachment
<1>4. CASE job[w].side = "self"
  <2>1. job[w].dict = current[u] /\ job[w].key = v
    BY <1>0, <1>1, <1>2, <1>4 DEF Sending, AtFriends
  <2>2. Grown /\ m \in Held(u, v)'
    BY <1>2, <1>3, <2>1, Fuller
  <2>3. PICK pc \in {"save", "iterate"} :
           Goto(w, pc) /\ (pc = "iterate" => job[w].op = "put_messages")
    BY <1>4 DEF append
  <2>. QED BY <1>0, <1>1, <1>2, <1>4, <2>2, <2>3, SenderGoesOn
<1>5. CASE job[w].side = "opposite"
  <2>1. job[w].dict = current[v] /\ job[w].key = u
    BY <1>0, <1>2, <1>5 DEF Sending, AtFriends
  <2>2. Grown /\ m \in Held(v, u)'
    BY <1>2, <1>3, <2>1, Fuller
  <2>3. m \in Held(u, v) /\ (Attachment(m) => FileOf(m) \in files)
    BY <1>0, <1>1, <1>2, <1>3, <1>5 DEF Sending, HasSent, Unsent
  <2>4. m \in Held(u, v)' /\ (Attachment(m) => FileOf(m) \in files')
    BY <1>2, <2>2, <2>3 DEF Grown
  <2>5. Served(m.id)'
    BY <1>2, <2>2, <2>4, BothHave
  <2>6. job' = [job EXCEPT ![w] = Idle]
    BY <1>5 DEF append, Answer
  <2>7. job'[w] = Idle /\ OnlyMoves(w)
    BY <1>2, <2>6 DEF Typed, OnlyMoves
  <2>8. \A id : InHand(w, id) => Served(id)'
    BY <1>3, <2>5 DEF InHand
  <2>. QED BY <1>1, <2>2, <2>7, <2>8, SenderMoves
<1>. QED BY <1>2, <1>4, <1>5 DEF Busy

\* save, imwrite, iterate, find and known; nobody takes the chat directory away, adds a
\* key to the table or drops one from a dictionary.
LEMMA SendPasses ==
    ASSUME IInv, Friendly, NEW w \in Workers,
           save(w) \/ imwrite(w) \/ iterate(w) \/ find(w) \/ known(w)
    PROVE  Friendly'
<1>1. /\ FirstId \in Nat /\ UNCHANGED <<accounts, dicts, current, dirs, next_id>>
      /\ job[w].pc \notin {"idle", "lookup", "append"}
  BY SeedMessagesAssumption DEF save, imwrite, iterate, find, known, At, db, disk
<1>2. PICK u, v, m : u = job[w].user /\ v = job[w].target /\ m = MessageOf(job[w])
  OBVIOUS
<1>3. /\ Typed /\ Sending(job[w]) /\ job[w] \in Busy /\ u \in Names /\ v \in Names
      /\ HasList(u, v) /\ HasList(v, u) /\ NewMessage(w) = m
      /\ ChatDir(u, v) \in dirs /\ current[u] \in DOMAIN dicts /\ current[v] \in DOMAIN dicts
  BY <1>1, <1>2, ASender DEF Sending
<1>4. m \in Held(u, v)
  BY <1>1, <1>2, <1>3 DEF Sending, HasSent, Unsent
<1>5. files \subseteq files'
  BY DEF save, imwrite, iterate, find, known, disk
<1>6. Grown
  BY <1>1, <1>3, <1>5, NothingTaken DEF Typed
<1>7. m \in Held(u, v)'
  BY <1>3, <1>4, <1>6 DEF Grown
<1>8. FileOf(m) = <<m.from, m.to, m.id>> /\ m.from = u /\ m.to = v
  BY <1>2 DEF FileOf, MessageOf
<1>9. job[w].op = "put_messages_file" /\ job[w].pc # "save" => FileOf(m) \in files
  BY <1>1, <1>2, <1>3 DEF Sending, HasSent, Unsent
<1>10. CASE save(w)
  <2>1. PICK pc \in {"imwrite", "iterate"} : Goto(w, pc) /\ FileOf(m) \in files'
    BY <1>2, <1>3, <1>10 DEF save
  <2>2. job[w].side = "self"
    BY <1>3, <1>10 DEF save, At, Sending, Stepped
  <2>. QED BY <1>1, <1>2, <1>3, <1>6, <1>7, <2>1, <2>2, SenderGoesOn
<1>11. CASE imwrite(w)
  <2>1. Goto(w, "iterate") /\ job[w].pc = "imwrite"
    BY <1>11 DEF imwrite, At
  <2>2. job[w].side = "self"
    BY <1>3, <2>1 DEF Sending, Stepped
  <2>3. job[w].op = "put_messages_file" => FileOf(m) \in files'
    BY <1>5, <1>9, <2>1
  <2>. QED BY <1>1, <1>2, <1>3, <1>6, <1>7, <2>1, <2>2, <2>3, SenderGoesOn
<1>12. CASE known(w)
  <2>1. job[w].pc = "known" /\ job[w].op \in Sends /\ job[w].side = "opposite"
    BY <1>3, <1>12 DEF known, At, Sending, Stepped, InStep, IInv, Owned, JobOK
  <2>2. job[w].dict = current[v] /\ job[w].key = u
    BY <1>2, <1>3, <2>1 DEF Sending, AtFriends
  <2>3. job[w].dict # 0 /\ Listed(w)
    BY <1>3, <2>2 DEF Listed, HasList, Typed
  <2>4. Goto(w, "append")
    BY <1>12, <2>1, <2>3 DEF known
  <2>5. job[w].op = "put_messages_file" => FileOf(m) \in files'
    BY <1>5, <1>9, <2>1
  <2>. QED BY <1>1, <1>2, <1>3, <1>6, <1>7, <2>1, <2>4, <2>5, SenderGoesOn
<1>13. CASE iterate(w) \/ find(w)
  <2>1. PICK j \in Busy :
           /\ job' = [job EXCEPT ![w] = j]
           /\ j.op = job[w].op /\ j.user = u /\ j.target = v /\ j.id = job[w].id
           /\ \/ /\ j.pc = "find" /\ j.side = "self" /\ j.keys = Cardinality(DOMAIN current)
                 /\ j.dict = current[u] /\ j.key = v
              \/ j.pc = "known" /\ j.side = "opposite" /\ j.dict = current[v] /\ j.key = u
    <3>1. CASE iterate(w)
      <4> DEFINE j == [job[w] EXCEPT !.pc = "find", !.keys = Cardinality(DOMAIN current)]
      <4>1. Cardinality(DOMAIN current) \in Nat
        BY <1>3, FS_CardinalityType DEF Typed
      <4>2. j \in Busy /\ job' = [job EXCEPT ![w] = j]
        BY <1>3, <3>1, <4>1 DEF iterate, Busy, PCs, Typed
      <4>3. job[w].side = "self" /\ job[w].dict = current[u] /\ job[w].key = v
        BY <1>2, <1>3, <3>1 DEF iterate, At, Sending, Stepped, AtFriends
      <4>4. /\ j.op = job[w].op /\ j.user = u /\ j.target = v /\ j.id = job[w].id
            /\ j.pc = "find" /\ j.side = "self" /\ j.keys = Cardinality(DOMAIN current)
            /\ j.dict = current[u] /\ j.key = v
        BY <1>2, <1>3, <4>3 DEF Busy
      <4>. QED BY <4>2, <4>4
    <3>2. CASE find(w)
      <4> DEFINE j == [job[w] EXCEPT !.pc = "known", !.side = "opposite",
                                     !.key = u, !.dict = current[v]]
      <4>1. job[w].keys = Cardinality(DOMAIN current) /\ v \in DOMAIN current
        BY <1>3, <3>2 DEF find, At, Sending, AtFriends, HasList
      <4>2. job' = [job EXCEPT ![w] = j]
        BY <1>2, <1>3, <3>2, <4>1 DEF find, Typed
      <4>3. current[v] \in Nat
        BY <1>3 DEF Typed
      <4>4. j \in Busy
        BY <1>3, <4>3 DEF Busy, PCs
      <4>5. /\ j.op = job[w].op /\ j.user = u /\ j.target = v /\ j.id = job[w].id
            /\ j.pc = "known" /\ j.side = "opposite" /\ j.dict = current[v] /\ j.key = u
        BY <1>2, <1>3 DEF Busy
      <4>. QED BY <4>2, <4>4, <4>5
    <3>. QED BY <1>13, <3>1, <3>2
  <2>2. job'[w] = j /\ OnlyMoves(w)
    BY <1>3, <2>1 DEF Typed, OnlyMoves
  <2>3. Stepped(j) /\ SeedFriends(j.user, j.target)
    BY <1>2, <1>3, <2>1 DEF Sending, Stepped
  <2>4. AtFriends(job[w])'
    BY <1>1, <2>1, <2>2 DEF AtFriends
  <2>5. HasSent(job[w])'
    <3>1. MessageOf(j) = m /\ j.id \in FirstId .. next_id - 1 /\ j.pc # "save"
      BY <1>1, <1>2, <1>3, <2>1 DEF Sending, HasSent, MessageOf
    <3>2. j.op = "put_messages_file" => FileOf(m) \in files'
      <4>1. job[w].pc # "save"
        BY <1>13 DEF iterate, find, At
      <4>. QED BY <1>5, <1>9, <2>1, <4>1
    <3>. QED BY <1>1, <1>7, <2>1, <2>2, <3>1, <3>2 DEF HasSent
  <2>6. Sending(job[w])'
    BY <2>1, <2>2, <2>3, <2>4, <2>5 DEF Sending, Stepped, SeedFriends
  <2>7. ASSUME NEW id, InHand(w, id) PROVE InHand(w, id)'
    BY <2>1, <2>2, <2>7 DEF InHand
  <2>. QED BY <1>1, <1>6, <2>2, <2>6, <2>7, SenderMoves
<1>. QED BY <1>10, <1>11, <1>12, <1>13

\* No other access is made: a sender is at none of the other lines, and raises nothing.
LEMMA SendSteps ==
    ASSUME IInv, Friendly, NEW w \in Workers, Step(w)
    PROVE  Friendly'
<1>1. CASE job[w].pc = "idle"
  BY <1>1 DEF Step, At, scan, add, mkdir, sub, newdict, check, befriend, newlist, mkdir_friend,
     forget, drop, rmtree, lookup, append, save, imwrite, iterate, find, known, len, match,
     type, unlink, pop, raise
<1>2. CASE job[w].pc # "idle"
  <2>1. /\ job[w].pc \in {"lookup", "append", "save", "imwrite", "iterate", "find", "known"}
        /\ Sending(job[w]) /\ HasList(job[w].user, job[w].target)
        /\ HasList(job[w].target, job[w].user) /\ job[w] \in Busy
    BY <1>2, ASender DEF Sending, Stepped
  <2>2. job[w].pc = "append" => Listed(w)
    BY <2>1 DEF Sending, AtFriends, Listed, HasList, Busy
  <2>3. \/ lookup(w) \/ append(w) \/ save(w) \/ imwrite(w) \/ iterate(w) \/ find(w) \/ known(w)
    BY <2>1, <2>2 DEF Step, At, scan, add, mkdir, sub, newdict, check, befriend, newlist,
       mkdir_friend, forget, drop, rmtree, len, match, type, unlink, pop, raise
  <2>. QED BY <2>3, SendLooksUp, SendAppends, SendPasses
<1>. QED BY <1>1, <1>2

\* In the beginning nobody sends, and the friends of the source have their lists.
LEMMA FriendlyInit == Init => Friendly
<1>. SUFFICES ASSUME Init PROVE Friendly
  OBVIOUS
<1>1. FirstId \in Nat /\ accounts = SeedAccounts /\ next_id = FirstId
  BY SeedMessagesAssumption DEF Init
<1>2. DOMAIN current = DOMAIN SeedLists
  BY DEF Init
<1>3. ASSUME NEW u \in Names, NEW v \in Names, SeedFriends(u, v)
      PROVE  HasList(u, v) /\ ChatDir(u, v) \in dirs
  <2>1. u \in DOMAIN SeedLists /\ v \in DOMAIN SeedLists[u]
    BY <1>3 DEF SeedFriends
  <2>2. PICK n \in DOMAIN SeedAccounts : SeedAccounts[n].username = u
    BY <2>1, SeedAssumption DEF ToSet
  <2>3. current[u] \in DOMAIN SeedAccounts /\ SeedAccounts[current[u]].username = u
    <3>1. current[u] = CHOOSE i \in DOMAIN SeedAccounts : SeedAccounts[i].username = u
      BY <2>1 DEF Init
    <3>. QED BY <2>2, <3>1
  <2>4. dicts[current[u]] = SeedLists[u]
    BY <2>3 DEF Init
  <2>5. ChatDir(u, v) \in dirs
    <3>1. ChatDir(u, v) \in Prefixes(ChatDir(u, v))
      <4>1. Path[u] \in Seq(Parts) /\ Path[v] \in Seq(Parts)
        BY PathAssumption
      <4> DEFINE p == ChatDir(u, v)
      <4>2. p \in Seq(Parts)
        BY <4>1 DEF ChatDir
      <4> HIDE DEF p
      <4>3. SubSeq(p, 1, Len(p)) = p /\ Len(p) \in 0 .. Len(p)
        BY <4>2
      <4>4. p \in Prefixes(p)
        BY <4>3 DEF Prefixes
      <4>. QED BY <4>4 DEF p
    <3>2. <<u, v>> \in SeedChats
      BY <2>1 DEF SeedChats
    <3>3. Prefixes(ChatDir(u, v)) \subseteq SeedDirs
      BY <3>2 DEF SeedDirs
    <3>. QED BY <3>1, <3>3 DEF Init
  <2>. QED BY <1>2, <2>1, <2>4, <2>5 DEF HasList
<1>4. Steady
  BY <1>1, <1>3 DEF Steady
<1>5. Accounted
  <2>1. FirstId .. next_id - 1 = {}
    BY <1>1
  <2>. QED BY <2>1 DEF Accounted
<1>6. AllSend
  BY DEF AllSend, Init
<1>. QED BY <1>4, <1>5, <1>6 DEF Friendly

\* The invariant of a load, and that a load's step is a step of the threads.
LoadInv ==
    /\ IInv /\ load \in Loads
    /\ (\A r \in load : ToFriend(r)) => Friendly

LEMMA LoadStepIsStep == load \in Loads /\ [LoadNext]_<<vars, load>> => [Next]_vars /\ UNCHANGED load
<1>1. load \in Loads => load \subseteq Requests
  BY LoadsAssumption
<1>. QED BY <1>1 DEF LoadNext, LoadStep, LoadStart, Next

LEMMA LoadInvHolds == LoadInv /\ [LoadNext]_<<vars, load>> => LoadInv'
<1>. SUFFICES ASSUME LoadInv, [LoadNext]_<<vars, load>> PROVE LoadInv'
  OBVIOUS
<1>1. IInv' /\ UNCHANGED load
  BY LoadStepIsStep, NextHolds DEF LoadInv
<1>2. ASSUME \A r \in load : ToFriend(r) PROVE Friendly'
  <2>1. Friendly /\ IInv /\ load \subseteq Requests
    BY <1>2, LoadsAssumption DEF LoadInv
  <2>2. CASE \E w \in Workers : LoadStep(w)
    BY <2>1, <2>2, SendSteps DEF LoadStep
  <2>3. CASE \E w \in Workers : LoadStart(w)
    BY <1>2, <2>1, <2>3, SendStarts DEF LoadStart
  <2>4. CASE UNCHANGED vars
    <3>1. UNCHANGED <<accounts, dicts, current, dirs, files, next_id, job>>
      BY <2>4 DEF vars, db, disk
    <3>2. Steady'
      BY <2>1, <3>1 DEF Friendly, Steady, HasList, SeedFriends
    <3>3. Accounted'
      BY <2>1, <3>1 DEF Friendly, Accounted, Served, InHand, Held, ListOf, HasList
    <3>4. AllSend'
      BY <2>1, <3>1 DEF Friendly, AllSend, Sending, Stepped, AtFriends, HasSent, Held, ListOf,
         HasList, SeedFriends, Unsent, MessageOf, FileOf
    <3>. QED BY <3>2, <3>3, <3>4 DEF Friendly
  <2>. QED BY <2>2, <2>3, <2>4 DEF LoadNext, Done
<1>3. (\A r \in load : ToFriend(r))' => \A r \in load : ToFriend(r)
  BY <1>1 DEF ToFriend, SeedFriends
<1>. QED BY <1>1, <1>2, <1>3 DEF LoadInv

\* Friends who only send lose nothing (put_messages, put_messages_file): whatever the
\* interleaving, once every request is answered both lists have every message, and the
\* file of every attachment is on the disk.
THEOREM FriendsAreServed == LoadSpec => []SendsDelivered
<1>1. LoadInit => LoadInv
  BY InitHolds, FriendlyInit DEF LoadInit, LoadInv
<1>2. LoadInv /\ [LoadNext]_<<vars, load>> => LoadInv'
  BY LoadInvHolds
<1>3. LoadInv => SendsDelivered
  <2>. SUFFICES ASSUME LoadInv, \A r \in load : ToFriend(r), AtRest,
                       NEW id \in FirstId .. next_id - 1
                PROVE  Served(id)
    BY DEF SendsDelivered, AllDelivered, Served
  <2>1. Friendly
    BY DEF LoadInv
  <2>2. \A w \in Workers : ~ InHand(w, id)
    BY DEF AtRest, At, InHand
  <2>. QED BY <2>1, <2>2 DEF Friendly, Accounted
<1>. QED BY <1>1, <1>2, <1>3, PTL DEF LoadSpec
=============================================================================
