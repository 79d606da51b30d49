--------------------------- MODULE ChatServerProofs ---------------------------
(***************************************************************************)
(* What ChatServer guarantees for every set of names, every seed that       *)
(* satisfies its assumptions and every bound on the number of messages.     *)
(***************************************************************************)
EXTENDS ChatServer, SequenceTheorems, TLAPS

-----------------------------------------------------------------------------
(* Lists of messages.                                                       *)

\* Appending keeps the members and adds one; a newer message keeps the order.
LEMMA AppendMessage ==
    ASSUME NEW s \in Seq(Message), NEW m \in Message
    PROVE  /\ Append(s, m) \in Seq(Message)
           /\ ToSet(Append(s, m)) = ToSet(s) \cup {m}
           /\ Increasing(s) /\ (\A n \in ToSet(s) : n.id < m.id)
                 => Increasing(Append(s, m))
<1> DEFINE t == Append(s, m)
<1>1. /\ t \in Seq(Message)
      /\ Len(t) = Len(s) + 1
      /\ \A i \in 1 .. Len(s) : t[i] = s[i]
      /\ t[Len(s) + 1] = m
  OBVIOUS
<1>2. /\ DOMAIN s = 1 .. Len(s) /\ DOMAIN t = 1 .. (Len(s) + 1) /\ Len(s) \in Nat
  BY <1>1
<1>. HIDE DEF t
<1>3. ToSet(t) = ToSet(s) \cup {m}
  <2>1. ASSUME NEW x \in ToSet(t) PROVE x \in ToSet(s) \cup {m}
    BY <1>1, <1>2 DEF ToSet
  <2>2. ASSUME NEW x \in ToSet(s) PROVE x \in ToSet(t)
    BY <1>1, <1>2 DEF ToSet
  <2>3. m \in ToSet(t)
    BY <1>1, <1>2 DEF ToSet
  <2>. QED BY <2>1, <2>2, <2>3
<1>4. ASSUME Increasing(s), \A n \in ToSet(s) : n.id < m.id
      PROVE  Increasing(t)
  <2>. SUFFICES ASSUME NEW i \in DOMAIN t, NEW j \in DOMAIN t, i < j
                PROVE  t[i].id < t[j].id
    BY DEF Increasing
  <2>1. CASE j \in 1 .. Len(s)
    BY <2>1, <1>1, <1>2, <1>4 DEF Increasing
  <2>2. CASE j = Len(s) + 1
    <3>1. i \in DOMAIN s /\ t[i] = s[i]
      BY <2>2, <1>1, <1>2
    <3>. QED BY <3>1, <2>2, <1>1, <1>4 DEF ToSet
  <2>. QED BY <2>1, <2>2, <1>2
<1>. QED BY <1>1, <1>3, <1>4 DEF t

\* Dropping one position of an ordered list.
LEMMA DropOne ==
    ASSUME NEW s \in Seq(Message), Increasing(s), NEW k \in DOMAIN s
    PROVE  /\ RemoveAt(s, k) \in Seq(Message)
           /\ Increasing(RemoveAt(s, k))
           /\ ToSet(RemoveAt(s, k)) = {m \in ToSet(s) : m.id # s[k].id}
<1> DEFINE a == SubSeq(s, 1, k - 1)
           b == SubSeq(s, k + 1, Len(s))
           t == a \o b
<1>1. /\ Len(s) \in Nat /\ DOMAIN s = 1 .. Len(s) /\ k \in 1 .. Len(s)
      /\ \A i \in DOMAIN s : s[i] \in Message
  OBVIOUS
<1>2. /\ a \in Seq(Message) /\ Len(a) = k - 1
      /\ \A i \in 1 .. (k - 1) : a[i] = s[i]
  BY <1>1
<1>3. /\ b \in Seq(Message) /\ Len(b) = Len(s) - k
      /\ \A i \in 1 .. (Len(s) - k) : b[i] = s[k + i]
  BY <1>1
<1>. HIDE DEF a, b
<1>4. /\ t \in Seq(Message) /\ Len(t) = Len(s) - 1
      /\ DOMAIN t = 1 .. (Len(s) - 1)
      /\ \A i \in 1 .. (Len(s) - 1) : t[i] = IF i < k THEN s[i] ELSE s[i + 1]
  <2>1. /\ t \in Seq(Message) /\ Len(t) = Len(a) + Len(b)
        /\ \A i \in 1 .. Len(a) + Len(b) : t[i] = IF i <= Len(a) THEN a[i] ELSE b[i - Len(a)]
    BY <1>2, <1>3, ConcatProperties
  <2>. HIDE DEF t
  <2>2. Len(a) + Len(b) = Len(s) - 1 /\ Len(a) = k - 1
    BY <1>1, <1>2, <1>3
  <2>3. ASSUME NEW i \in 1 .. (Len(s) - 1)
        PROVE  t[i] = IF i < k THEN s[i] ELSE s[i + 1]
    <3>1. CASE i < k
      BY <3>1, <2>1, <2>2, <1>1, <1>2
    <3>2. CASE i >= k
      <4>1. t[i] = b[i - (k - 1)] /\ i - (k - 1) \in 1 .. (Len(s) - k)
        BY <3>2, <2>1, <2>2, <1>1
      <4>2. b[i - (k - 1)] = s[k + (i - (k - 1))] /\ k + (i - (k - 1)) = i + 1
        BY <4>1, <1>1, <1>3
      <4>. QED BY <3>2, <4>1, <4>2, <1>1
    <3>. QED BY <3>1, <3>2, <1>1
  <2>4. DOMAIN t = 1 .. Len(t)
    BY <2>1
  <2>. QED BY <2>1, <2>2, <2>3, <2>4
<1>. HIDE DEF t
<1>5. \A i, j \in DOMAIN s : s[i].id = s[j].id => i = j
  <2>. SUFFICES ASSUME NEW i \in DOMAIN s, NEW j \in DOMAIN s, i # j
                PROVE  s[i].id # s[j].id
    OBVIOUS
  <2>1. s[i].id \in Nat /\ s[j].id \in Nat
    BY <1>1 DEF Message
  <2>2. i < j \/ j < i
    BY <1>1
  <2>. QED BY <2>1, <2>2 DEF Increasing
<1>6. Increasing(t)
  <2>. SUFFICES ASSUME NEW i \in 1 .. (Len(s) - 1), NEW j \in 1 .. (Len(s) - 1), i < j
                PROVE  t[i].id < t[j].id
    BY <1>4 DEF Increasing
  <2>. DEFINE p == IF i < k THEN i ELSE i + 1
              q == IF j < k THEN j ELSE j + 1
  <2>1. p \in DOMAIN s /\ q \in DOMAIN s /\ p < q
    BY <1>1
  <2>2. t[i] = s[p] /\ t[j] = s[q]
    BY <1>4
  <2>. HIDE DEF p, q
  <2>. QED BY <2>1, <2>2 DEF Increasing
<1>7. ASSUME NEW m \in ToSet(t) PROVE m \in ToSet(s) /\ m.id # s[k].id
  <2>1. PICK i \in DOMAIN t : m = t[i]
    BY <1>7 DEF ToSet
  <2>. DEFINE p == IF i < k THEN i ELSE i + 1
  <2>2. p \in DOMAIN s /\ p # k
    BY <1>1, <1>4
  <2>3. m = s[p]
    BY <2>1, <1>1, <1>4
  <2>. HIDE DEF p
  <2>4. m.id # s[k].id
    BY <2>2, <2>3, <1>1, <1>5
  <2>. QED BY <2>2, <2>3, <2>4 DEF ToSet
<1>8. ASSUME NEW m \in ToSet(s), m.id # s[k].id PROVE m \in ToSet(t)
  <2>1. PICK i \in DOMAIN s : m = s[i]
    BY DEF ToSet
  <2>2. CASE i < k
    BY <2>1, <2>2, <1>1, <1>4 DEF ToSet
  <2>3. CASE i > k
    <3>1. i - 1 \in DOMAIN t /\ t[i - 1] = s[i]
      BY <2>3, <1>1, <1>4
    <3>. QED BY <3>1, <2>1 DEF ToSet
  <2>. QED BY <2>1, <2>2, <2>3, <1>1, <1>8
<1>9. ToSet(t) = {m \in ToSet(s) : m.id # s[k].id}
  BY <1>7, <1>8
<1>. QED BY <1>4, <1>6, <1>9 DEF RemoveAt, a, b, t

\* Without drops the message with the given id, and only that one.
LEMMA WithoutMessage ==
    ASSUME NEW s \in Seq(Message), Increasing(s), NEW id \in Nat
    PROVE  /\ Without(s, id) \in Seq(Message)
           /\ Increasing(Without(s, id))
           /\ ToSet(Without(s, id)) = {m \in ToSet(s) : m.id # id}
<1>1. /\ Len(s) \in Nat /\ DOMAIN s = 1 .. Len(s)
      /\ \A i \in DOMAIN s : s[i] \in Message /\ s[i].id \in Nat
  <2>1. \A m \in Message : m.id \in Nat
    BY DEF Message
  <2>. QED BY <2>1
<1>2. CASE \A i \in 1 .. Len(s) : s[i].id # id
  <2>1. Without(s, id) = s
    BY <1>2 DEF Without, RemoveFirstMatch
  <2>. QED BY <2>1, <1>1, <1>2 DEF ToSet
<1>3. CASE \E i \in 1 .. Len(s) : s[i].id = id
  <2>1. PICK k \in 1 .. Len(s) : s[k].id = id
    BY <1>3
  <2>2. {i \in 1 .. Len(s) : s[i].id = id} = {k}
    <3>. SUFFICES ASSUME NEW i \in 1 .. Len(s), s[i].id = id PROVE i = k
      BY <2>1
    <3>. QED BY <2>1, <1>1 DEF Increasing
  <2>3. Min({k}) = k
    BY DEF Min
  <2>4. Without(s, id) = RemoveAt(s, k)
    BY <1>3, <2>2, <2>3 DEF Without, RemoveFirstMatch, SelectInSeq
  <2>. QED BY <2>1, <2>4, <1>1, DropOne
<1>. QED BY <1>2, <1>3

-----------------------------------------------------------------------------
(***************************************************************************)
(* The inductive invariant.  The properties that matter are not inductive   *)
(* by themselves: that a list without a key is empty makes put_account and  *)
(* put_friends harmless to history, that every id in use is below next_id   *)
(* makes a new message the last of its lists, that a list holds only seeded *)
(* messages and those of this process tells its files from the leftovers of *)
(* earlier ones, and that files lie below the directory of their sender,    *)
(* which exists with all of its parts, makes rmtree remove all of them.     *)
(***************************************************************************)
FriendsAreUsers == \A u, v \in Names : v \in friend_list[u] => u \in users

ListsAreKeyed == \A u, v \in Names : v \notin friend_list[u] => history[u][v] = <<>>

IdsAreOld ==
    /\ FirstId <= boot /\ boot <= next_id
    /\ \A u, v \in Names : \A m \in Held(u, v) :
          m.id < next_id /\ (m.id < FirstId \/ boot <= m.id)
    /\ \A f \in files : FirstId <= f[3] /\ f[3] < next_id

Tree ==
    /\ \A f \in files : ChatDir(f[1], f[2]) \in dirs
    /\ \A p \in dirs : Prefixes(p) \subseteq dirs

IInv ==
    /\ TypeOK
    /\ FriendsAreUsers
    /\ ListsAreKeyed
    /\ IdsAreOld
    /\ Tree
    /\ OneMessagePerId
    /\ Chronological
    /\ NoGaps

\* The directories on the way to a directory.
LEMMA PrefixFacts ==
    ASSUME NEW p \in Seq(Parts), NEW q \in Prefixes(p)
    PROVE  /\ q \in Seq(Parts) /\ Len(q) <= Len(p)
           /\ \A i \in 1 .. Len(q) : q[i] = p[i]
           /\ p \in Prefixes(p)
           /\ \A r \in Prefixes(q) : r \in Prefixes(p)
           /\ \A r \in Seq(Parts) : IsPrefix(r, q) => IsPrefix(r, p)
<1>1. PICK l \in 0 .. Len(p) : q = SubSeq(p, 1, l)
  BY DEF Prefixes
<1>2. q \in Seq(Parts) /\ Len(q) = l /\ \A i \in 1 .. l : q[i] = p[i]
  BY <1>1
<1>3. p \in Prefixes(p)
  <2>1. SubSeq(p, 1, Len(p)) = p /\ Len(p) \in 0 .. Len(p)
    OBVIOUS
  <2>. QED BY <2>1 DEF Prefixes
<1>4. ASSUME NEW k \in 0 .. Len(q) PROVE SubSeq(q, 1, k) = SubSeq(p, 1, k)
  BY <1>2
<1>5. \A r \in Prefixes(q) : r \in Prefixes(p)
  BY <1>2, <1>4 DEF Prefixes
<1>6. \A r \in Seq(Parts) : IsPrefix(r, q) => IsPrefix(r, p)
  BY <1>2, <1>4 DEF IsPrefix
<1>. QED BY <1>2, <1>3, <1>5, <1>6

\* A path is on the way to what it is continued to.
LEMMA ContinuedPath ==
    ASSUME NEW p \in Seq(Parts), NEW q \in Seq(Parts)
    PROVE  p \o q \in Seq(Parts) /\ p \in Prefixes(p \o q) /\ IsPrefix(p, p \o q)
<1>1. /\ p \o q \in Seq(Parts) /\ Len(p \o q) = Len(p) + Len(q)
      /\ \A i \in 1 .. Len(p) : (p \o q)[i] = p[i]
  OBVIOUS
<1>2. SubSeq(p \o q, 1, Len(p)) = p
  BY <1>1
<1>3. SubSeq(p, 1, Len(p)) = p
  OBVIOUS
<1>4. Len(p) \in 0 .. Len(p \o q)
  BY <1>1
<1>5. p \in Prefixes(p \o q)
  BY <1>2, <1>4 DEF Prefixes
<1>6. Len(p) <= Len(p \o q)
  BY <1>1
<1>7. IsPrefix(p, p \o q)
  BY <1>2, <1>3, <1>6 DEF IsPrefix
<1>. QED BY <1>1, <1>5, <1>7

\* The directory of a chat lies below its sender's.
LEMMA ChatDirFacts ==
    ASSUME NEW u \in Names, NEW v \in Names
    PROVE  /\ Path[u] \in Seq(Parts) /\ ChatDir(u, v) \in Seq(Parts)
           /\ Path[u] \in Prefixes(ChatDir(u, v)) /\ IsPrefix(Path[u], ChatDir(u, v))
<1>1. Path[u] \in Seq(Parts) /\ Path[v] \in Seq(Parts)
  BY PathAssumption
<1>. QED BY <1>1, ContinuedPath DEF ChatDir

\* A set of directories that holds the way to each of them.
Grown(D) == D \subseteq Seq(Parts) /\ \A p \in D : Prefixes(p) \subseteq D

\* os.makedirs keeps it so.
LEMMA MakedirsGrows ==
    ASSUME NEW D, Grown(D), NEW p \in Seq(Parts)
    PROVE  Grown(D \cup Prefixes(p))
BY PrefixFacts DEF Grown

\* So does shutil.rmtree.
LEMMA RmtreeGrows ==
    ASSUME NEW D, Grown(D), NEW r \in Seq(Parts)
    PROVE  Grown({p \in D : ~ IsPrefix(r, p)})
BY PrefixFacts DEF Grown

\* The directories that _init_filesystem makes.
LEMMA SeedDirsGrown == \A D : Grown(D) => Grown(D \cup SeedDirs)
<1>. SUFFICES ASSUME NEW D, Grown(D) PROVE Grown(D \cup SeedDirs)
  OBVIOUS
<1>1. \A p \in SeedDirs : \/ p = <<>>
                          \/ \E u \in Names : p \in Prefixes(Path[u])
                                             /\ Prefixes(Path[u]) \subseteq SeedDirs
                          \/ \E u, v \in Names : p \in Prefixes(ChatDir(u, v))
                                                /\ Prefixes(ChatDir(u, v)) \subseteq SeedDirs
  BY SeedUsersAssumption DEF SeedDirs, SeedChats
<1>2. <<>> \in SeedDirs /\ <<>> \in Seq(Parts)
  BY DEF SeedDirs
<1>3. Prefixes(<<>>) = {<<>>}
  <2>1. \A l \in 0 .. 0 : SubSeq(<<>>, 1, l) = <<>>
    OBVIOUS
  <2>2. 0 .. 0 = {0} /\ Len(<<>>) = 0
    OBVIOUS
  <2>. QED BY <2>1, <2>2 DEF Prefixes
<1>. QED BY <1>1, <1>2, <1>3, PrefixFacts, ChatDirFacts DEF Grown

\* What a list holds are messages.
LEMMA HeldIsTyped ==
    ASSUME TypeOK, NEW u \in Names, NEW v \in Names
    PROVE  /\ history[u][v] \in Seq(Message)
           /\ \A m \in Held(u, v) : /\ m \in Message /\ m.id \in Nat
                                     /\ m.from \in Names /\ m.to \in Names
<1>1. history[u][v] \in Seq(Message)
  BY DEF TypeOK
<1>2. \A m \in Held(u, v) : m \in Message
  BY <1>1 DEF Held, ToSet
<1>. QED BY <1>1, <1>2 DEF Message

\* The empty list.
LEMMA NothingHeld == ToSet(<<>>) = {} /\ Increasing(<<>>)
BY DEF ToSet, Increasing

\* The literal database satisfies the invariant.
LEMMA InitIInv == Init => IInv
<1>. SUFFICES ASSUME Init PROVE IInv
  OBVIOUS
<1>. USE SeedUsersAssumption, SeedHistoryAssumption DEF Init
<1>0. dirs \subseteq Seq(Parts) /\ \A p \in dirs : Prefixes(p) \subseteq dirs
  <2>1. Grown({})
    BY DEF Grown
  <2>2. {} \cup SeedDirs = SeedDirs
    OBVIOUS
  <2>3. Grown({} \cup SeedDirs)
    BY <2>1, SeedDirsGrown
  <2>. QED BY <2>2, <2>3 DEF Grown
<1>1. TypeOK
  BY <1>0 DEF TypeOK, Endpoints, Statuses
<1>2. FriendsAreUsers
  BY DEF FriendsAreUsers
<1>3. ListsAreKeyed
  BY DEF ListsAreKeyed
<1>5. IdsAreOld
  BY DEF IdsAreOld, Held
<1>6. Tree
  BY <1>0 DEF Tree
<1>7. OneMessagePerId
  BY DEF OneMessagePerId, Held
<1>8. Chronological
  BY DEF Chronological
<1>9. NoGaps
  BY DEF NoGaps, Held
<1>. QED BY <1>1, <1>2, <1>3, <1>5, <1>6, <1>7, <1>8, <1>9 DEF IInv

\* A step that leaves the lists alone and makes no file keeps what is said of
\* them.
LEMMA SameLists ==
    ASSUME IInv, UNCHANGED <<history, boot>>, next_id' \in {next_id, next_id + 1},
           files' \subseteq files
    PROVE  IdsAreOld' /\ OneMessagePerId' /\ Chronological' /\ NoGaps'
<1>1. IdsAreOld'
  <2>1. /\ next_id \in Nat /\ next_id <= next_id' /\ next_id' \in Nat
        /\ boot \in Nat /\ boot' = boot
    BY DEF IInv, TypeOK
  <2>2. ASSUME NEW a \in Names, NEW b \in Names, NEW m \in Held(a, b)'
        PROVE  m.id < next_id' /\ (m.id < FirstId \/ boot' <= m.id)
    <3>1. m \in Held(a, b) /\ m.id \in Nat
      BY HeldIsTyped DEF IInv, Held
    <3>. QED BY <3>1, <2>1 DEF IInv, IdsAreOld
  <2>3. ASSUME NEW f \in files' PROVE FirstId <= f[3] /\ f[3] < next_id'
    BY <2>1 DEF IInv, IdsAreOld, TypeOK
  <2>. QED BY <2>1, <2>2, <2>3, SeedHistoryAssumption DEF IInv, IdsAreOld
<1>2. OneMessagePerId'
  BY DEF IInv, OneMessagePerId, Held
<1>3. Chronological'
  BY DEF IInv, Chronological
<1>4. NoGaps'
  BY DEF IInv, NoGaps, Held, Intact
<1>. QED BY <1>1, <1>2, <1>3, <1>4

\* A handler that refuses changes nothing but the reply.
LEMMA RefuseKeeps ==
    ASSUME IInv, NEW op \in Endpoints, NEW u \in Names, NEW status \in Statuses,
           Refuse(op, u, status)
    PROVE  IInv'
<1>1. TypeOK'
  BY DEF IInv, TypeOK, Refuse, Answer, store
<1>2. FriendsAreUsers' /\ ListsAreKeyed' /\ Tree'
  BY DEF IInv, Refuse, store, FriendsAreUsers, ListsAreKeyed, Tree
<1>3. UNCHANGED <<history, next_id, boot, files>>
  BY DEF Refuse, store
<1>. QED BY <1>1, <1>2, <1>3, SameLists DEF IInv

\* A request without a valid token, or from a user without friends.
LEMMA NoHistoryKeeps ==
    ASSUME IInv, NEW op \in Endpoints, NEW u \in Names, NoHistory(op, u)
    PROVE  IInv'
BY RefuseKeeps DEF NoHistory, Statuses

\* A request that draws an id and then fails.
LEMMA DrawKeeps ==
    ASSUME IInv, NEW op \in Endpoints, NEW u \in Names, NEW status \in Statuses,
           DrawId, Answer(op, u, status),
           UNCHANGED <<users, friend_list, history, dirs, files, boot>>
    PROVE  IInv'
<1>1. TypeOK'
  <2>1. next_id' \in Nat
    BY DEF IInv, TypeOK, DrawId
  <2>2. reply' \in [op : Endpoints, by : Names, status : Statuses]
    BY DEF Answer
  <2>. QED BY <2>1, <2>2 DEF IInv, TypeOK
<1>2. FriendsAreUsers' /\ ListsAreKeyed' /\ Tree'
  BY DEF IInv, FriendsAreUsers, ListsAreKeyed, Tree
<1>. QED BY <1>1, <1>2, SameLists DEF IInv, DrawId

\* os.makedirs for a user keeps the tree well-formed.
LEMMA MakedirsTree ==
    ASSUME IInv, NEW u \in Names, dirs' = dirs \cup Prefixes(Path[u]), files' = files
    PROVE  dirs' \subseteq Seq(Parts) /\ Tree'
<1>1. Grown(dirs) /\ Path[u] \in Seq(Parts)
  BY ChatDirFacts DEF IInv, TypeOK, Tree, Grown
<1>2. Grown(dirs')
  BY <1>1, MakedirsGrows
<1>. QED BY <1>2 DEF Grown, IInv, Tree

\* Signing up and befriending touch no list: the one they reset had no key.
LEMMA put_accountLists ==
    ASSUME IInv, NEW u \in Names, put_account(u)
    PROVE  UNCHANGED <<friend_list, history, files, next_id, boot>>
<1>1. CASE u \in users
  BY <1>1 DEF put_account, Refuse, store
<1>2. CASE u \notin users
  <2>1. /\ friend_list' = [friend_list EXCEPT ![u] = {}]
        /\ history' = [history EXCEPT ![u] = [v \in Names |-> <<>>]]
        /\ UNCHANGED <<files, next_id, boot>>
    BY <1>2 DEF put_account
  <2>2. friend_list[u] = {} /\ \A v \in Names : history[u][v] = <<>>
    BY <1>2 DEF IInv, TypeOK, FriendsAreUsers, ListsAreKeyed
  <2>3. friend_list' = friend_list
    BY <2>1, <2>2 DEF IInv, TypeOK
  <2>4. history[u] = [v \in Names |-> <<>>]
    BY <2>2 DEF IInv, TypeOK
  <2>5. history' = history
    BY <2>1, <2>4 DEF IInv, TypeOK
  <2>. QED BY <2>1, <2>3, <2>5
<1>. QED BY <1>1, <1>2

\* Signing up.
LEMMA put_accountKeeps ==
    ASSUME IInv, NEW u \in Names, put_account(u)
    PROVE  IInv'
<1>1. CASE u \in users
  BY <1>1, RefuseKeeps DEF put_account, Endpoints, Statuses
<1>2. CASE u \notin users
  <2>1. /\ users' = users \cup {u} /\ dirs' = dirs \cup Prefixes(Path[u])
        /\ reply' = [op |-> "put_account", by |-> u, status |-> "ok"]
        /\ UNCHANGED <<friend_list, history, files, next_id, boot>>
    BY <1>2, put_accountLists DEF put_account, Refuse, Answer
  <2>4. dirs' \subseteq Seq(Parts) /\ Tree'
    BY <2>1, MakedirsTree
  <2>2. TypeOK'
    BY <2>1, <2>4 DEF IInv, TypeOK, Endpoints, Statuses
  <2>3. FriendsAreUsers' /\ ListsAreKeyed' /\ Tree'
    BY <2>1, <2>4 DEF IInv, FriendsAreUsers, ListsAreKeyed
  <2>. QED BY <2>1, <2>2, <2>3, SameLists DEF IInv
<1>. QED BY <1>1, <1>2

\* Befriending resets a list that had no key, that is, an empty one.
LEMMA put_friendsLists ==
    ASSUME IInv, NEW u \in Names, NEW v \in Names, put_friends(u, v)
    PROVE  UNCHANGED <<users, history, files, next_id, boot>>
<1>1. CASE UNCHANGED store
  BY <1>1 DEF store
<1>2. CASE /\ v \notin friend_list[u]
           /\ history' = [history EXCEPT ![u][v] = <<>>]
           /\ UNCHANGED <<users, files, next_id, boot>>
  <2>1. history[u][v] = <<>>
    BY <1>2 DEF IInv, ListsAreKeyed
  <2>2. history' = history
    BY <1>2, <2>1 DEF IInv, TypeOK
  <2>. QED BY <1>2, <2>2
<1>. QED BY <1>1, <1>2 DEF put_friends, Refuse

\* Befriending.
LEMMA put_friendsKeeps ==
    ASSUME IInv, NEW u \in Names, NEW v \in Names, put_friends(u, v)
    PROVE  IInv'
<1>1. CASE \E status \in Statuses : Refuse("put_friends", u, status)
  BY <1>1, RefuseKeeps DEF Endpoints
<1>2. CASE /\ u \in users /\ v \in users
           /\ friend_list' = [friend_list EXCEPT ![u] = @ \cup {v}]
           /\ dirs' = dirs \cup Prefixes(Path[v])
           /\ Answer("put_friends", u, "ok")
  <2>1. UNCHANGED <<users, history, files, next_id, boot>>
    BY put_friendsLists
  <2>4. dirs' \subseteq Seq(Parts) /\ Tree'
    BY <1>2, <2>1, MakedirsTree
  <2>2. TypeOK'
    BY <1>2, <2>1, <2>4 DEF IInv, TypeOK, Answer, Endpoints, Statuses
  <2>3. FriendsAreUsers' /\ ListsAreKeyed'
    BY <1>2, <2>1 DEF IInv, TypeOK, FriendsAreUsers, ListsAreKeyed
  <2>. QED BY <2>1, <2>2, <2>3, <2>4, SameLists DEF IInv
<1>. QED BY <1>1, <1>2 DEF put_friends, Statuses

\* rmtree, or its failure, removes files and keeps the tree well-formed.
LEMMA del_friendsKeeps ==
    ASSUME IInv, NEW u \in Names, NEW v \in Names, del_friends(u, v)
    PROVE  IInv'
<1>1. CASE \E status \in Statuses : Refuse("del_friends", u, status)
  BY <1>1, RefuseKeeps DEF Endpoints
<1>2. CASE /\ v \in friend_list[u]
           /\ friend_list' = [friend_list EXCEPT ![u] = @ \ {v}]
           /\ history' = [history EXCEPT ![u][v] = <<>>]
           /\ \/ Path[u] \in dirs /\ rmtree(u) /\ Answer("del_friends", u, "ok")
              \/ /\ Path[u] \notin dirs
                 /\ Answer("del_friends", u, "error")
                 /\ UNCHANGED <<dirs, files>>
           /\ UNCHANGED <<users, next_id, boot>>
  <2>1. /\ files' \subseteq files /\ dirs' \subseteq dirs
        /\ reply' \in [op : Endpoints, by : Names, status : Statuses]
    BY <1>2 DEF rmtree, Answer, Endpoints, Statuses
  <2>2. history' \in [Names -> [Names -> Seq(Message)]]
    BY <1>2 DEF IInv, TypeOK
  <2>3. TypeOK'
    BY <1>2, <2>1, <2>2 DEF IInv, TypeOK
  <2>4. Tree'
    <3>1. Grown(dirs) /\ Path[u] \in Seq(Parts)
      BY ChatDirFacts DEF IInv, TypeOK, Tree, Grown
    <3>2. CASE rmtree(u)
      <4>1. Grown(dirs')
        BY <3>1, <3>2, RmtreeGrows DEF rmtree
      <4>2. \A f \in files' : ChatDir(f[1], f[2]) \in dirs'
        BY <3>2 DEF rmtree, IInv, Tree
      <4>. QED BY <4>1, <4>2 DEF Grown, Tree
    <3>. QED BY <1>2, <3>2 DEF IInv, Tree
  <2>5. FriendsAreUsers'
    BY <1>2 DEF IInv, TypeOK, FriendsAreUsers
  <2>6. \A a, b \in Names : IF a = u /\ b = v THEN history'[a][b] = <<>>
                                             ELSE history'[a][b] = history[a][b]
    BY <1>2 DEF IInv, TypeOK
  <2>7. ListsAreKeyed'
    <3>1. ASSUME NEW a \in Names, NEW b \in Names, b \notin friend_list'[a]
          PROVE  (a = u /\ b = v) \/ b \notin friend_list[a]
      BY <1>2, <3>1 DEF IInv, TypeOK
    <3>. QED BY <2>6, <3>1 DEF IInv, ListsAreKeyed
  <2>8. \A a, b \in Names : /\ Held(a, b)' \subseteq Held(a, b)
                            /\ (a # u \/ b # v) => Held(a, b)' = Held(a, b)
                            /\ Held(u, v)' = {}
    BY <2>6, NothingHeld DEF Held
  <2>9. IdsAreOld'
    BY <1>2, <2>1, <2>8 DEF IInv, IdsAreOld
  <2>10. OneMessagePerId'
    BY <2>8 DEF IInv, OneMessagePerId
  <2>11. Chronological'
    BY <2>6, NothingHeld DEF IInv, Chronological
  <2>12. NoGaps'
    BY <2>1, <2>8 DEF IInv, NoGaps, Intact
  <2>. QED BY <2>3, <2>4, <2>5, <2>7, <2>9, <2>10, <2>11, <2>12 DEF IInv
<1>. QED BY <1>1, <1>2 DEF del_friends, Statuses

-----------------------------------------------------------------------------
(* Sending.                                                                 *)

\* The lists after a new message m from u to v: u's list with v gets it, and
\* v's list with u if "both" holds; every other list stays.
Sent(u, v, m, both) ==
    /\ history' \in [Names -> [Names -> Seq(Message)]]
    /\ \A a, b \in Names :
          IF (a = u /\ b = v) \/ (both /\ a = v /\ b = u)
          THEN /\ Held(a, b)' = Held(a, b) \cup {m}
               /\ a # b => history'[a][b] = Append(history[a][b], m)
          ELSE history'[a][b] = history[a][b]

\* One list of the table is replaced.
LEMMA OneListReplaced ==
    ASSUME NEW h \in [Names -> [Names -> Seq(Message)]], NEW g, NEW s \in Seq(Message),
           NEW u \in Names, NEW v \in Names, g = [h EXCEPT ![u][v] = s]
    PROVE  /\ g \in [Names -> [Names -> Seq(Message)]]
           /\ \A a, b \in Names : g[a][b] = IF a = u /\ b = v THEN s ELSE h[a][b]
OBVIOUS

\* What the two appends of a send amount to, self-chats included.
LEMMA BothAppendSends ==
    ASSUME TypeOK, NEW u \in Names, NEW v \in Names, NEW m \in Message,
           v \in friend_list[u], history' = BothAppend(u, v, m)
    PROVE  Sent(u, v, m, u \in friend_list[v])
<1> DEFINE own == [history EXCEPT ![u][v] = Append(@, m)]
<1>1. \A a, b \in Names : history[a][b] \in Seq(Message)
  BY DEF TypeOK
<1>2. /\ own \in [Names -> [Names -> Seq(Message)]]
      /\ \A a, b \in Names : own[a][b] = IF a = u /\ b = v THEN Append(history[u][v], m)
                                                          ELSE history[a][b]
  BY <1>1, AppendMessage DEF TypeOK
<1>3. history' = IF u \in friend_list[v] THEN [own EXCEPT ![v][u] = Append(own[v][u], m)]
                                         ELSE own
  BY DEF BothAppend
<1>. HIDE DEF own
<1>4. CASE u \notin friend_list[v]
  <2>1. ToSet(Append(history[u][v], m)) = Held(u, v) \cup {m}
    BY <1>1, AppendMessage DEF Held
  <2>. QED BY <1>2, <1>3, <1>4, <2>1 DEF Sent, Held
<1>5. CASE u \in friend_list[v]
  <2>1. /\ own[v][u] \in Seq(Message)
        /\ Append(own[v][u], m) \in Seq(Message)
        /\ ToSet(Append(own[v][u], m)) = ToSet(own[v][u]) \cup {m}
    BY <1>2, AppendMessage
  <2>2. /\ history' \in [Names -> [Names -> Seq(Message)]]
        /\ \A a, b \in Names :
             history'[a][b] = IF a = v /\ b = u THEN Append(own[v][u], m) ELSE own[a][b]
    <3>1. history' = [own EXCEPT ![v][u] = Append(own[v][u], m)]
      BY <1>3, <1>5
    <3>. QED BY <3>1, <1>2, <2>1, OneListReplaced
  <2>3. ToSet(Append(history[u][v], m)) = ToSet(history[u][v]) \cup {m}
    BY <1>1, AppendMessage
  <2>4. ASSUME NEW a \in Names, NEW b \in Names,
               (a = u /\ b = v) \/ (a = v /\ b = u)
        PROVE  /\ Held(a, b)' = Held(a, b) \cup {m}
               /\ a # b => history'[a][b] = Append(history[a][b], m)
    <3>1. CASE u = v
      <4>1. history'[a][b] = Append(own[v][u], m) /\ own[v][u] = Append(history[u][v], m)
        BY <3>1, <2>2, <2>4, <1>2
      <4>. QED BY <4>1, <3>1, <2>1, <2>3, <2>4 DEF Held
    <3>2. CASE u # v /\ a = u /\ b = v
      <4>1. history'[a][b] = Append(history[u][v], m)
        BY <3>2, <2>2, <1>2
      <4>. QED BY <4>1, <3>2, <2>3 DEF Held
    <3>3. CASE u # v /\ a = v /\ b = u
      <4>1. history'[a][b] = Append(own[v][u], m) /\ own[v][u] = history[v][u]
        BY <3>3, <2>2, <1>2
      <4>. QED BY <4>1, <3>3, <2>1 DEF Held
    <3>. QED BY <2>4, <3>1, <3>2, <3>3
  <2>5. ASSUME NEW a \in Names, NEW b \in Names,
               ~ ((a = u /\ b = v) \/ (a = v /\ b = u))
        PROVE  history'[a][b] = history[a][b]
    <3>1. history'[a][b] = own[a][b]
      BY <2>5, <2>2
    <3>2. own[a][b] = history[a][b]
      BY <2>5, <1>2
    <3>. QED BY <3>1, <3>2
  <2>. QED BY ZenonT(40), <2>2, <2>4, <2>5, <1>5 DEF Sent
<1>. QED BY <1>4, <1>5

\* A message with a new id, stored by its sender and, if the counterpart has the
\* sender as a friend and the message is intact, by the counterpart.
LEMMA SentKeeps ==
    ASSUME IInv, NEW u \in Names, NEW v \in Names, NEW m \in Message, NEW both \in BOOLEAN,
           m.id = next_id, m.from = u, m.to = v, v \in friend_list[u],
           both => u \in friend_list[v],
           u \in friend_list[v] /\ Intact(m)' => both,
           Sent(u, v, m, both),
           next_id' = next_id + 1,
           files' = files \/ files' = files \cup {FileOf(m)},
           files' # files => ChatDir(u, v) \in dirs,
           reply' \in [op : Endpoints, by : Names, status : Statuses],
           UNCHANGED <<users, friend_list, dirs, boot>>
    PROVE  IInv'
<1>1. /\ next_id \in Nat /\ m.id \in Nat
      /\ \A a, b \in Names : \A n \in Held(a, b) : n.id \in Nat /\ n.id < m.id
  BY HeldIsTyped DEF IInv, IdsAreOld, TypeOK
<1>2. \A a, b \in Names :
         /\ Held(a, b)' = Held(a, b) \/ Held(a, b)' = Held(a, b) \cup {m}
         /\ m \in Held(a, b)' =>
               /\ (a = u /\ b = v) \/ (both /\ a = v /\ b = u)
               /\ b \in friend_list[a]
  <2>. SUFFICES ASSUME NEW a \in Names, NEW b \in Names
                PROVE  /\ Held(a, b)' = Held(a, b) \/ Held(a, b)' = Held(a, b) \cup {m}
                       /\ m \in Held(a, b)' =>
                             /\ (a = u /\ b = v) \/ (both /\ a = v /\ b = u)
                             /\ b \in friend_list[a]
    OBVIOUS
  <2>1. m \notin Held(a, b)
    BY <1>1
  <2>2. CASE (a = u /\ b = v) \/ (both /\ a = v /\ b = u)
    BY <2>2 DEF Sent
  <2>3. CASE ~ ((a = u /\ b = v) \/ (both /\ a = v /\ b = u))
    <3>1. history'[a][b] = history[a][b]
      BY <2>3 DEF Sent
    <3>. QED BY <3>1, <2>1 DEF Held
  <2>. QED BY <2>2, <2>3
<1>3. TypeOK'
  <2>1. FileOf(m) \in Names \X Names \X Nat
    BY <1>1 DEF FileOf
  <2>2. history' \in [Names -> [Names -> Seq(Message)]]
    BY DEF Sent
  <2>3. files' \subseteq Names \X Names \X Nat
    BY <2>1 DEF IInv, TypeOK
  <2>4. next_id' \in Nat /\ boot' \in Nat
    BY <1>1 DEF IInv, TypeOK
  <2>5. /\ users' \subseteq Names /\ friend_list' \in [Names -> SUBSET Names]
        /\ dirs' \subseteq Seq(Parts)
    BY DEF IInv, TypeOK
  <2>. QED BY <2>2, <2>3, <2>4, <2>5 DEF TypeOK
<1>4. FriendsAreUsers'
  BY DEF IInv, FriendsAreUsers
<1>5. ListsAreKeyed'
  <2>. SUFFICES ASSUME NEW a \in Names, NEW b \in Names, b \notin friend_list[a]
                PROVE  history'[a][b] = <<>>
    BY DEF ListsAreKeyed
  <2>1. history'[a][b] = history[a][b]
    BY ZenonT(60) DEF Sent
  <2>. QED BY <2>1 DEF IInv, ListsAreKeyed
<1>6. IdsAreOld'
  <2>1. /\ FirstId <= boot' /\ boot' <= next_id' /\ boot' = boot
        /\ FirstId <= next_id /\ boot <= next_id
    BY <1>1, SeedHistoryAssumption DEF IInv, IdsAreOld, TypeOK
  <2>2. ASSUME NEW a \in Names, NEW b \in Names, NEW n \in Held(a, b)'
        PROVE  n.id < next_id' /\ (n.id < FirstId \/ boot' <= n.id)
    <3>1. CASE n \in Held(a, b)
      BY <3>1, <2>1, <1>1 DEF IInv, IdsAreOld
    <3>2. CASE n = m
      BY <3>2, <2>1, <1>1
    <3>. QED BY <3>1, <3>2, <1>2
  <2>3. ASSUME NEW f \in files' PROVE FirstId <= f[3] /\ f[3] < next_id'
    <3>1. CASE f \in files
      <4>1. f[3] \in Nat /\ FirstId <= f[3] /\ f[3] < next_id
        BY <3>1 DEF IInv, IdsAreOld, TypeOK
      <4>. QED BY <4>1, <1>1
    <3>2. CASE f = FileOf(m)
      BY <3>2, <2>1, <1>1 DEF FileOf
    <3>. QED BY <3>1, <3>2
  <2>. QED BY <2>1, <2>2, <2>3 DEF IdsAreOld
<1>7. Tree'
  BY DEF IInv, Tree, FileOf
<1>8. OneMessagePerId'
  <2>. SUFFICES ASSUME NEW a \in Names, NEW b \in Names, NEW c \in Names, NEW d \in Names,
                       NEW n \in Held(a, b)', NEW k \in Held(c, d)'
                PROVE  Between(n, a, b) /\ (n.id = k.id => n = k)
    BY DEF OneMessagePerId
  <2>1. Between(m, u, v) /\ Between(m, v, u)
    BY DEF Between
  <2>2. Between(n, a, b)
    <3>1. CASE n = m
      BY <3>1, <2>1, <1>2
    <3>2. CASE n \in Held(a, b)
      BY <3>2 DEF IInv, OneMessagePerId
    <3>. QED BY <3>1, <3>2, <1>2
  <2>3. n.id = k.id => n = k
    <3>1. CASE n \in Held(a, b) /\ k \in Held(c, d)
      BY <3>1 DEF IInv, OneMessagePerId
    <3>2. CASE n = m \/ k = m
      BY <3>2, <1>1, <1>2
    <3>. QED BY <3>1, <3>2, <1>2
  <2>. QED BY <2>2, <2>3
<1>9. Chronological'
  <2>. SUFFICES ASSUME NEW a \in Names, NEW b \in Names, a # b
                PROVE  Increasing(history'[a][b])
    BY DEF Chronological
  <2>1. history[a][b] \in Seq(Message) /\ Increasing(history[a][b])
    BY DEF IInv, Chronological, TypeOK
  <2>2. Increasing(Append(history[a][b], m))
    BY <2>1, <1>1, AppendMessage DEF Held
  <2>. QED BY <2>1, <2>2 DEF Sent
<1>10. NoGaps'
  <2>. SUFFICES ASSUME NEW a \in Names, NEW b \in Names, a # b,
                       NEW n \in Held(a, b)', NEW k \in Held(b, a)',
                       k.id < n.id, Intact(n)'
                PROVE  n \in Held(b, a)'
    BY DEF NoGaps
  <2>1. CASE n = m
    <3>1. k \in Held(b, a)
      BY <2>1, <1>1, <1>2
    <3>2. a \in friend_list[b]
      BY <3>1, NothingHeld DEF IInv, ListsAreKeyed, Held
    <3>3. (a = u /\ b = v) \/ (both /\ a = v /\ b = u)
      BY <2>1, <1>2
    <3>4. both
      BY <3>2, <3>3, <2>1
    <3>. QED BY ZenonT(60), <3>3, <3>4, <2>1 DEF Sent
  <2>2. CASE n \in Held(a, b) /\ n # m
    <3>1. n.id < m.id /\ k.id # m.id
      BY <2>2, <1>1, <1>2
    <3>2. k \in Held(b, a)
      BY <3>1, <1>2
    <3>3. Intact(n)
      <4>1. FileOf(n) # FileOf(m)
        BY <3>1, <1>1, <2>2 DEF FileOf
      <4>. QED BY <4>1 DEF Intact
    <3>4. n \in Held(b, a)
      BY <2>2, <3>2, <3>3 DEF IInv, NoGaps
    <3>. QED BY <3>4, <1>2
  <2>. QED BY <2>1, <2>2, <1>2
<1>. QED BY <1>3, <1>4, <1>5, <1>6, <1>7, <1>8, <1>9, <1>10 DEF IInv

\* Sending a text.
LEMMA put_messagesKeeps ==
    ASSUME IInv, NEW u \in Names, NEW v \in Names, put_messages(u, v)
    PROVE  IInv'
<1>1. CASE \/ NoHistory("put_messages", u)
         \/ /\ DrawId
            /\ Answer("put_messages", u, "exception")
            /\ UNCHANGED <<users, friend_list, history, dirs, files, boot>>
  BY <1>1, NoHistoryKeeps, DrawKeeps DEF Endpoints, Statuses
<1>2. CASE /\ v \in friend_list[u]
           /\ history' = BothAppend(u, v, [id |-> next_id, from |-> u, to |-> v,
                                           kind |-> "Generic"])
           /\ next_id' = next_id + 1
           /\ Answer("put_messages", u, "ok")
           /\ UNCHANGED <<users, friend_list, dirs, files, boot>>
  <2>1. PICK m \in Message : m = [id |-> next_id, from |-> u, to |-> v, kind |-> "Generic"]
    BY DEF IInv, TypeOK, Message, Kinds
  <2>2. m.id = next_id /\ m.from = u /\ m.to = v
    BY <2>1
  <2>3. PICK both \in BOOLEAN : both = (u \in friend_list[v])
    BY (u \in friend_list[v]) \in BOOLEAN, Zenon
  <2>4. Sent(u, v, m, both)
    BY <1>2, <2>1, <2>3, BothAppendSends DEF IInv
  <2>5. reply' \in [op : Endpoints, by : Names, status : Statuses]
    BY <1>2 DEF Answer, Endpoints, Statuses
  <2>. QED BY <1>2, <2>2, <2>3, <2>4, <2>5, SentKeeps
<1>. QED BY <1>1, <1>2 DEF put_messages, DrawId

\* Sending an attachment: without a directory the counterpart gets no copy,
\* and the copy that stays is not intact.
LEMMA put_messages_fileKeeps ==
    ASSUME IInv, NEW u \in Names, NEW v \in Names, put_messages_file(u, v)
    PROVE  IInv'
<1> DEFINE Fails ==
         \/ NoHistory("put_messages_file", u)
         \/ /\ DrawId
            /\ Answer("put_messages_file", u, "exception")
            /\ UNCHANGED <<users, friend_list, history, dirs, files, boot>>
<1>1. CASE Fails
  BY <1>1, NoHistoryKeeps, DrawKeeps DEF Endpoints, Statuses
<1>1a. PICK m \in Message : m = [id |-> next_id, from |-> u, to |-> v, kind |-> "Attachment"]
  BY DEF IInv, TypeOK, Message, Kinds
<1>2. m.id = next_id /\ m.from = u /\ m.to = v /\ Attachment(m)
  BY <1>1a DEF Attachment
<1>3. ASSUME ~ Fails
      PROVE  /\ v \in friend_list[u]
             /\ \/ /\ ChatDir(u, v) \in dirs
                   /\ files' = files \cup {FileOf(m)}
                   /\ history' = BothAppend(u, v, m)
                   /\ Answer("put_messages_file", u, "ok")
                \/ /\ ChatDir(u, v) \notin dirs
                   /\ history' = [history EXCEPT ![u][v] = Append(@, m)]
                   /\ Answer("put_messages_file", u, "exception")
                   /\ UNCHANGED files
             /\ next_id' = next_id + 1
             /\ UNCHANGED <<users, friend_list, dirs, boot>>
  BY <1>1a, <1>3 DEF put_messages_file, DrawId
<1>. HIDE DEF Fails
<1>4. ASSUME ~ Fails
      PROVE  reply' \in [op : Endpoints, by : Names, status : Statuses]
  BY <1>3, <1>4 DEF Answer, Endpoints, Statuses
<1>5. CASE ~ Fails /\ ChatDir(u, v) \in dirs
  <2>1. PICK both \in BOOLEAN : both = (u \in friend_list[v])
    BY (u \in friend_list[v]) \in BOOLEAN, Zenon
  <2>2. Sent(u, v, m, both)
    BY <1>3, <1>5, <2>1, BothAppendSends DEF IInv
  <2>. QED BY <1>2, <1>3, <1>4, <1>5, <2>1, <2>2, SentKeeps
<1>6. CASE ~ Fails /\ ChatDir(u, v) \notin dirs
  <2>1. Sent(u, v, m, FALSE)
    <3>1. history' = [history EXCEPT ![u][v] = Append(history[u][v], m)]
      BY <1>3, <1>6
    <3>2. history[u][v] \in Seq(Message)
      BY DEF IInv, TypeOK
    <3>3. Append(history[u][v], m) \in Seq(Message)
      BY <3>2, <1>2, AppendMessage
    <3>4. ToSet(Append(history[u][v], m)) = ToSet(history[u][v]) \cup {m}
      BY <3>2, <1>2, AppendMessage
    <3>5. /\ history' \in [Names -> [Names -> Seq(Message)]]
          /\ \A a, b \in Names :
               history'[a][b] = IF a = u /\ b = v THEN Append(history[u][v], m)
                                                 ELSE history[a][b]
      BY <3>1, <3>3 DEF IInv, TypeOK
    <3>. QED BY <3>4, <3>5 DEF Sent, Held
  <2>2. ~ Intact(m)'
    <3>1. FileOf(m) \notin files
      BY <1>2, <1>6 DEF IInv, Tree, FileOf
    <3>2. FileOf(m) \notin files'
      BY <3>1, <1>3, <1>6
    <3>. QED BY <3>2, <1>2 DEF Intact
  <2>. QED BY <1>2, <1>3, <1>4, <1>6, <2>1, <2>2, SentKeeps
<1>. QED BY <1>1, <1>5, <1>6

-----------------------------------------------------------------------------
(* Unsending.                                                               *)

\* The lists after u has unsent an id in the chat with v: ordered as they were,
\* and what is missing had the given id.
Removed(u, v, id) ==
    /\ history' \in [Names -> [Names -> Seq(Message)]]
    /\ \A a, b \in Names :
          IF (a = u /\ b = v) \/ (u \in friend_list[v] /\ a = v /\ b = u)
          THEN /\ Held(a, b)' = {n \in Held(a, b) : n.id # id}
               /\ Increasing(history'[a][b])
          ELSE history'[a][b] = history[a][b]

\* What the two removals of an unsend amount to.
LEMMA BothRemoveRemoves ==
    ASSUME TypeOK, Chronological, NEW u \in Names, NEW v \in Names, u # v, NEW id \in Nat,
           history' = BothRemove(u, v, id)
    PROVE  Removed(u, v, id)
<1>1. /\ history[u][v] \in Seq(Message) /\ Increasing(history[u][v])
      /\ history[v][u] \in Seq(Message) /\ Increasing(history[v][u])
  BY DEF TypeOK, Chronological
<1>2. /\ Without(history[u][v], id) \in Seq(Message)
      /\ Increasing(Without(history[u][v], id))
      /\ ToSet(Without(history[u][v], id)) = {m \in ToSet(history[u][v]) : m.id # id}
  BY <1>1, WithoutMessage
<1>3. /\ Without(history[v][u], id) \in Seq(Message)
      /\ Increasing(Without(history[v][u], id))
      /\ ToSet(Without(history[v][u], id)) = {m \in ToSet(history[v][u]) : m.id # id}
  BY <1>1, WithoutMessage
<1> DEFINE own == [history EXCEPT ![u][v] = Without(@, id)]
<1>4. /\ own \in [Names -> [Names -> Seq(Message)]]
      /\ \A a, b \in Names : own[a][b] = IF a = u /\ b = v THEN Without(history[u][v], id)
                                                          ELSE history[a][b]
  BY <1>2 DEF TypeOK
<1>5. history' = IF u \in friend_list[v] THEN [own EXCEPT ![v][u] = Without(own[v][u], id)]
                                         ELSE own
  BY DEF BothRemove
<1>. HIDE DEF own
<1>6. own[v][u] = history[v][u]
  BY <1>4
<1>7. /\ history' \in [Names -> [Names -> Seq(Message)]]
      /\ \A a, b \in Names :
           history'[a][b] = IF u \in friend_list[v] /\ a = v /\ b = u
                            THEN Without(history[v][u], id) ELSE own[a][b]
  <2>1. CASE u \in friend_list[v]
    <3>1. history' = [own EXCEPT ![v][u] = Without(history[v][u], id)]
      BY <1>5, <1>6, <2>1
    <3>. DEFINE rest == Without(history[v][u], id)
    <3>2. own \in [Names -> [Names -> Seq(Message)]] /\ rest \in Seq(Message)
      BY <1>3, <1>4
    <3>3. history' = [own EXCEPT ![v][u] = rest]
      BY <3>1
    <3>. HIDE DEF rest
    <3>4. /\ history' \in [Names -> [Names -> Seq(Message)]]
          /\ \A a, b \in Names : history'[a][b] = IF a = v /\ b = u THEN rest ELSE own[a][b]
      BY SMTT(40), <3>2, <3>3
    <3>. QED BY <3>4, <2>1 DEF rest
  <2>2. CASE u \notin friend_list[v]
    BY <1>4, <1>5, <2>2
  <2>. QED BY <2>1, <2>2
<1>8. ASSUME NEW a \in Names, NEW b \in Names, a = u /\ b = v
      PROVE  Held(a, b)' = {n \in Held(a, b) : n.id # id} /\ Increasing(history'[a][b])
  <2>1. history'[a][b] = Without(history[u][v], id)
    BY <1>4, <1>7, <1>8
  <2>. QED BY <2>1, <1>2, <1>8 DEF Held
<1>9. ASSUME NEW a \in Names, NEW b \in Names, u \in friend_list[v] /\ a = v /\ b = u
      PROVE  Held(a, b)' = {n \in Held(a, b) : n.id # id} /\ Increasing(history'[a][b])
  <2>1. history'[a][b] = Without(history[v][u], id)
    BY <1>7, <1>9
  <2>. QED BY <2>1, <1>3, <1>9 DEF Held
<1>10. ASSUME NEW a \in Names, NEW b \in Names,
              ~ ((a = u /\ b = v) \/ (u \in friend_list[v] /\ a = v /\ b = u))
       PROVE  history'[a][b] = history[a][b]
  <2>1. history'[a][b] = own[a][b]
    BY <1>10, <1>7
  <2>2. own[a][b] = history[a][b]
    BY <1>10, <1>4
  <2>. QED BY <2>1, <2>2
<1>. QED BY <1>7, <1>8, <1>9, <1>10 DEF Removed

\* Unsending takes one id from both lists, so it opens no gap.
LEMMA del_messagesKeeps ==
    ASSUME IInv, NEW u \in Names, NEW v \in Names, NEW id \in Nat, u # v,
           del_messages(u, v, id)
    PROVE  IInv'
<1>1. CASE NoHistory("del_messages", u)
  BY <1>1, NoHistoryKeeps DEF Endpoints
<1>2. CASE Refuse("del_messages", u, "exception")
  BY <1>2, RefuseKeeps DEF Endpoints, Statuses
<1>3. CASE /\ v \in friend_list[u]
           /\ files' \subseteq files
           /\ history' = BothRemove(u, v, id)
           /\ Answer("del_messages", u, "ok")
           /\ UNCHANGED <<users, friend_list, dirs, next_id, boot>>
  <2>0. Removed(u, v, id)
    BY <1>3, BothRemoveRemoves DEF IInv
  <2>1. /\ history' \in [Names -> [Names -> Seq(Message)]]
        /\ \A a, b \in Names :
             IF (a = u /\ b = v) \/ (u \in friend_list[v] /\ a = v /\ b = u)
             THEN /\ Held(a, b)' = {n \in Held(a, b) : n.id # id}
                  /\ Increasing(history'[a][b])
             ELSE history'[a][b] = history[a][b]
    BY <2>0 DEF Removed
  <2>2. TypeOK'
    BY <1>3, <2>1 DEF IInv, TypeOK, Answer, Endpoints, Statuses
  <2>3. FriendsAreUsers' /\ Tree'
    BY <1>3 DEF IInv, FriendsAreUsers, Tree
  <2>4. \A a, b \in Names : Held(a, b)' \subseteq Held(a, b)
    BY <2>1 DEF Held
  <2>5. ListsAreKeyed'
    <3>. SUFFICES ASSUME NEW a \in Names, NEW b \in Names, b \notin friend_list[a]
                  PROVE  history'[a][b] = <<>>
      BY <1>3 DEF ListsAreKeyed
    <3>1. history'[a][b] = history[a][b]
      BY <2>1, <1>3
    <3>. QED BY <3>1 DEF IInv, ListsAreKeyed
  <2>6. IdsAreOld'
    BY <1>3, <2>4 DEF IInv, IdsAreOld
  <2>7. OneMessagePerId'
    BY <2>4 DEF IInv, OneMessagePerId
  <2>8. Chronological'
    BY <2>1 DEF IInv, Chronological
  <2>9. NoGaps'
    <3>. SUFFICES ASSUME NEW a \in Names, NEW b \in Names, a # b,
                         NEW n \in Held(a, b)', NEW k \in Held(b, a)',
                         k.id < n.id, Intact(n)'
                  PROVE  n \in Held(b, a)'
      BY DEF NoGaps
    <3>1. n \in Held(b, a)
      BY <1>3, <2>4 DEF IInv, NoGaps, Intact
    <3>2. CASE (b = u /\ a = v) \/ (u \in friend_list[v] /\ b = v /\ a = u)
      <4>1. n.id # id
        <5>1. CASE (a = u /\ b = v) \/ (u \in friend_list[v] /\ a = v /\ b = u)
          BY <5>1, <2>1
        <5>2. CASE b = u /\ a = v /\ u \notin friend_list[v]
          BY <5>2, <2>4, NothingHeld DEF IInv, ListsAreKeyed, Held
        <5>. QED BY <5>1, <5>2, <3>2
      <4>. QED BY <4>1, <3>1, <3>2, <2>1
    <3>3. CASE ~ ((b = u /\ a = v) \/ (u \in friend_list[v] /\ b = v /\ a = u))
      <4>1. history'[b][a] = history[b][a]
        BY <3>3, <2>1
      <4>. QED BY <4>1, <3>1 DEF Held
    <3>. QED BY <3>2, <3>3
  <2>. QED BY <2>2, <2>3, <2>5, <2>6, <2>7, <2>8, <2>9 DEF IInv
<1>. QED BY <1>1, <1>2, <1>3 DEF del_messages

\* A restart, from whatever the disk has become.
LEMMA RestartKeeps ==
    ASSUME IInv, Restart
    PROVE  IInv'
<1>. USE SeedUsersAssumption, SeedHistoryAssumption DEF Restart
<1>1. TypeOK'
  <2>1. reply' \in [op : Endpoints, by : Names, status : Statuses]
    BY DEF IInv, TypeOK, Endpoints
  <2>2. dirs' \subseteq Seq(Parts)
    BY SeedDirsGrown DEF IInv, TypeOK, Tree, Grown
  <2>. QED BY <2>1, <2>2 DEF IInv, TypeOK
<1>2. FriendsAreUsers' /\ ListsAreKeyed' /\ Tree'
  <2>1. Grown(dirs) /\ dirs' = dirs \cup SeedDirs
    BY DEF IInv, TypeOK, Tree, Grown
  <2>2. Tree'
    BY <2>1, SeedDirsGrown DEF IInv, Tree, Grown
  <2>. QED BY <2>2 DEF IInv, FriendsAreUsers, ListsAreKeyed
<1>3. IdsAreOld'
  <2>1. /\ FirstId \in Nat /\ boot' \in Nat /\ next_id' \in Nat
        /\ FirstId <= boot' /\ boot' <= next_id'
    BY DEF IInv, TypeOK, IdsAreOld
  <2>2. ASSUME NEW a \in Names, NEW b \in Names, NEW m \in Held(a, b)'
        PROVE  m.id < next_id' /\ m.id < FirstId
    <3>1. m \in ToSet(SeedHistory[a][b]) /\ m \in Message
      BY <2>2 DEF Held, ToSet
    <3>2. m.id \in Nat /\ m.id < FirstId
      BY <3>1 DEF Message
    <3>. QED BY <3>2, <2>1
  <2>. QED BY <2>1, <2>2 DEF IInv, IdsAreOld
<1>4. OneMessagePerId'
  BY DEF OneMessagePerId, Held
<1>5. Chronological'
  BY DEF Chronological
<1>6. NoGaps'
  BY DEF NoGaps, Held
<1>. QED BY <1>1, <1>2, <1>3, <1>4, <1>5, <1>6 DEF IInv

\* A step that changes nothing.
LEMMA StutterKeeps ==
    ASSUME IInv, UNCHANGED vars
    PROVE  IInv'
<1>1. TypeOK' /\ FriendsAreUsers' /\ ListsAreKeyed' /\ Tree'
  BY DEF IInv, vars, store, TypeOK, FriendsAreUsers, ListsAreKeyed, Tree
<1>. QED BY <1>1, SameLists DEF IInv, vars, store

\* u unsends a message of his own to v.
OwnUnsend(u, v, id) ==
    /\ u # v
    /\ \A a, b \in Names : \A m \in Held(a, b) : m.id = id => m.from = u /\ m.to = v

\* The page may name a message of another chat, or one that is stored no more: no
\* list of the two has it, and the request changes nothing.
LEMMA NothingToUnsend ==
    ASSUME IInv, NEW u \in Names, NEW v \in Names, NEW id,
           \A m \in Held(u, v) \cup Held(v, u) : m.id # id,
           del_messages(u, v, id)
    PROVE  \E status \in Statuses : Refuse("del_messages", u, status)
<1>1. history \in [Names -> [Names -> Seq(Message)]]
  BY DEF IInv, TypeOK
<1>2. /\ \A i \in 1 .. Len(history[u][v]) : history[u][v][i].id # id
      /\ \A i \in 1 .. Len(history[v][u]) : history[v][u][i].id # id
  BY <1>1 DEF Held, ToSet
<1>3. Without(history[u][v], id) = history[u][v] /\ Without(history[v][u], id) = history[v][u]
  BY <1>2 DEF Without, RemoveFirstMatch
<1>4. [history EXCEPT ![u][v] = Without(history[u][v], id)] = history
  BY <1>1, <1>3
<1>5. [history EXCEPT ![v][u] = Without(history[v][u], id)] = history
  BY <1>1, <1>3
<1>6. BothRemove(u, v, id) = history
  BY <1>4, <1>5 DEF BothRemove
<1>7. {FileOf(m) : m \in {n \in Held(u, v) : n.id = id /\ Attachment(n)}} = {}
  OBVIOUS
<1>. QED BY <1>6, <1>7 DEF del_messages, NoHistory, Refuse, Statuses, store

\* Whatever the page shows, a request to unsend is for a message of the caller's
\* own in this chat, or it changes nothing.
LEMMA UnsendCases ==
    ASSUME IInv, NEW u \in Names, NEW v \in Names, NEW id \in Nat,
           MayUnsend(u, v, id), del_messages(u, v, id)
    PROVE  OwnUnsend(u, v, id) \/ \E status \in Statuses : Refuse("del_messages", u, status)
<1>1. CASE \A m \in Held(u, v) \cup Held(v, u) : m.id # id
  BY <1>1, NothingToUnsend
<1>2. ASSUME NEW m \in Held(u, v) \cup Held(v, u), m.id = id PROVE OwnUnsend(u, v, id)
  <2>1. Between(m, u, v) /\ m.from # v
    BY <1>2 DEF MayUnsend, IInv, OneMessagePerId, Between
  <2>2. u # v /\ m.from = u /\ m.to = v
    BY <2>1 DEF Between
  <2>3. ASSUME NEW a \in Names, NEW b \in Names, NEW n \in Held(a, b), n.id = id
        PROVE  n = m
    BY <1>2, <2>3 DEF IInv, OneMessagePerId
  <2>. QED BY <2>2, <2>3 DEF OwnUnsend
<1>. QED BY <1>1, <1>2

\* Every step keeps the invariant.
LEMMA NextKeeps ==
    ASSUME IInv, Next \/ Restart \/ UNCHANGED vars
    PROVE  IInv'
<1>1. CASE \E u \in Names : put_account(u)
  BY <1>1, put_accountKeeps
<1>2. ASSUME NEW u \in Names, NEW v \in Names,
             \/ put_friends(u, v)
             \/ del_friends(u, v)
             \/ put_messages(u, v)
             \/ put_messages_file(u, v)
      PROVE  IInv'
  BY <1>2, put_friendsKeeps, del_friendsKeeps, put_messagesKeeps, put_messages_fileKeeps
<1>3. ASSUME NEW u \in Names, NEW v \in Names, NEW id \in 0 .. MaxId,
             MayUnsend(u, v, id), del_messages(u, v, id)
      PROVE  IInv'
  <2>1. id \in Nat
    BY SeedHistoryAssumption
  <2>2. CASE OwnUnsend(u, v, id)
    BY <1>3, <2>1, <2>2, del_messagesKeeps DEF OwnUnsend
  <2>3. CASE \E status \in Statuses : Refuse("del_messages", u, status)
    BY <2>3, RefuseKeeps DEF Endpoints
  <2>. QED BY <1>3, <2>1, <2>2, <2>3, UnsendCases
<1>. QED BY <1>1, <1>2, <1>3, RestartKeeps, StutterKeeps DEF Next, Serve

-----------------------------------------------------------------------------
(* What holds in every reachable state, however often the server restarts.  *)

\* The inductive invariant holds throughout.
LEMMA Invariance == Spec => []IInv
<1>1. IInv /\ [Next \/ Restart]_vars => IInv'
  BY NextKeeps
<1>. QED BY InitIInv, <1>1, PTL DEF Spec

\* Every reachable state is well typed.
THEOREM TypeCorrect == Spec => []TypeOK
<1>1. IInv => TypeOK
  BY DEF IInv
<1>. QED BY Invariance, <1>1, PTL

\* No handler ever files a message under the wrong pair of users, and no id
\* ever stands for two messages.
THEOREM MessagesKeepTheirIdentity == Spec => []OneMessagePerId
<1>1. IInv => OneMessagePerId
  BY DEF IInv
<1>. QED BY Invariance, <1>1, PTL

\* Every list is in the order of creation and free of duplicates.
THEOREM ListsAreChronological == Spec => []Chronological
<1>1. IInv => Chronological
  BY DEF IInv
<1>. QED BY Invariance, <1>1, PTL

\* From its first message on, neither side of a conversation has a hole.
THEOREM ConversationsHaveNoGaps == Spec => []NoGaps
<1>1. IInv => NoGaps
  BY DEF IInv
<1>. QED BY Invariance, <1>1, PTL

-----------------------------------------------------------------------------
(* Files and the lists that name them.                                      *)

\* A step that leaves lists and files alone orphans nothing.
LEMMA OrphanSameLists ==
    ASSUME NoOrphanFile, UNCHANGED <<history, files, boot>>
    PROVE  NoOrphanFile'
BY DEF NoOrphanFile, Held

\* A refused request leaves files and lists alone.
LEMMA RefusedLists ==
    ASSUME NEW op, NEW u,
           NoHistory(op, u) \/ \E status \in Statuses : Refuse(op, u, status)
    PROVE  UNCHANGED store
BY DEF NoHistory, Refuse

\* The home directory of u holds every file u has sent, so rmtree leaves none
\* behind, and where there is no home directory there is no file.
LEMMA del_friendsOrphans ==
    ASSUME IInv, NoOrphanFile, NEW u \in Names, NEW v \in Names, del_friends(u, v)
    PROVE  NoOrphanFile'
<1>1. CASE \E status \in Statuses : Refuse("del_friends", u, status)
  BY <1>1, RefusedLists, OrphanSameLists DEF store
<1>2. CASE /\ history' = [history EXCEPT ![u][v] = <<>>]
           /\ \/ Path[u] \in dirs /\ rmtree(u)
              \/ Path[u] \notin dirs /\ UNCHANGED <<dirs, files>>
           /\ UNCHANGED boot
  <2>. SUFFICES ASSUME NEW f \in files', boot <= f[3]
                PROVE  \E m \in Held(f[1], f[2])' : Attachment(m) /\ FileOf(m) = f
    BY <1>2 DEF NoOrphanFile
  <2>1. f \in files /\ f[1] # u
    <3>1. f \in files /\ f[1] \in Names /\ f[2] \in Names
      <4>1. f \in files
        BY <1>2 DEF rmtree
      <4>2. files \subseteq Names \X Names \X Nat
        BY DEF IInv, TypeOK
      <4>. QED BY <4>1, <4>2
    <3>2. Path[f[1]] \in dirs
      BY <3>1, ChatDirFacts DEF IInv, Tree
    <3>3. IsPrefix(Path[f[1]], ChatDir(f[1], f[2]))
      BY <3>1, ChatDirFacts
    <3>. QED BY <3>1, <3>2, <3>3, <1>2 DEF rmtree
  <2>2. f[1] \in Names /\ f[2] \in Names
    BY <2>1 DEF IInv, TypeOK
  <2>3. history'[f[1]][f[2]] = history[f[1]][f[2]]
    BY <1>2, <2>1, <2>2 DEF IInv, TypeOK
  <2>. QED BY <2>1, <2>3 DEF NoOrphanFile, Held
<1>. QED BY <1>1, <1>2 DEF del_friends, Statuses

\* Sending only adds to lists.
LEMMA SendingKeepsMessages ==
    ASSUME IInv, NEW u \in Names, NEW v \in Names, NEW m \in Message,
           \/ history' = BothAppend(u, v, m) /\ v \in friend_list[u]
           \/ history' = [history EXCEPT ![u][v] = Append(@, m)],
           NEW a \in Names, NEW b \in Names
    PROVE  Held(a, b) \subseteq Held(a, b)'
<1>1. CASE history' = BothAppend(u, v, m) /\ v \in friend_list[u]
  <2>1. PICK both \in BOOLEAN : both = (u \in friend_list[v])
    BY (u \in friend_list[v]) \in BOOLEAN, Zenon
  <2>2. Sent(u, v, m, both)
    BY <1>1, <2>1, BothAppendSends DEF IInv
  <2>3. CASE (a = u /\ b = v) \/ (both /\ a = v /\ b = u)
    BY <2>2, <2>3 DEF Sent
  <2>4. CASE ~ ((a = u /\ b = v) \/ (both /\ a = v /\ b = u))
    <3>1. history'[a][b] = history[a][b]
      BY <2>2, <2>4 DEF Sent
    <3>. QED BY <3>1 DEF Held
  <2>. QED BY <2>3, <2>4
<1>2. CASE history' = [history EXCEPT ![u][v] = Append(@, m)]
  <2>1. history[a][b] \in Seq(Message)
    BY DEF IInv, TypeOK
  <2>2. history'[a][b] \in {history[a][b], Append(history[a][b], m)}
    BY <1>2 DEF IInv, TypeOK
  <2>. QED BY <2>1, <2>2, AppendMessage DEF Held
<1>. QED BY <1>1, <1>2

\* A new file is named by the list that grows.
LEMMA SendOrphans ==
    ASSUME IInv, NoOrphanFile, NEW u \in Names, NEW v \in Names,
           put_messages(u, v) \/ put_messages_file(u, v)
    PROVE  NoOrphanFile'
<1>1. UNCHANGED boot
  BY RefusedLists DEF put_messages, put_messages_file, store
<1>2. CASE UNCHANGED <<history, files>>
  BY <1>1, <1>2, OrphanSameLists
<1>3. ASSUME NEW m \in Message, v \in friend_list[u], history' = BothAppend(u, v, m)
      PROVE  /\ \A a, b \in Names : Held(a, b) \subseteq Held(a, b)'
             /\ m \in Held(u, v)'
  <2>1. PICK both \in BOOLEAN : both = (u \in friend_list[v])
    BY (u \in friend_list[v]) \in BOOLEAN, Zenon
  <2>2. Sent(u, v, m, both)
    BY <1>3, <2>1, BothAppendSends DEF IInv
  <2>. QED BY <2>2, <1>3, SendingKeepsMessages DEF Sent
<1>4. ASSUME NEW f \in files, boot <= f[3], \A a, b \in Names : Held(a, b) \subseteq Held(a, b)'
      PROVE  \E m \in Held(f[1], f[2])' : Attachment(m) /\ FileOf(m) = f
  <2>1. f[1] \in Names /\ f[2] \in Names
    BY DEF IInv, TypeOK
  <2>. QED BY <2>1, <1>4 DEF NoOrphanFile
<1>5. CASE put_messages(u, v) /\ ~ UNCHANGED <<history, files>>
  <2>1. PICK m \in Message : m = [id |-> next_id, from |-> u, to |-> v, kind |-> "Generic"]
    BY DEF IInv, TypeOK, Message, Kinds
  <2>2. v \in friend_list[u] /\ history' = BothAppend(u, v, m) /\ UNCHANGED files
    BY <1>5, <2>1, RefusedLists DEF put_messages, store
  <2>. QED BY <2>2, <1>1, <1>3, <1>4 DEF NoOrphanFile
<1>6. CASE put_messages_file(u, v) /\ ~ UNCHANGED <<history, files>>
  <2>1. PICK m \in Message : m = [id |-> next_id, from |-> u, to |-> v, kind |-> "Attachment"]
    BY DEF IInv, TypeOK, Message, Kinds
  <2>2. /\ v \in friend_list[u]
        /\ \/ /\ files' = files \cup {FileOf(m)}
              /\ history' = BothAppend(u, v, m)
           \/ /\ history' = [history EXCEPT ![u][v] = Append(@, m)]
              /\ UNCHANGED files
    BY <1>6, <2>1, RefusedLists DEF put_messages_file, store
  <2>3. CASE files' = files \cup {FileOf(m)} /\ history' = BothAppend(u, v, m)
    <3>1. Attachment(m) /\ FileOf(m)[1] = u /\ FileOf(m)[2] = v
      BY <2>1 DEF Attachment, FileOf
    <3>2. m \in Held(FileOf(m)[1], FileOf(m)[2])'
      BY <2>2, <2>3, <3>1, <1>3
    <3>3. \A a, b \in Names : Held(a, b) \subseteq Held(a, b)'
      BY <2>2, <2>3, <1>3
    <3>. SUFFICES ASSUME NEW f \in files', boot <= f[3]
                  PROVE  \E n \in Held(f[1], f[2])' : Attachment(n) /\ FileOf(n) = f
      BY <1>1 DEF NoOrphanFile
    <3>4. CASE f \in files
      BY <3>4, <3>3, <1>4
    <3>5. CASE f = FileOf(m)
      BY <3>5, <3>1, <3>2
    <3>. QED BY <3>4, <3>5, <2>3
  <2>4. CASE history' = [history EXCEPT ![u][v] = Append(@, m)] /\ UNCHANGED files
    <3>1. \A a, b \in Names : Held(a, b) \subseteq Held(a, b)'
      BY <2>4, SendingKeepsMessages
    <3>. QED BY <3>1, <1>1, <1>4, <2>4 DEF NoOrphanFile
  <2>. QED BY <2>2, <2>3, <2>4
<1>. QED BY <1>2, <1>5, <1>6

\* The file goes with the message that names it.
LEMMA del_messagesOrphans ==
    ASSUME IInv, NoOrphanFile, NEW u \in Names, NEW v \in Names, NEW id \in Nat,
           OwnUnsend(u, v, id), del_messages(u, v, id)
    PROVE  NoOrphanFile'
<1>1. CASE UNCHANGED store
  BY <1>1, OrphanSameLists DEF store
<1> DEFINE paths == {FileOf(m) : m \in {n \in Held(u, v) : n.id = id /\ Attachment(n)}}
<1>2. CASE /\ files' = files \ paths
           /\ history' = BothRemove(u, v, id)
           /\ UNCHANGED boot
  <2>. SUFFICES ASSUME NEW f \in files', boot <= f[3]
                PROVE  \E m \in Held(f[1], f[2])' : Attachment(m) /\ FileOf(m) = f
    BY <1>2 DEF NoOrphanFile
  <2>1. f \in files /\ f \notin paths
    BY <1>2
  <2>2. f[1] \in Names /\ f[2] \in Names
    BY <2>1 DEF IInv, TypeOK
  <2>3. PICK m \in Held(f[1], f[2]) : Attachment(m) /\ FileOf(m) = f
    BY <2>1 DEF NoOrphanFile
  <2>4. m.id # id
    <3>. SUFFICES ASSUME m.id = id PROVE FALSE
      OBVIOUS
    <3>1. f[1] = u /\ f[2] = v
      <4>1. m.from = u /\ m.to = v
        BY <2>2 DEF OwnUnsend
      <4>. QED BY <4>1, <2>3 DEF FileOf
    <3>2. FileOf(m) \in paths
      BY <2>3, <3>1
    <3>. QED BY <3>2, <2>1, <2>3
  <2>5. m \in Held(f[1], f[2])'
    <3>1. Removed(u, v, id)
      BY <1>2, BothRemoveRemoves DEF IInv, OwnUnsend
    <3>2. ASSUME NEW a \in Names, NEW b \in Names, m \in Held(a, b)
          PROVE  m \in Held(a, b)'
      BY <3>1, <3>2, <2>4 DEF Held, Removed
    <3>. QED BY <3>2, <2>2, <2>3
  <2>. QED BY <2>3, <2>5
<1>. QED BY <1>1, <1>2, RefusedLists DEF del_messages, Refuse

\* A restart disowns every file there is.
LEMMA RestartOrphans ==
    ASSUME IInv, Restart
    PROVE  NoOrphanFile'
<1>1. ASSUME NEW f \in files PROVE ~ (next_id <= f[3])
  BY DEF IInv, TypeOK, IdsAreOld
<1>. QED BY <1>1 DEF Restart, NoOrphanFile

\* Every attachment saved since the server started is in its sender's list.
THEOREM NoFileIsOrphaned == Spec => []NoOrphanFile
<1>1. Init => NoOrphanFile
  BY DEF Init, NoOrphanFile
<1>2. ASSUME IInv, NoOrphanFile, [Next \/ Restart]_vars
      PROVE  NoOrphanFile'
  <2>1. CASE \E u \in Names : put_account(u)
    BY <1>2, <2>1, put_accountLists, OrphanSameLists
  <2>2. ASSUME NEW u \in Names, NEW v \in Names, put_friends(u, v)
        PROVE  NoOrphanFile'
    BY <1>2, <2>2, put_friendsLists, OrphanSameLists
  <2>3. ASSUME NEW u \in Names, NEW v \in Names, del_friends(u, v)
        PROVE  NoOrphanFile'
    BY <1>2, <2>3, del_friendsOrphans
  <2>4. ASSUME NEW u \in Names, NEW v \in Names,
               put_messages(u, v) \/ put_messages_file(u, v)
        PROVE  NoOrphanFile'
    BY <1>2, <2>4, SendOrphans
  <2>5. ASSUME NEW u \in Names, NEW v \in Names, NEW id \in 0 .. MaxId,
               MayUnsend(u, v, id), del_messages(u, v, id)
        PROVE  NoOrphanFile'
    <3>1. id \in Nat
      BY SeedHistoryAssumption
    <3>2. CASE OwnUnsend(u, v, id)
      BY <1>2, <2>5, <3>1, <3>2, del_messagesOrphans
    <3>3. CASE \E status \in Statuses : Refuse("del_messages", u, status)
      BY <1>2, <3>3, OrphanSameLists DEF Refuse, store
    <3>. QED BY <1>2, <2>5, <3>1, <3>2, <3>3, UnsendCases
  <2>6. CASE UNCHANGED vars
    BY <1>2, <2>6, OrphanSameLists DEF vars, store
  <2>. QED BY <1>2, <2>1, <2>2, <2>3, <2>4, <2>5, <2>6, RestartOrphans DEF Next, Serve
<1>. QED BY Invariance, <1>1, <1>2, PTL DEF Spec

-----------------------------------------------------------------------------
(* What one request may touch.                                              *)

\* u asked and was answered "status": lists of pairs without u stay, files that
\* others sent stay unless they lie below u's directory, and a failure changes
\* neither a file nor another's list.
Kept(u, f) == f \in files' \/ IsPrefix(Path[u], ChatDir(f[1], f[2]))
Touches(u, status) ==
    /\ reply'.by = u /\ reply'.status = status
    /\ \A a, b \in Names : u \notin {a, b} => history'[a][b] = history[a][b]
    /\ \A f \in files : f[1] # u => Kept(u, f)
    /\ status # "ok" => /\ files' = files
                       /\ \A a \in Names \ {u} : history'[a] = history[a]

\* A restart is not an answer.
LEMMA RestartAnswersNothing == IInv /\ Restart => ~ Answered
BY DEF IInv, TypeOK, Restart, Answered

\* A handler that answers without touching lists or files.
LEMMA RefusedTouches ==
    ASSUME NEW op \in Endpoints, NEW u \in Names, NEW status \in Statuses,
           Answer(op, u, status), UNCHANGED <<history, files>>
    PROVE  Touches(u, status)
BY DEF Answer, Touches, Kept

\* A request without a valid token, or from a user without friends.
LEMMA NoHistoryTouches ==
    ASSUME NEW op \in Endpoints, NEW u \in Names, NoHistory(op, u)
    PROVE  \E status \in Statuses : Touches(u, status)
BY RefusedTouches DEF NoHistory, Refuse, store, Statuses

\* Signing up, befriending and unfriending.
LEMMA SmallStepTouches ==
    ASSUME IInv, NEW u \in Names, NEW v \in Names,
           put_account(u) \/ put_friends(u, v) \/ del_friends(u, v)
    PROVE  \E status \in Statuses : Touches(u, status)
<1>1. CASE put_account(u)
  <2>1. UNCHANGED <<history, files>>
    BY <1>1, put_accountLists
  <2>2. \E status \in Statuses : Answer("put_account", u, status)
    BY <1>1 DEF put_account, Refuse, Statuses
  <2>. QED BY <2>1, <2>2, RefusedTouches DEF Endpoints
<1>2. CASE put_friends(u, v)
  <2>1. UNCHANGED <<history, files>>
    BY <1>2, put_friendsLists
  <2>2. \E status \in Statuses : Answer("put_friends", u, status)
    BY <1>2 DEF put_friends, Refuse, Statuses
  <2>. QED BY <2>1, <2>2, RefusedTouches DEF Endpoints
<1>3. CASE del_friends(u, v)
  <2>1. CASE \E status \in Statuses : Refuse("del_friends", u, status)
    BY <2>1, RefusedTouches DEF Refuse, store, Endpoints
  <2>2. ASSUME NEW status \in Statuses,
               history' = [history EXCEPT ![u][v] = <<>>],
               \/ status = "ok" /\ rmtree(u)
               \/ UNCHANGED files,
               Answer("del_friends", u, status)
        PROVE  Touches(u, status)
    <3>1. \A f \in files : f[1] # u => Kept(u, f)
      BY <2>2 DEF rmtree, Kept
    <3>2. status # "ok" => files' = files
      BY <2>2
    <3>3. /\ \A a \in Names \ {u} : history'[a] = history[a]
          /\ \A a, b \in Names : u \notin {a, b} => history'[a][b] = history[a][b]
      BY <2>2 DEF IInv, TypeOK
    <3>. QED BY <3>1, <3>2, <3>3, <2>2 DEF Touches, Answer, Kept
  <2>. QED BY <1>3, <2>1, <2>2 DEF del_friends, Statuses
<1>. QED BY <1>1, <1>2, <1>3

\* Sending: the list of the counterpart with the caller is the caller's too.
LEMMA SendTouches ==
    ASSUME IInv, NEW u \in Names, NEW v \in Names,
           put_messages(u, v) \/ put_messages_file(u, v)
    PROVE  \E status \in Statuses : Touches(u, status)
<1>1. CASE \E op \in Endpoints : NoHistory(op, u)
  BY <1>1, NoHistoryTouches
<1>2. CASE \E op \in Endpoints : Answer(op, u, "exception") /\ UNCHANGED <<history, files>>
  BY <1>2, RefusedTouches DEF Statuses
<1>3. ASSUME NEW op \in Endpoints, NEW m, history' = BothAppend(u, v, m),
             files \subseteq files', Answer(op, u, "ok")
      PROVE  Touches(u, "ok")
  <2>1. \A a, b \in Names : u \notin {a, b} => history'[a][b] = history[a][b]
    BY <1>3 DEF BothAppend, IInv, TypeOK
  <2>. QED BY <2>1, <1>3 DEF Touches, Answer, Kept
<1>4. ASSUME NEW m, history' = [history EXCEPT ![u][v] = Append(@, m)],
             UNCHANGED files, Answer("put_messages_file", u, "exception")
      PROVE  Touches(u, "exception")
  <2>1. /\ \A a, b \in Names : u \notin {a, b} => history'[a][b] = history[a][b]
        /\ \A a \in Names \ {u} : history'[a] = history[a]
    BY <1>4 DEF IInv, TypeOK
  <2>. QED BY <2>1, <1>4 DEF Touches, Answer, Kept
<1>5. CASE put_messages(u, v)
  BY <1>1, <1>2, <1>3, <1>5 DEF put_messages, Endpoints, Statuses
<1>6. CASE put_messages_file(u, v)
  <2>1. PICK m : m = [id |-> next_id, from |-> u, to |-> v, kind |-> "Attachment"]
    OBVIOUS
  <2>. QED BY <1>1, <1>2, <1>3, <1>4, <1>6, <2>1
       DEF put_messages_file, Endpoints, Statuses
<1>. QED BY <1>5, <1>6

\* Unsending: the files that go are the caller's own.
LEMMA UnsendTouches ==
    ASSUME IInv, NEW u \in Names, NEW v \in Names, NEW id \in Nat,
           OwnUnsend(u, v, id), del_messages(u, v, id)
    PROVE  \E status \in Statuses : Touches(u, status)
<1>1. CASE NoHistory("del_messages", u)
  BY <1>1, NoHistoryTouches DEF Endpoints
<1>2. CASE Refuse("del_messages", u, "exception")
  BY <1>2, RefusedTouches DEF Refuse, store, Endpoints, Statuses
<1> DEFINE paths == {FileOf(m) : m \in {n \in Held(u, v) : n.id = id /\ Attachment(n)}}
<1>3. CASE /\ files' = files \ paths
           /\ history' = BothRemove(u, v, id)
           /\ Answer("del_messages", u, "ok")
  <2>1. ASSUME NEW f \in paths PROVE f[1] = u
    BY <2>1 DEF OwnUnsend, FileOf
  <2>2. \A a, b \in Names : u \notin {a, b} => history'[a][b] = history[a][b]
    BY <1>3 DEF BothRemove, IInv, TypeOK
  <2>3. Touches(u, "ok")
    BY <1>3, <2>1, <2>2 DEF Touches, Answer, Kept
  <2>. QED BY <2>3 DEF Statuses
<1>. QED BY <1>1, <1>2, <1>3 DEF del_messages

\* Every request.
LEMMA NextTouches ==
    ASSUME IInv, Next
    PROVE  \E u \in Names, status \in Statuses : Touches(u, status)
<1>1. ASSUME NEW u \in Names, NEW v \in Names, NEW id \in 0 .. MaxId,
             MayUnsend(u, v, id), del_messages(u, v, id)
      PROVE  \E status \in Statuses : Touches(u, status)
  <2>1. id \in Nat
    BY SeedHistoryAssumption
  <2>2. CASE OwnUnsend(u, v, id)
    BY <1>1, <2>1, <2>2, UnsendTouches
  <2>3. CASE \E status \in Statuses : Refuse("del_messages", u, status)
    BY <2>3, RefusedTouches DEF Refuse, store, Endpoints
  <2>. QED BY <1>1, <2>1, <2>2, <2>3, UnsendCases
<1>. QED BY <1>1, SmallStepTouches, SendTouches DEF Next, Serve

\* No request changes a conversation of two other users, or loses a file of theirs
\* that does not lie in the caller's directory, whatever the names are (app_fake.py:180
\* to 205, 218 to 258, 295 to 357).
THEOREM OnlyTheCallerIsAffected == Spec => CallersOnly
<1>1. IInv /\ Next => OnlyCallersConversations
  BY NextTouches DEF Touches, Kept, OnlyCallersConversations
<1>2. IInv /\ [Next \/ Restart]_vars => [Answered => OnlyCallersConversations]_vars
  BY <1>1, RestartAnswersNothing
<1>. QED BY Invariance, <1>2, PTL DEF Spec, CallersOnly

\* A request that fails changes no file and nobody else's lists.
THEOREM FailuresArePrivate == Spec => FailureIsPrivate
<1>1. IInv /\ Next => NothingSeenByOthers
  BY NextTouches DEF Touches, NothingSeenByOthers
<1>2. IInv /\ [Next \/ Restart]_vars => [Answered => NothingSeenByOthers]_vars
  BY <1>1, RestartAnswersNothing
<1>. QED BY Invariance, <1>2, PTL DEF Spec, FailureIsPrivate

-----------------------------------------------------------------------------
(* Unsending is complete.                                                   *)

\* What BothRemove takes from either side has the given id, and both sides
\* have lost it.
LEMMA UnsentLosesBoth ==
    ASSUME IInv, NoOrphanFile, NEW x \in Names, NEW y \in Names, NEW id \in Nat,
           OwnUnsend(x, y, id), y \in friend_list[x], history' = BothRemove(x, y, id),
           files' = files \ {FileOf(n) : n \in {k \in Held(x, y) : k.id = id /\ Attachment(k)}},
           NEW u \in Names, NEW v \in Names, NEW m \in Held(u, v), m \notin Held(u, v)'
    PROVE  m \notin Held(v, u)' /\ FileOf(m) \notin files'
<1>1. Removed(x, y, id)
  BY BothRemoveRemoves DEF IInv, OwnUnsend
<1>2. (u = x /\ v = y) \/ (x \in friend_list[y] /\ u = y /\ v = x)
  <2>. SUFFICES ASSUME ~ ((u = x /\ v = y) \/ (x \in friend_list[y] /\ u = y /\ v = x))
                PROVE  FALSE
    OBVIOUS
  <2>1. history'[u][v] = history[u][v]
    BY <1>1 DEF Removed
  <2>. QED BY <2>1 DEF Held
<1>3. m.id = id
  BY <1>1, <1>2 DEF Removed
<1>4. m \notin Held(v, u)'
  <2>1. CASE v = y /\ u = x /\ x \notin friend_list[y]
    <3>1. x # y
      BY DEF OwnUnsend
    <3>2. history[y][x] = <<>>
      BY <2>1 DEF IInv, ListsAreKeyed
    <3>3. history'[y][x] = history[y][x]
      BY <3>1, <2>1, <1>1 DEF Removed
    <3>. QED BY <3>2, <3>3, <2>1, NothingHeld DEF Held
  <2>2. CASE (v = x /\ u = y) \/ (x \in friend_list[y] /\ v = y /\ u = x)
    <3>1. Held(v, u)' = {k \in Held(v, u) : k.id # id}
      BY <2>2, <1>1 DEF Removed
    <3>. QED BY <3>1, <1>3
  <2>. QED BY <2>1, <2>2, <1>2
<1>5. FileOf(m) \notin files'
  <2>. SUFFICES ASSUME FileOf(m) \in files PROVE FileOf(m) \notin files'
    OBVIOUS
  <2>1. FileOf(m) = <<x, y, id>>
    BY <1>3 DEF OwnUnsend, FileOf
  <2>2. PICK n \in Held(x, y) : Attachment(n) /\ FileOf(n) = <<x, y, id>>
    <3> DEFINE f == <<x, y, id>>
    <3>1. f \in files /\ f[1] = x /\ f[2] = y /\ f[3] = m.id
      BY <1>3, <2>1
    <3>2. FirstId <= f[3] /\ (m.id < FirstId \/ boot <= m.id)
      BY <3>1 DEF IInv, IdsAreOld
    <3>3. f[3] \in Nat /\ FirstId \in Nat
      BY <3>1, SeedHistoryAssumption DEF IInv, TypeOK
    <3>4. boot <= f[3]
      BY <3>1, <3>2, <3>3
    <3>. QED BY <3>1, <3>4 DEF NoOrphanFile
  <2>3. n.id = id
    BY <2>2 DEF FileOf
  <2>. QED BY <2>1, <2>2, <2>3
<1>. QED BY <1>4, <1>5

\* A message that leaves the list of a user who stays a friend leaves the other
\* list and the disk in the same request.
THEOREM UnsendingIsComplete == Spec => UnsendIsComplete
<1>1. ASSUME IInv, NoOrphanFile, Next
      PROVE  UnsentEverywhere
  <2>. SUFFICES ASSUME NEW u \in Names, NEW v \in Names,
                       v \in friend_list'[u],
                       NEW m \in Held(u, v), m \notin Held(u, v)'
                PROVE  m \notin Held(v, u)' /\ FileOf(m) \notin files'
    BY DEF UnsentEverywhere
  <2>1. history' # history
    BY DEF Held
  <2>2. ASSUME NEW x \in Names, put_account(x) PROVE FALSE
    BY <2>1, <2>2, <1>1, put_accountLists
  <2>3. ASSUME NEW x \in Names, NEW y \in Names, put_friends(x, y) PROVE FALSE
    BY <2>1, <2>3, <1>1, put_friendsLists
  <2>4. ASSUME NEW x \in Names, NEW y \in Names, del_friends(x, y) PROVE FALSE
    <3>1. /\ friend_list' = [friend_list EXCEPT ![x] = @ \ {y}]
          /\ history' = [history EXCEPT ![x][y] = <<>>]
      BY <2>1, <2>4 DEF del_friends, Refuse, store
    <3>2. ~ (u = x /\ v = y)
      BY <3>1, <1>1 DEF IInv, TypeOK
    <3>3. history'[u][v] = history[u][v]
      BY <3>1, <3>2, <1>1 DEF IInv, TypeOK
    <3>. QED BY <3>3 DEF Held
  <2>5. ASSUME NEW x \in Names, NEW y \in Names,
               put_messages(x, y) \/ put_messages_file(x, y)
        PROVE  FALSE
    <3>1. \E k \in Message : \/ history' = BothAppend(x, y, k) /\ y \in friend_list[x]
                             \/ history' = [history EXCEPT ![x][y] = Append(@, k)]
      <4>1. \A kind \in Kinds : [id |-> next_id, from |-> x, to |-> y, kind |-> kind] \in Message
        BY <1>1 DEF IInv, TypeOK, Message
      <4>. QED BY <2>1, <2>5, <4>1
           DEF put_messages, put_messages_file, NoHistory, Refuse, store, Kinds
    <3>. QED BY <3>1, <1>1, SendingKeepsMessages
  <2>6. ASSUME NEW x \in Names, NEW y \in Names, NEW id \in 0 .. MaxId,
               MayUnsend(x, y, id), del_messages(x, y, id)
        PROVE  m \notin Held(v, u)' /\ FileOf(m) \notin files'
    <3>1. /\ y \in friend_list[x]
          /\ history' = BothRemove(x, y, id)
          /\ files' = files \ {FileOf(n) : n \in {k \in Held(x, y) : k.id = id /\ Attachment(k)}}
      BY <2>1, <2>6 DEF del_messages, NoHistory, Refuse, store
    <3>2. id \in Nat
      BY SeedHistoryAssumption
    <3>3. CASE OwnUnsend(x, y, id)
      BY <3>1, <3>2, <3>3, <1>1, UnsentLosesBoth
    <3>4. ~ \E status \in Statuses : Refuse("del_messages", x, status)
      BY <2>1 DEF Refuse, store
    <3>. QED BY <3>2, <3>3, <3>4, <2>6, <1>1, UnsendCases
  <2>. QED BY <1>1, <2>2, <2>3, <2>4, <2>5, <2>6 DEF Next, Serve
<1>2. IInv /\ NoOrphanFile /\ [Next \/ Restart]_vars => [Answered => UnsentEverywhere]_vars
  BY <1>1, RestartAnswersNothing
<1>. QED BY Invariance, NoFileIsOrphaned, <1>2, PTL DEF Spec, UnsendIsComplete
=============================================================================
