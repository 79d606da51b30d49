------------------------ MODULE ChatServerSerialProofs ------------------------
(***************************************************************************)
(* With one thread, the accesses of a handler add up to one step of         *)
(* ChatServer.  While a request runs, the tables are those that the last    *)
(* answer left, changed by what the handler has done since; the changes are *)
(* named here for every access, so that at the answer they are those of the *)
(* action of ChatServer.                                                    *)
(***************************************************************************)
EXTENDS ChatServerSerial, ChatServerThreadsProofs

-----------------------------------------------------------------------------
(* The invariant.                                                           *)

FriendLists == [u \in Names |-> FriendsOf(u)]
Lists == [u \in Names |-> [v \in Names |-> ListOf(u, v)]]

\* The accounts: a name is that of one of them, and a friend list names each of
\* some users once.
Orderly ==
    /\ UniqueUsernames
    /\ \A i \in DOMAIN accounts :
          /\ IsInjective(accounts[i].friend_list)
          /\ ToSet(accounts[i].friend_list) \subseteq Usernames

\* What a handler has done so far of what its request asks for.
SigningUp == {"scan", "add", "mkdir", "sub", "newdict"}
Befriending == {"check", "befriend", "newlist", "mkdir_friend"}
Forgetting == {"forget", "drop", "rmtree"}

\* The caller's own list has been served.
Halfway(j) ==
    \/ j.pc \in {"save", "imwrite", "iterate", "find", "known"}
    \/ j.pc \in Using /\ j.side = "opposite"

\* The files that an unsend removes.
PathsOf(u, v, id) ==
    {FileOf(m) : m \in {n \in ToSet(committed.history[u][v]) : n.id = id /\ Attachment(n)}}

Has(u, v) == v \in committed.friend_list[u]

UsersOf(j) ==
    IF j.pc \in {"mkdir", "sub", "newdict"} THEN committed.users \cup {j.user} ELSE committed.users
FriendListOf(j) ==
    IF j.pc \in {"newlist", "mkdir_friend"}
    THEN [committed.friend_list EXCEPT ![j.user] = @ \cup {j.target}]
    ELSE IF j.pc \in {"drop", "rmtree"}
    THEN [committed.friend_list EXCEPT ![j.user] = @ \ {j.target}]
    ELSE committed.friend_list
KeysOf(j) ==
    IF j.pc \in {"mkdir_friend", "rmtree"} THEN FriendListOf(j) ELSE committed.friend_list
HistoryOf(j) ==
    IF j.pc \in {"mkdir_friend", "rmtree"}
    THEN [committed.history EXCEPT ![j.user][j.target] = <<>>]
    ELSE IF Halfway(j)
    THEN [committed.history EXCEPT ![j.user][j.target] =
             IF j.op \in Sends THEN Append(@, MessageOf(j)) ELSE Server!Without(@, j.id)]
    ELSE committed.history
DirsOf(j) ==
    IF j.pc \in {"sub", "newdict"} THEN committed.dirs \cup Prefixes(Path[j.user]) ELSE committed.dirs
FilesOf(j) ==
    IF Halfway(j) /\ j.op = "put_messages_file" /\ j.pc # "save"
    THEN committed.files \cup {FileOf(MessageOf(j))}
    ELSE IF (Halfway(j) /\ j.op = "del_messages") \/ (j.pc = "pop" /\ j.side = "self")
    THEN committed.files \ PathsOf(j.user, j.target, j.id)
    ELSE committed.files

\* The tables are what the last answer left, changed by what has been done since.
DoneSoFar(j) ==
    /\ Usernames = UsersOf(j)
    /\ FriendLists = FriendListOf(j)
    /\ Lists = HistoryOf(j)
    /\ DOMAIN current = committed.users
    /\ \A u \in DOMAIN current : DOMAIN dicts[current[u]] = KeysOf(j)[u]
    /\ dirs = DirsOf(j)
    /\ files = FilesOf(j)
    /\ next_id = IF Drawn(j) THEN committed.next_id + 1 ELSE committed.next_id

\* What the checks of put_account, put_friends and del_friends have found out.
FoundOut(j) ==
    /\ j.pc \in SigningUp => j.op = "put_account"
    /\ j.pc \in SigningUp \ {"scan"} => j.user \notin committed.users
    /\ j.pc \in {"mkdir", "sub", "newdict"} =>
          /\ accounts # <<>>
          /\ Last(accounts) = [username |-> j.user, friend_list |-> <<>>]
    /\ j.pc \notin SigningUp => j.token \in DOMAIN accounts /\ Username(j.token) = j.user
    /\ j.pc \in Befriending => j.op = "put_friends"
    /\ j.pc \in Befriending \ {"check"} => j.target \in committed.users /\ ~ Has(j.user, j.target)
    /\ j.pc \in {"newlist", "mkdir_friend"} =>
          LET l == accounts[j.token].friend_list IN l # <<>> /\ Last(l) = j.target
    /\ j.pc \in Forgetting => j.op = "del_friends"
    /\ j.pc \in {"drop", "rmtree"} => Has(j.user, j.target)

\* The position in the loop: what is before it is not the message to unsend.
Searched(j) ==
    LET l == dicts[j.dict][j.key]
    IN /\ j.i \in 1 .. j.n + 1 /\ j.n = Len(l)
       /\ \A k \in 1 .. j.i - 1 : l[k].id # j.id
       /\ j.pc # "match" => j.i <= j.n /\ l[j.i].id = j.id
       /\ j.pc = "unlink" => Attachment(l[j.i])

\* The list at hand of a request about messages.
HasAtHand(j) ==
    /\ j.pc \in Using \cup {"lookup"} => j.op \in Sends \cup {"del_messages"}
    /\ j.op = "del_messages" => Server!MayUnsend(j.user, j.target, j.id) /\ j.id < committed.next_id
    /\ j.pc \in Using =>
          /\ committed.friend_list[j.user] # {}
          /\ j.dict = LET owner == IF j.side = "self" THEN j.user ELSE j.target
                      IN IF owner \in DOMAIN current THEN current[owner] ELSE 0
          /\ Drawn(j) => j.id = committed.next_id
    /\ j.pc \in {"save", "imwrite", "iterate", "find"} => j.side = "self"
    /\ j.pc \in {"save", "imwrite"} => j.op = "put_messages_file"
    /\ Halfway(j) =>
          /\ Has(j.user, j.target)
          /\ j.op = "put_messages_file" /\ j.pc # "save" => ChatDir(j.user, j.target) \in dirs
          /\ j.op = "del_messages" => PathsOf(j.user, j.target, j.id) \subseteq committed.files
    /\ j.pc = "find" => j.keys = Cardinality(DOMAIN current)
    /\ j.pc \in {"append", "len"} /\ j.side = "opposite" => Has(j.target, j.user)
    /\ j.pc \in {"match", "type", "unlink", "pop"} =>
          /\ IF j.side = "self" THEN Has(j.user, j.target) ELSE Has(j.target, j.user)
          /\ Searched(j)
    /\ j.pc \in {"type", "unlink"} => j.side = "self"
    /\ j.pc = "pop" /\ j.side = "self" => PathsOf(j.user, j.target, j.id) \subseteq committed.files

\* What the last answer left: only users have friends, all of whom are users.
Committed ==
    /\ committed.users \subseteq Names
    /\ committed.friend_list \in [Names -> SUBSET committed.users]
    /\ \A u \in Names \ committed.users : committed.friend_list[u] = {}
    /\ committed.history \in [Names -> [Names -> Seq(Message)]]
    /\ committed.next_id \in Nat

Progress(j) == DoneSoFar(j) /\ (j.pc # "idle" => FoundOut(j) /\ HasAtHand(j))

SInv ==
    /\ IInv
    /\ Orderly
    /\ Committed
    /\ started \in 0 .. MaxStarted /\ next_id <= FirstId + started
    /\ \A w \in Workers : job[w].pc = "lookup" => next_id < FirstId + started
    /\ \A w \in Workers : Progress(job[w])

-----------------------------------------------------------------------------
(* Lists, names and paths.                                                  *)

\* ChatServer means the same by a directory.
LEMMA SamePaths ==
    /\ \A p : Server!Prefixes(p) = Prefixes(p)
    /\ \A p, q : Server!IsPrefix(p, q) <=> IsPrefix(p, q)
    /\ \A u, v : Server!ChatDir(u, v) = ChatDir(u, v)
BY DEF Server!Prefixes, Prefixes, Server!IsPrefix, IsPrefix, Server!ChatDir, ChatDir

\* A list that holds nothing twice, without one of its positions.
LEMMA RemoveAtDrops ==
    ASSUME NEW S, NEW s \in Seq(S), NEW k \in DOMAIN s, IsInjective(s)
    PROVE  ToSet(RemoveAt(s, k)) = ToSet(s) \ {s[k]}
<1> DEFINE a == SubSeq(s, 1, k - 1)
           b == SubSeq(s, k + 1, Len(s))
           t == a \o b
<1>1. Len(s) \in Nat /\ DOMAIN s = 1 .. Len(s) /\ k \in 1 .. Len(s)
  OBVIOUS
<1>2. /\ a \in Seq(S) /\ Len(a) = k - 1
      /\ \A j \in 1 .. (k - 1) : a[j] = s[j]
  BY <1>1
<1>3. /\ b \in Seq(S) /\ Len(b) = Len(s) - k
      /\ \A j \in 1 .. (Len(s) - k) : b[j] = s[k + j]
  BY <1>1
<1>. HIDE DEF a, b
<1>4. /\ t \in Seq(S) /\ Len(t) = Len(a) + Len(b)
      /\ \A j \in 1 .. Len(a) + Len(b) : t[j] = IF j <= Len(a) THEN a[j] ELSE b[j - Len(a)]
  BY <1>2, <1>3, ConcatProperties
<1>. HIDE DEF t
<1>5. DOMAIN t = 1 .. (Len(s) - 1)
  BY <1>1, <1>2, <1>3, <1>4
<1>6. ASSUME NEW j \in DOMAIN t PROVE t[j] = s[IF j < k THEN j ELSE j + 1]
  <2>1. CASE j < k
    BY <2>1, <1>1, <1>2, <1>3, <1>4, <1>5
  <2>2. CASE j >= k
    <3>1. t[j] = b[j - (k - 1)]
      BY <2>2, <1>1, <1>2, <1>3, <1>4, <1>5
    <3>2. j - (k - 1) \in 1 .. (Len(s) - k) /\ k + (j - (k - 1)) = j + 1
      BY <2>2, <1>1, <1>5
    <3>. QED BY <3>1, <3>2, <1>3, <2>2, <1>5
  <2>. QED BY <2>1, <2>2, <1>1, <1>5
<1>7. ASSUME NEW x \in ToSet(t) PROVE x \in ToSet(s) \ {s[k]}
  <2>1. PICK j \in DOMAIN t : x = t[j]
    BY <1>7 DEF ToSet
  <2>2. PICK i \in DOMAIN s : i # k /\ x = s[i]
    BY <2>1, <1>6, <1>1, <1>5
  <2>. QED BY <2>2 DEF ToSet, IsInjective
<1>8. ASSUME NEW x \in ToSet(s) \ {s[k]} PROVE x \in ToSet(t)
  <2>1. PICK i \in DOMAIN s : x = s[i] /\ i # k
    BY <1>8 DEF ToSet
  <2>2. PICK j \in DOMAIN t : i = IF j < k THEN j ELSE j + 1
    <3>1. CASE i < k
      BY <3>1, <1>1, <1>5
    <3>2. CASE i > k
      <4>1. i - 1 \in DOMAIN t /\ i = (i - 1) + 1 /\ ~ (i - 1 < k)
        BY <3>2, <1>1, <1>5
      <4>. QED BY <4>1
    <3>. QED BY <3>1, <3>2, <2>1, <1>1
  <2>3. t[j] = x
    BY <2>1, <2>2, <1>6
  <2>. QED BY <2>3 DEF ToSet
<1>. QED BY <1>7, <1>8 DEF RemoveAt, t, a, b

\* Of the positions with a property, the search finds the first.
LEMMA FirstFound ==
    ASSUME NEW n \in Nat, NEW i \in 1 .. n, NEW I, I \subseteq 1 .. n, i \in I,
           \A k \in 1 .. i - 1 : k \notin I
    PROVE  Min(I) = i
<1>1. \A k \in I : i <= k
  OBVIOUS
<1>2. \A x \in I : (\A k \in I : x <= k) => x = i
  <2>. SUFFICES ASSUME NEW x \in I, \A k \in I : x <= k PROVE x = i
    OBVIOUS
  <2>. QED BY <1>1
<1>. QED BY <1>1, <1>2 DEF Min

\* forget (app_fake.py: list.remove) takes a friend off a list that names him once.
LEMMA RemoveFirstDrops ==
    ASSUME NEW S, NEW s \in Seq(S), NEW e \in ToSet(s), IsInjective(s)
    PROVE  /\ RemoveFirst(s, e) \in Seq(S) /\ IsInjective(RemoveFirst(s, e))
           /\ ToSet(RemoveFirst(s, e)) = ToSet(s) \ {e}
<1>1. PICK i \in DOMAIN s : s[i] = e
  BY DEF ToSet
<1> DEFINE I == {k \in 1 .. Len(s) : s[k] = e}
<1>2. DOMAIN s = 1 .. Len(s) /\ Len(s) \in Nat
  OBVIOUS
<1>3. I = {i}
  BY <1>1, <1>2 DEF IsInjective
<1>4. Min(I) = i
  BY <1>1, <1>2, <1>3, FirstFound
<1>5. RemoveFirst(s, e) = RemoveAt(s, i)
  BY <1>1, <1>2, <1>4 DEF RemoveFirst, SelectInSeq
<1>. QED BY <1>1, <1>5, RemoveAtShrinks, RemoveAtDrops

\* The loop of del_messages: what it removes is the first message with the id.
LEMMA WithoutFound ==
    ASSUME NEW s \in Seq(Message), NEW id, NEW i \in 1 .. Len(s), s[i].id = id,
           \A k \in 1 .. i - 1 : s[k].id # id
    PROVE  Server!Without(s, id) = RemoveAt(s, i)
<1> DEFINE I == {k \in 1 .. Len(s) : s[k].id = id}
<1>1. Len(s) \in Nat /\ I \subseteq 1 .. Len(s) /\ i \in I /\ \A k \in 1 .. i - 1 : k \notin I
  OBVIOUS
<1>2. Min(I) = i
  BY <1>1, FirstFound
<1>3. \E k \in 1 .. Len(s) : s[k].id = id
  OBVIOUS
<1>. QED BY <1>2, <1>3 DEF Server!Without, Server!RemoveFirstMatch, Server!SelectInSeq, Server!RemoveAt, Server!Min, RemoveAt, Min

\* A list without the message stays.
LEMMA WithoutNothing ==
    ASSUME NEW s \in Seq(Message), NEW id, \A k \in 1 .. Len(s) : s[k].id # id
    PROVE  Server!Without(s, id) = s
BY DEF Server!Without, Server!RemoveFirstMatch

\* The friends of the only account of a name.
LEMMA FriendsOfUser ==
    ASSUME NEW accts \in Seq(Account),
           \A i, j \in DOMAIN accts : accts[i].username = accts[j].username => i = j,
           NEW t \in DOMAIN accts
    PROVE  LET mine == {i \in DOMAIN accts : accts[i].username = accts[t].username}
           IN mine # {} /\ Min(mine) = t
<1>1. {i \in DOMAIN accts : accts[i].username = accts[t].username} = {t}
  OBVIOUS
<1>2. Min({t}) = t
  BY DEF Min
<1>. QED BY <1>1, <1>2

-----------------------------------------------------------------------------
(* The one thread.                                                          *)

\* There is one thread.
LEMMA OneWorker == \E w : Workers = {w}
BY SerialAssumption, FS_Singleton

\* What happens to committed when a step is taken.
Ticks == committed' = IF AtRest' /\ ~ AtRest THEN Tables' ELSE committed

\* Each user has a dictionary of his own.
LEMMA CurrentInjective ==
    ASSUME IInv, NEW a \in DOMAIN current, NEW b \in DOMAIN current, current[a] = current[b]
    PROVE  a = b
BY DEF IInv, Owned

\* The friend list of a user is that of his account.
LEMMA FriendsOfToken ==
    ASSUME Typed, UniqueUsernames, NEW t \in DOMAIN accounts
    PROVE  /\ Username(t) \in Names /\ Username(t) \in Usernames
           /\ accounts[t].friend_list \in Seq(Names)
           /\ FriendLists[Username(t)] = ToSet(accounts[t].friend_list)
<1>1. accounts \in Seq(Account) /\ accounts[t] \in Account
  BY DEF Typed
<1>2. Username(t) \in Names /\ accounts[t].friend_list \in Seq(Names)
  BY <1>1 DEF Username, Account
<1>3. Username(t) \in Usernames
  BY DEF Username, Usernames, ToSet
<1>4. \A i, j \in DOMAIN accounts : accounts[i].username = accounts[j].username => i = j
  BY DEF UniqueUsernames, Username
<1>5. LET mine == {i \in DOMAIN accounts : accounts[i].username = accounts[t].username}
      IN mine # {} /\ Min(mine) = t
  BY <1>1, <1>4, FriendsOfUser
<1>6. FriendsOf(Username(t)) = ToSet(accounts[t].friend_list)
  BY <1>5 DEF FriendsOf, Username
<1>. QED BY <1>2, <1>3, <1>6 DEF FriendLists

\* Who has no account has no friends.
LEMMA NoAccountNoFriends ==
    ASSUME NEW u \in Names, u \notin Usernames
    PROVE  FriendLists[u] = {}
BY DEF FriendLists, FriendsOf, Usernames, Username, ToSet

\* A step that leaves the database alone leaves what is read from it.
LEMMA SameTables ==
    ASSUME UNCHANGED db
    PROVE  /\ UNCHANGED <<Usernames, FriendLists, Lists>>
           /\ Orderly => Orderly'
BY DEF db, Usernames, FriendLists, FriendsOf, Lists, ListOf, HasList, Orderly, UniqueUsernames, Username

\* A friend list is replaced: the other users keep theirs.
LEMMA OneFriendListReplaced ==
    ASSUME Typed, Orderly, NEW t \in DOMAIN accounts, NEW l \in Seq(Names),
           IsInjective(l), ToSet(l) \subseteq Usernames,
           accounts' = [accounts EXCEPT ![t].friend_list = l]
    PROVE  /\ Orderly' /\ Usernames' = Usernames
           /\ \A i \in DOMAIN accounts : Username(i)' = Username(i)
           /\ DOMAIN accounts' = DOMAIN accounts /\ accounts'[t].friend_list = l
           /\ FriendLists' = [FriendLists EXCEPT ![Username(t)] = ToSet(l)]
<1>1. /\ accounts \in Seq(Account) /\ accounts' \in Seq(Account)
      /\ DOMAIN accounts' = DOMAIN accounts
  BY FriendsChange DEF Typed
<1>2. \A i \in DOMAIN accounts :
         /\ accounts'[i].username = accounts[i].username
         /\ accounts'[i].friend_list = IF i = t THEN l ELSE accounts[i].friend_list
  <2>. SUFFICES ASSUME NEW i \in DOMAIN accounts
                PROVE  /\ accounts'[i].username = accounts[i].username
                       /\ accounts'[i].friend_list = IF i = t THEN l ELSE accounts[i].friend_list
    OBVIOUS
  <2>1. accounts[i] \in Account
    BY <1>1
  <2>2. CASE i = t
    BY <2>1, <2>2 DEF Account
  <2>3. CASE i # t
    BY <2>3
  <2>. QED BY <2>2, <2>3
<1>3. Usernames' = Usernames
  <2>1. ASSUME NEW s PROVE {a.username : a \in ToSet(s)} = {s[i].username : i \in DOMAIN s}
    BY DEF ToSet
  <2>2. /\ Usernames = {accounts[i].username : i \in DOMAIN accounts}
        /\ Usernames' = {accounts'[i].username : i \in DOMAIN accounts'}
    BY <2>1 DEF Usernames
  <2>. QED BY <1>1, <1>2, <2>2
<1>4. UniqueUsernames'
  BY <1>1, <1>2 DEF UniqueUsernames, Username, Orderly
<1>5. Orderly'
  BY <1>1, <1>2, <1>3, <1>4 DEF Orderly
<1>6. ASSUME NEW u \in Names
      PROVE  FriendsOf(u)' = IF u = Username(t) THEN ToSet(l) ELSE FriendsOf(u)
  <2>1. CASE \E i \in DOMAIN accounts : accounts[i].username = u
    <3>1. PICK i \in DOMAIN accounts : accounts[i].username = u
      BY <2>1
    <3>2. LET mine == {k \in DOMAIN accounts : accounts[k].username = accounts[i].username}
          IN mine # {} /\ Min(mine) = i
      BY <1>1, FriendsOfUser DEF Orderly, UniqueUsernames, Username
    <3>3. {k \in DOMAIN accounts : accounts[k].username = u}'
          = {k \in DOMAIN accounts : accounts[k].username = u}
      BY <1>1, <1>2
    <3>4. FriendsOf(u)' = ToSet(accounts'[i].friend_list) /\ FriendsOf(u) = ToSet(accounts[i].friend_list)
      BY <3>1, <3>2, <3>3 DEF FriendsOf, Username
    <3>5. u = Username(t) <=> i = t
      BY <3>1 DEF Username, Orderly, UniqueUsernames
    <3>. QED BY <3>4, <3>5, <1>2
  <2>2. CASE ~ \E i \in DOMAIN accounts : accounts[i].username = u
    <3>1. FriendsOf(u) = {} /\ FriendsOf(u)' = {}
      BY <2>2, <1>1, <1>2 DEF FriendsOf, Username
    <3>. QED BY <2>2, <3>1 DEF Username
  <2>. QED BY <2>1, <2>2
<1>7. FriendLists' = [FriendLists EXCEPT ![Username(t)] = ToSet(l)]
  BY <1>6 DEF FriendLists
<1>. QED BY <1>1, <1>2, <1>3, <1>5, <1>7 DEF Username

\* A new account has no friends: nobody's list changes.
LEMMA AccountAdded ==
    ASSUME Typed, Orderly, NEW u \in Names, u \notin Usernames,
           accounts' = Append(accounts, [username |-> u, friend_list |-> <<>>])
    PROVE  /\ Orderly' /\ Usernames' = Usernames \cup {u}
           /\ FriendLists' = FriendLists
           /\ accounts' # <<>> /\ Last(accounts') = [username |-> u, friend_list |-> <<>>]
<1> DEFINE a == [username |-> u, friend_list |-> <<>>]
           n == Len(accounts) + 1
<1>1. a \in Account
  BY DEF Account
<1>2. /\ accounts \in Seq(Account) /\ accounts' \in Seq(Account)
      /\ Len(accounts) \in Nat /\ DOMAIN accounts = 1 .. Len(accounts)
      /\ DOMAIN accounts' = 1 .. n /\ accounts'[n] = a /\ Len(accounts') = n
      /\ \A i \in DOMAIN accounts : accounts'[i] = accounts[i]
  BY <1>1 DEF Typed
<1>3. \A i \in DOMAIN accounts : accounts[i].username # u
  BY DEF Usernames, ToSet
<1>4. DOMAIN accounts' = DOMAIN accounts \cup {n} /\ n \notin DOMAIN accounts
  BY <1>2
<1>. HIDE DEF n
<1>5. Usernames' = Usernames \cup {u}
  <2>1. ToSet(accounts') = ToSet(accounts) \cup {a}
    BY <1>2, <1>4 DEF ToSet
  <2>. QED BY <2>1 DEF Usernames
<1>6. UniqueUsernames'
  BY <1>2, <1>3, <1>4 DEF UniqueUsernames, Username, Orderly
<1>7. Orderly'
  <2>1. ToSet(<<>>) = {} /\ IsInjective(<<>>)
    BY DEF ToSet, IsInjective
  <2>. QED BY <2>1, <1>2, <1>4, <1>5, <1>6 DEF Orderly
<1>8. ASSUME NEW x \in Names PROVE FriendsOf(x)' = FriendsOf(x)
  <2>1. CASE x = u
    <3>1. FriendsOf(u) = {}
      BY <1>3 DEF FriendsOf, Username
    <3>2. LET mine == {k \in DOMAIN accounts' : accounts'[k].username = accounts'[n].username}
          IN mine # {} /\ Min(mine) = n
      <4>1. \A i, j \in DOMAIN accounts' : accounts'[i].username = accounts'[j].username => i = j
        BY <1>6 DEF UniqueUsernames, Username
      <4>. QED BY <1>2, <1>4, <4>1, FriendsOfUser
    <3>3. FriendsOf(u)' = ToSet(accounts'[n].friend_list)
      <4>1. accounts'[n].username = u
        BY <1>2
      <4>. QED BY <3>2, <4>1 DEF FriendsOf, Username
    <3>4. ToSet(<<>>) = {}
      BY DEF ToSet
    <3>. QED BY <2>1, <3>1, <3>3, <3>4, <1>2
  <2>2. CASE x # u
    <3>1. {k \in DOMAIN accounts' : accounts'[k].username = x}
          = {k \in DOMAIN accounts : accounts[k].username = x}
      BY <1>2, <1>4, <2>2
    <3>2. CASE {k \in DOMAIN accounts : accounts[k].username = x} = {}
      BY <3>1, <3>2 DEF FriendsOf, Username
    <3>3. CASE {k \in DOMAIN accounts : accounts[k].username = x} # {}
      <4>1. PICK i \in DOMAIN accounts : accounts[i].username = x
        BY <3>3
      <4>2. LET mine == {k \in DOMAIN accounts : accounts[k].username = accounts[i].username}
            IN mine # {} /\ Min(mine) = i
        BY <1>2, FriendsOfUser DEF Orderly, UniqueUsernames, Username
      <4>3. /\ FriendsOf(x)' = ToSet(accounts'[i].friend_list)
            /\ FriendsOf(x) = ToSet(accounts[i].friend_list)
        BY <3>1, <4>1, <4>2 DEF FriendsOf, Username
      <4>. QED BY <1>2, <4>3
    <3>. QED BY <3>2, <3>3
  <2>. QED BY <2>1, <2>2
<1>9. FriendLists' = FriendLists
  BY <1>8 DEF FriendLists
<1>10. accounts' # <<>> /\ Last(accounts') = a
  BY <1>2 DEF n, Last
<1>. QED BY <1>5, <1>7, <1>9, <1>10

\* One user's dictionary is replaced: only his lists change.
LEMMA OneDictReplaced ==
    ASSUME IInv, NEW x \in DOMAIN current, NEW d, dicts' = [dicts EXCEPT ![current[x]] = d],
           current' = current
    PROVE  /\ DOMAIN dicts'[current'[x]] = DOMAIN d
           /\ \A u \in DOMAIN current : u # x => dicts'[current'[u]] = dicts[current[u]]
           /\ \A u, v \in Names :
                 Lists'[u][v] = IF u = x THEN IF v \in DOMAIN d THEN d[v] ELSE <<>>
                                ELSE Lists[u][v]
<1>1. /\ dicts \in Seq(Dict)
      /\ \A u \in DOMAIN current : current[u] \in DOMAIN dicts
  BY DEF IInv, Typed
<1>2. dicts'[current'[x]] = d
  BY <1>1
<1>3. \A u \in DOMAIN current : u # x => dicts'[current'[u]] = dicts[current[u]]
  BY <1>1, CurrentInjective
<1>. QED BY <1>2, <1>3 DEF Lists, ListOf, HasList

\* The tables of lists differ in one entry.
LEMMA OneEntryReplaced ==
    ASSUME NEW a \in Names, NEW b \in Names, NEW e,
           \A u, v \in Names : Lists'[u][v] = IF u = a /\ v = b THEN e ELSE Lists[u][v]
    PROVE  Lists' = [Lists EXCEPT ![a][b] = e]
<1>1. Lists' = [u \in Names |-> [v \in Names |-> IF u = a /\ v = b THEN e ELSE Lists[u][v]]]
  <2>1. \A u, v \in Names : ListOf(u, v)' = Lists'[u][v]
    BY DEF Lists
  <2>2. \A u, v \in Names : ListOf(u, v)' = IF u = a /\ v = b THEN e ELSE Lists[u][v]
    BY <2>1
  <2>. QED BY <2>2 DEF Lists
<1>2. [Lists EXCEPT ![a][b] = e]
      = [u \in Names |-> [v \in Names |-> IF u = a /\ v = b THEN e ELSE Lists[u][v]]]
  BY DEF Lists
<1>. QED BY <1>1, <1>2

\* The assignment to a list, for the lemmas below.
Puts(d, k, e) == dicts' = [dicts EXCEPT ![d][k] = e]

\* One list is replaced: the other lists stay, and every dictionary keeps its keys.
LEMMA OneListReplaced ==
    ASSUME IInv, NEW x \in Names, NEW y \in Names, HasList(x, y), NEW e,
           Puts(current[x], y, e), current' = current
    PROVE  /\ \A u, v \in Names : Lists'[u][v] = IF u = x /\ v = y THEN e ELSE Lists[u][v]
           /\ \A u \in DOMAIN current : DOMAIN dicts'[current'[u]] = DOMAIN dicts[current[u]]
<1>1. x \in DOMAIN current /\ y \in DOMAIN dicts[current[x]]
  BY DEF HasList
<1>2. dicts \in Seq(Dict) /\ \A u \in DOMAIN current : current[u] \in DOMAIN dicts
  BY <1>1 DEF IInv, Typed
<1>3. /\ dicts'[current'[x]] = [dicts[current[x]] EXCEPT ![y] = e]
      /\ \A u \in DOMAIN current : u # x => dicts'[current'[u]] = dicts[current[u]]
  BY <1>1, <1>2, CurrentInjective DEF Puts
<1>4. \A u \in DOMAIN current : DOMAIN dicts'[current'[u]] = DOMAIN dicts[current[u]]
  BY <1>1, <1>3
<1>5. \A u, v \in Names : ListOf(u, v)' = IF u = x /\ v = y THEN e ELSE ListOf(u, v)
  <2>. SUFFICES ASSUME NEW u \in Names, NEW v \in Names
                PROVE  ListOf(u, v)' = IF u = x /\ v = y THEN e ELSE ListOf(u, v)
    OBVIOUS
  <2>1. CASE u = x
    BY <1>1, <1>3, <2>1 DEF ListOf, HasList
  <2>2. CASE u # x
    BY <1>3, <2>2 DEF ListOf, HasList
  <2>. QED BY <2>1, <2>2
<1>6. \A u, v \in Names : Lists'[u][v] = IF u = x /\ v = y THEN e ELSE Lists[u][v]
  BY <1>5 DEF Lists
<1>. QED BY <1>4, <1>6

-----------------------------------------------------------------------------
(* A step of the one thread.                                                *)

\* What the one thread is doing, as all the lemmas below use it.
LEMMA Doing ==
    ASSUME SInv, NEW w \in Workers, job[w].pc # "idle"
    PROVE  /\ Typed /\ job[w] \in Busy
           /\ DoneSoFar(job[w]) /\ FoundOut(job[w]) /\ HasAtHand(job[w])
           /\ job[w].user \in Names /\ job[w].target \in Names
BY Working DEF SInv, IInv, Progress, Busy

\* A thread that goes on has the variables it had, but for those the step sets.
LEMMA Moves ==
    ASSUME Typed, NEW w \in Workers, job[w] \in Busy, NEW pc \in PCs, Goto(w, pc)
    PROVE  \E j \in Busy :
              /\ job' = [job EXCEPT ![w] = j] /\ j.pc = pc
              /\ j.op = job[w].op /\ j.token = job[w].token /\ j.user = job[w].user
              /\ j.target = job[w].target /\ j.id = job[w].id /\ j.side = job[w].side
              /\ j.dict = job[w].dict /\ j.key = job[w].key /\ j.i = job[w].i /\ j.n = job[w].n
              /\ j.keys = job[w].keys
<1>1. PICK j : j = [job[w] EXCEPT !.pc = pc]
  OBVIOUS
<1>2. job' = [job EXCEPT ![w] = j]
  BY <1>1 DEF Goto, Typed
<1>3. /\ j \in Busy /\ j.pc = pc
      /\ j.op = job[w].op /\ j.token = job[w].token /\ j.user = job[w].user
      /\ j.target = job[w].target /\ j.id = job[w].id /\ j.side = job[w].side
      /\ j.dict = job[w].dict /\ j.key = job[w].key /\ j.i = job[w].i /\ j.n = job[w].n
      /\ j.keys = job[w].keys
  BY <1>1 DEF Busy
<1>. QED BY <1>2, <1>3

\* Nothing is committed while the request runs.
LEMMA NothingCommitted ==
    ASSUME SInv, NEW w \in Workers, NEW j \in Busy, job' = [job EXCEPT ![w] = j], Ticks
    PROVE  committed' = committed /\ job'[w] = j /\ j.pc # "idle"
<1>1. job'[w] = j
  BY DEF SInv, IInv, Typed
<1>2. j.pc # "idle"
  BY DEF Busy, PCs
<1>. QED BY <1>1, <1>2 DEF Ticks, AtRest, At

\* A step after which the request still runs.
LEMMA GoesHolds ==
    ASSUME SInv, NEW w, Workers = {w}, NEW j \in Busy, job' = [job EXCEPT ![w] = j], Ticks,
           IInv', Orderly', UNCHANGED started, j.pc # "lookup", next_id' <= FirstId + started,
           DoneSoFar(j)', FoundOut(j)', HasAtHand(j)'
    PROVE  SInv'
<1>1. committed' = committed /\ job'[w] = j
  BY NothingCommitted
<1>2. Committed'
  BY <1>1 DEF SInv, Committed
<1>3. Progress(job[w])'
  BY <1>1 DEF Progress
<1>. QED BY <1>1, <1>2, <1>3 DEF SInv

\* What ChatServer is told when a request is answered.
Told ==
    /\ committed'.users = Usernames'
    /\ committed'.friend_list = FriendLists'
    /\ committed'.history = Lists'
    /\ committed'.dirs = dirs'
    /\ committed'.files = files'
    /\ committed'.next_id = next_id' /\ committed'.reply = reply'

\* A step that answers the request.
LEMMA AnswerHolds ==
    ASSUME SInv, NEW w, Workers = {w}, job[w].pc # "idle", NEW status, Answer(w, status), Ticks,
           IInv', Orderly', UNCHANGED started, next_id' <= FirstId + started,
           DOMAIN current' = Usernames',
           \A u \in DOMAIN current' : DOMAIN dicts'[current'[u]] = FriendLists'[u]
    PROVE  SInv' /\ Told /\ reply' = [op |-> job[w].op, by |-> job[w].user, status |-> status]
<1>1. job'[w] = Idle
  BY DEF SInv, IInv, Typed, Answer
<1>2. committed' = Tables'
  BY <1>1 DEF Ticks, AtRest, At, Idle
<1>3. Told
  BY <1>2 DEF Told, Tables, FriendLists, Lists
<1>4. IInv' /\ Typed'
  BY DEF IInv
<1>5. Usernames' \subseteq Names /\ next_id' \in Nat
  <2>1. accounts' \in Seq(Account)
    BY <1>4 DEF Typed
  <2>2. ASSUME NEW a \in ToSet(accounts') PROVE a.username \in Names
    <3>1. a \in Account
      BY <2>1 DEF ToSet
    <3>. QED BY <3>1 DEF Account
  <2>. QED BY <1>4, <2>2 DEF Usernames, Typed
<1>6. \A u \in Names \ Usernames' : FriendLists'[u] = {}
  BY DEF FriendLists, FriendsOf, Usernames, Username, ToSet
<1>7. FriendLists' \in [Names -> SUBSET Usernames']
  <2>1. ASSUME NEW u \in Names PROVE FriendsOf(u)' \in SUBSET Usernames'
    <3>1. CASE u \notin Usernames'
      BY <1>6, <3>1 DEF FriendLists
    <3>2. CASE u \in Usernames'
      <4>1. PICK t \in DOMAIN accounts' : accounts'[t].username = u
        BY <3>2 DEF Usernames, ToSet
      <4>2. LET mine == {k \in DOMAIN accounts' : accounts'[k].username = accounts'[t].username}
            IN mine # {} /\ Min(mine) = t
        BY <1>4, FriendsOfUser DEF Orderly, UniqueUsernames, Username, Typed
      <4>3. FriendsOf(u)' = ToSet(accounts'[t].friend_list)
        BY <4>1, <4>2 DEF FriendsOf, Username
      <4>. QED BY <4>1, <4>3 DEF Orderly
    <3>. QED BY <3>1, <3>2
  <2>. QED BY <2>1 DEF FriendLists
<1>8. Lists' \in [Names -> [Names -> Seq(Message)]]
  <2>1. ASSUME NEW u \in Names, NEW v \in Names PROVE ListOf(u, v)' \in Seq(Message)
    <3>1. CASE HasList(u, v)'
      <4>1. current'[u] \in DOMAIN dicts' /\ dicts' \in Seq(Dict) /\ v \in DOMAIN dicts'[current'[u]]
        BY <1>4, <3>1 DEF HasList, Typed
      <4>2. dicts'[current'[u]] \in Dict
        BY <4>1
      <4>. QED BY <3>1, <4>1, <4>2 DEF ListOf, Dict
    <3>2. CASE ~ HasList(u, v)'
      BY <3>2 DEF ListOf
    <3>. QED BY <3>1, <3>2
  <2>. QED BY <2>1 DEF Lists
<1>9. Committed'
  BY <1>3, <1>5, <1>6, <1>7, <1>8 DEF Committed, Told
<1>10. DoneSoFar(Idle)'
  BY <1>3 DEF DoneSoFar, Told, Idle, UsersOf, FriendListOf, KeysOf, HistoryOf, Halfway, Using,
              DirsOf, FilesOf, Drawn
<1>11. Progress(job[w])'
  BY <1>1, <1>10 DEF Progress, Idle
<1>12. \A x \in Workers : job'[x].pc # "lookup"
  BY <1>1 DEF Idle
<1>. QED BY <1>3, <1>9, <1>11, <1>12 DEF SInv, Answer

\* An answer that leaves the database alone.
LEMMA AnswersAsIs ==
    ASSUME SInv, NEW w, Workers = {w}, job[w].pc # "idle", NEW status, Answer(w, status), Ticks,
           IInv', UNCHANGED <<db, next_id, started>>,
           UsersOf(job[w]) = committed.users, KeysOf(job[w]) = FriendListOf(job[w])
    PROVE  /\ SInv' /\ Told /\ reply' = [op |-> job[w].op, by |-> job[w].user, status |-> status]
           /\ Usernames' = committed.users /\ FriendLists' = FriendListOf(job[w])
           /\ Lists' = HistoryOf(job[w])
<1>1. DoneSoFar(job[w])
  BY Doing
<1>2. UNCHANGED <<Usernames, FriendLists, Lists>> /\ Orderly'
  BY SameTables DEF SInv
<1>3. /\ DOMAIN current' = Usernames'
      /\ \A u \in DOMAIN current' : DOMAIN dicts'[current'[u]] = FriendLists'[u]
  BY <1>1, <1>2 DEF DoneSoFar, db
<1>4. next_id' <= FirstId + started
  BY DEF SInv
<1>5. SInv' /\ Told /\ reply' = [op |-> job[w].op, by |-> job[w].user, status |-> status]
  BY <1>2, <1>3, <1>4, AnswerHolds
<1>. QED BY <1>1, <1>2, <1>5 DEF DoneSoFar

Serves == committed' = committed \/ Server!Next

\* The request that ChatServer serves is the caller's.
LEMMA ServerServes ==
    ASSUME NEW u \in Names, Server!Serve(u)
    PROVE  Serves
BY DEF Server!Next, Serves

\* Nothing has been done yet: the tables are those that the last answer left.
Untouched(j) ==
    /\ UsersOf(j) = committed.users /\ FriendListOf(j) = committed.friend_list
    /\ KeysOf(j) = committed.friend_list /\ HistoryOf(j) = committed.history
    /\ DirsOf(j) = committed.dirs /\ FilesOf(j) = committed.files /\ ~ Drawn(j)

LEMMA NotYet ==
    ASSUME NEW j, \/ j.pc \in {"idle", "scan", "add", "check", "befriend", "forget", "lookup"}
                  \/ /\ j.side = "self" /\ j.op \notin Sends
                     /\ j.pc \in {"len", "match", "type", "unlink"}
    PROVE  Untouched(j)
BY DEF Untouched, UsersOf, FriendListOf, KeysOf, HistoryOf, DirsOf, FilesOf, Halfway, Using, Drawn

\* A refusal before anything has been done changes nothing.
LEMMA RefusesUntouched ==
    ASSUME SInv, NEW w, Workers = {w}, job[w].pc # "idle", NEW status, Answer(w, status), Ticks,
           IInv', UNCHANGED <<db, disk, next_id, started>>, Untouched(job[w])
    PROVE  SInv' /\ Server!Refuse(job[w].op, job[w].user, status)
<1>1. DoneSoFar(job[w])
  BY Doing
<1>2. /\ SInv' /\ Told /\ reply' = [op |-> job[w].op, by |-> job[w].user, status |-> status]
      /\ Usernames' = committed.users /\ FriendLists' = committed.friend_list
      /\ Lists' = committed.history
  BY AnswersAsIs DEF Untouched
<1>3. /\ dirs' = committed.dirs
      /\ files' = committed.files /\ next_id' = committed.next_id
  BY <1>1 DEF DoneSoFar, Untouched, disk
<1>. QED BY <1>2, <1>3 DEF Told, Server!Refuse, Server!Answer, Server!store

\* A request is taken up.
LEMMA StartSteps ==
    ASSUME SInv, NEW w, Workers = {w}, NEW r \in Requests, Start(w, r), Ticks, IInv'
    PROVE  SInv' /\ Serves
<1> DEFINE user == IF r.op = "put_account" THEN r.target ELSE Username(r.token)
<1>1. PICK j : j = [pc |-> Entry(r.op), op |-> r.op, token |-> r.token, user |-> user,
                    target |-> r.target, id |-> r.id, side |-> "self", dict |-> 0,
                    key |-> r.target, i |-> 0, n |-> 0, keys |-> 0]
  OBVIOUS
<1>2. job' = [job EXCEPT ![w] = j] /\ Typed
  BY <1>1 DEF Start, SInv, IInv
<1>3. job'[w] = j
  BY <1>2 DEF Typed
<1>4. r \in Request
  BY RequestsAssumption
<1>5. \/ r.op = "put_account" /\ j.pc = "scan"
      \/ r.op = "put_friends" /\ j.pc = "check"
      \/ r.op = "del_friends" /\ j.pc = "forget"
      \/ r.op \in Sends \cup {"del_messages"} /\ j.pc = "lookup"
  BY <1>1, <1>4 DEF Entry, Request, Endpoints, Sends
<1>6. committed' = committed
  BY <1>3, <1>5 DEF Ticks, AtRest, At
<1>7. DoneSoFar(job[w]) /\ Orderly /\ job[w].pc = "idle"
  BY DEF SInv, Progress, Start, At
<1>8. Untouched(job[w]) /\ Untouched(j)
  BY <1>5, <1>7, NotYet
<1>9. UNCHANGED <<Usernames, FriendLists, Lists>> /\ Orderly'
  BY <1>7, SameTables DEF Start
<1>10. DoneSoFar(j)'
  <2>1. Untouched(j)'
    BY <1>5, <1>6, <1>8 DEF Untouched, UsersOf, FriendListOf, KeysOf, HistoryOf, Halfway, Using,
        DirsOf, FilesOf, Drawn
  <2>. QED BY <2>1, <1>6, <1>7, <1>8, <1>9 DEF DoneSoFar, Untouched, Start, db, disk
<1>11. FoundOut(j)'
  <2>1. r.op # "put_account" => r.token \in DOMAIN accounts' /\ accounts' = accounts
    BY DEF Start, db
  <2>. QED BY <1>1, <1>5, <2>1
       DEF FoundOut, SigningUp, Befriending, Forgetting, Sends, Username
<1>12. HasAtHand(j)'
  <2>1. r.op = "del_messages" =>
           Server!MayUnsend(j.user, j.target, j.id) /\ j.id < committed.next_id
    <3>. SUFFICES ASSUME r.op = "del_messages"
                  PROVE  Server!MayUnsend(j.user, j.target, j.id) /\ j.id < committed.next_id
      OBVIOUS
    <3>1. MayUnsend(r) /\ r.token \in DOMAIN accounts
      BY DEF Start
    <3>2. j.user = Username(r.token) /\ j.target = r.target /\ j.id = r.id
      BY <1>1
    <3>3. next_id = committed.next_id /\ Lists = committed.history
      BY <1>7, <1>8 DEF DoneSoFar, Untouched
    <3>4. j.user \in Names /\ j.target \in Names
      BY <1>2, <1>4, <1>7, <3>1, <3>2, FriendsOfToken DEF Orderly, Request
    <3>5. /\ Server!Held(j.user, j.target) = Held(j.user, j.target)
          /\ Server!Held(j.target, j.user) = Held(j.target, j.user)
      BY <3>3, <3>4 DEF Server!Held, Held, Lists, Server!ToSet, ToSet
    <3>. QED BY <3>1, <3>2, <3>3, <3>5 DEF MayUnsend, Server!MayUnsend
  <2>2. Server!MayUnsend(j.user, j.target, j.id)' <=> Server!MayUnsend(j.user, j.target, j.id)
    BY <1>6 DEF Server!MayUnsend, Server!Held
  <2>. QED BY <1>1, <1>5, <1>6, <2>1, <2>2 DEF HasAtHand, Using, Halfway, Drawn, Sends
<1>13. Progress(job[w])'
  BY <1>3, <1>10, <1>11, <1>12 DEF Progress
<1>14. Committed'
  BY <1>6 DEF SInv, Committed
<1>15. /\ started' \in 0 .. MaxStarted /\ next_id' <= FirstId + started'
       /\ next_id' < FirstId + started'
  <2>1. started' = started + 1 /\ started < MaxStarted /\ next_id' = next_id
    BY DEF Start
  <2>2. started \in 0 .. MaxStarted /\ next_id <= FirstId + started /\ next_id \in Nat
    BY <1>2 DEF SInv, Typed
  <2>. QED BY <2>1, <2>2, SerialAssumption, SeedMessagesAssumption
<1>. QED BY <1>6, <1>9, <1>13, <1>14, <1>15 DEF SInv, Serves

-----------------------------------------------------------------------------
(* put_account.                                                             *)

\* A name that is taken is refused; otherwise the sign-up begins (put_account).
LEMMA scanSteps ==
    ASSUME SInv, NEW w, Workers = {w}, scan(w), Ticks, IInv'
    PROVE  SInv' /\ Serves
<1>1. /\ job[w].pc = "scan" /\ job[w] \in Busy /\ Typed /\ job[w].user \in Names
      /\ DoneSoFar(job[w]) /\ FoundOut(job[w]) /\ HasAtHand(job[w]) /\ Untouched(job[w])
  BY Doing, NotYet DEF scan, At
<1>2. job[w].op = "put_account" /\ Usernames = committed.users
  BY <1>1 DEF FoundOut, SigningUp, DoneSoFar, Untouched
<1>3. CASE Answer(w, "dup") /\ job[w].user \in Usernames
  <2>1. SInv' /\ Server!Refuse("put_account", job[w].user, "dup")
    BY <1>1, <1>2, <1>3, RefusesUntouched DEF scan
  <2>2. Server!put_account(job[w].user)
    BY <1>2, <1>3, <2>1 DEF Server!put_account
  <2>. QED BY <1>1, <2>1, <2>2, ServerServes DEF Server!Serve
<1>4. CASE Goto(w, "add") /\ job[w].user \notin Usernames
  <2>1. PICK j \in Busy :
           /\ job' = [job EXCEPT ![w] = j] /\ j.pc = "add"
           /\ j.op = job[w].op /\ j.user = job[w].user
    BY <1>1, <1>4, Moves DEF PCs
  <2>2. committed' = committed
    BY <2>1, NothingCommitted
  <2>3. UNCHANGED <<Usernames, FriendLists, Lists>> /\ Orderly'
    BY SameTables DEF scan, SInv
  <2>4. Untouched(j)'
    BY <2>1, <2>2 DEF Untouched, UsersOf, FriendListOf, KeysOf, HistoryOf, Halfway, Using,
        DirsOf, FilesOf, Drawn
  <2>5. DoneSoFar(j)'
    BY <1>1, <2>2, <2>3, <2>4 DEF DoneSoFar, Untouched, scan, db, disk
  <2>6. FoundOut(j)' /\ HasAtHand(j)'
    BY <1>2, <1>4, <2>1, <2>2
       DEF FoundOut, SigningUp, Befriending, Forgetting, HasAtHand, Using, Halfway, Drawn, Sends
  <2>7. next_id' <= FirstId + started /\ UNCHANGED started
    BY DEF scan, SInv
  <2>. QED BY <2>1, <2>2, <2>3, <2>5, <2>6, <2>7, GoesHolds DEF Serves
<1>. QED BY <1>3, <1>4 DEF scan

\* The account is listed before its dictionary exists (put_account).
LEMMA addSteps ==
    ASSUME SInv, NEW w, Workers = {w}, add(w), Ticks, IInv'
    PROVE  SInv' /\ Serves
<1>1. /\ job[w].pc = "add" /\ job[w] \in Busy /\ Typed /\ job[w].user \in Names
      /\ DoneSoFar(job[w]) /\ FoundOut(job[w]) /\ HasAtHand(job[w]) /\ Untouched(job[w])
  BY Doing, NotYet DEF add, At
<1>2. job[w].op = "put_account" /\ Usernames = committed.users /\ job[w].user \notin committed.users
  BY <1>1 DEF FoundOut, SigningUp, DoneSoFar, Untouched
<1>3. PICK j \in Busy :
         /\ job' = [job EXCEPT ![w] = j] /\ j.pc = "mkdir"
         /\ j.op = job[w].op /\ j.user = job[w].user
  BY <1>1, Moves DEF add, PCs
<1>4. committed' = committed
  BY <1>3, NothingCommitted
<1>5. /\ Orderly' /\ Usernames' = committed.users \cup {j.user} /\ FriendLists' = FriendLists
      /\ accounts' # <<>> /\ Last(accounts') = [username |-> j.user, friend_list |-> <<>>]
  BY <1>1, <1>2, <1>3, AccountAdded DEF add, SInv
<1>6. Lists' = Lists
  BY DEF Lists, ListOf, HasList, add
<1>7. DoneSoFar(j)'
  BY <1>1, <1>3, <1>4, <1>5, <1>6
     DEF DoneSoFar, Untouched, add, disk, UsersOf, FriendListOf, KeysOf, HistoryOf, Halfway, Using,
         DirsOf, FilesOf, Drawn
<1>8. FoundOut(j)' /\ HasAtHand(j)'
  BY <1>2, <1>3, <1>4, <1>5
     DEF FoundOut, SigningUp, Befriending, Forgetting, HasAtHand, Using, Halfway, Drawn, Sends
<1>9. next_id' <= FirstId + started /\ UNCHANGED started
  BY DEF add, SInv
<1>. QED BY <1>3, <1>4, <1>5, <1>7, <1>8, <1>9, GoesHolds DEF Serves

\* The home directory is that of the account just listed (put_account).
LEMMA mkdirSteps ==
    ASSUME SInv, NEW w, Workers = {w}, mkdir(w) \/ sub(w), Ticks, IInv'
    PROVE  SInv' /\ Serves
<1>1. /\ job[w].pc \in {"mkdir", "sub"} /\ job[w] \in Busy /\ Typed /\ job[w].user \in Names
      /\ DoneSoFar(job[w]) /\ FoundOut(job[w]) /\ HasAtHand(job[w])
  BY Doing DEF mkdir, sub, At
<1>2. /\ job[w].op = "put_account" /\ job[w].user \notin committed.users
      /\ accounts # <<>> /\ Last(accounts) = [username |-> job[w].user, friend_list |-> <<>>]
  BY <1>1 DEF FoundOut, SigningUp
<1>3. \/ job[w].pc = "mkdir" /\ Goto(w, "sub") /\ dirs' = dirs \cup Prefixes(Path[job[w].user])
      \/ job[w].pc = "sub" /\ Goto(w, "newdict") /\ dirs' = dirs
  BY <1>2 DEF mkdir, sub, At, disk
<1>4. PICK j \in Busy :
         /\ job' = [job EXCEPT ![w] = j] /\ j.pc = (IF job[w].pc = "mkdir" THEN "sub" ELSE "newdict")
         /\ j.op = job[w].op /\ j.user = job[w].user
  <2>1. CASE Goto(w, "sub") /\ job[w].pc = "mkdir"
    BY <2>1, <1>1, Moves DEF PCs
  <2>2. CASE Goto(w, "newdict") /\ job[w].pc = "sub"
    BY <2>2, <1>1, Moves DEF PCs
  <2>. QED BY <1>3, <2>1, <2>2
<1>5. committed' = committed
  BY <1>4, NothingCommitted
<1>6. /\ UNCHANGED <<db, files, next_id, started>>
      /\ UNCHANGED <<Usernames, FriendLists, Lists>> /\ Orderly'
  BY SameTables DEF mkdir, sub, SInv, disk
<1>7. dirs' = committed.dirs \cup Prefixes(Path[j.user])
  BY <1>1, <1>3, <1>4 DEF DoneSoFar, DirsOf
<1>8. DoneSoFar(j)'
  BY <1>1, <1>4, <1>5, <1>6, <1>7
     DEF DoneSoFar, db, UsersOf, FriendListOf, KeysOf, HistoryOf, Halfway, Using,
         DirsOf, FilesOf, Drawn
<1>9. FoundOut(j)' /\ HasAtHand(j)'
  BY <1>2, <1>4, <1>5, <1>6
     DEF db, FoundOut, SigningUp, Befriending, Forgetting, HasAtHand, Using, Halfway, Drawn, Sends
<1>10. next_id' <= FirstId + started
  BY <1>6 DEF SInv
<1>. QED BY <1>4, <1>5, <1>6, <1>8, <1>9, <1>10, GoesHolds DEF Serves

\* The sign-up is complete: it is put_account of ChatServer.
LEMMA newdictSteps ==
    ASSUME SInv, NEW w, Workers = {w}, newdict(w), Ticks, IInv'
    PROVE  SInv' /\ Serves
<1>1. /\ job[w].pc = "newdict" /\ job[w] \in Busy /\ Typed /\ job[w].user \in Names
      /\ DoneSoFar(job[w]) /\ FoundOut(job[w])
  BY Doing DEF newdict, At
<1> DEFINE u == job[w].user
<1>2. job[w].op = "put_account" /\ u \notin committed.users
  BY <1>1 DEF FoundOut, SigningUp
<1>3. /\ Usernames = committed.users \cup {u} /\ FriendLists = committed.friend_list
      /\ Lists = committed.history /\ DOMAIN current = committed.users
      /\ \A x \in DOMAIN current : DOMAIN dicts[current[x]] = committed.friend_list[x]
      /\ dirs = committed.dirs \cup Prefixes(Path[u])
      /\ files = committed.files /\ next_id = committed.next_id
  BY <1>1 DEF DoneSoFar, UsersOf, FriendListOf, KeysOf, HistoryOf, Halfway, Using, DirsOf, FilesOf, Drawn
<1>4. /\ UNCHANGED <<accounts, disk, next_id, started>>
      /\ UNCHANGED <<Usernames, FriendLists>> /\ Orderly'
  BY DEF newdict, Usernames, FriendLists, FriendsOf, Orderly, UniqueUsernames, Username, SInv
<1>5. /\ DOMAIN current' = {u} \cup DOMAIN current
      /\ \A x \in DOMAIN current : current'[x] = current[x] /\ dicts'[current[x]] = dicts[current[x]]
      /\ dicts'[current'[u]] = <<>>
  <2>1. dicts \in Seq(Dict) /\ \A x \in DOMAIN current : current[x] \in DOMAIN dicts
    BY <1>1 DEF Typed
  <2>2. /\ Len(dicts') = Len(dicts) + 1 /\ dicts'[Len(dicts')] = <<>>
        /\ \A i \in DOMAIN dicts : dicts'[i] = dicts[i]
    BY <2>1 DEF newdict
  <2>. QED BY <1>2, <1>3, <2>1, <2>2 DEF newdict, SetItem
<1>6. DOMAIN <<>> = {}
  OBVIOUS
<1>7. committed.friend_list[u] = {} /\ Committed
  BY <1>1, <1>2 DEF SInv, Committed
<1>8. \A x \in DOMAIN current' : DOMAIN dicts'[current'[x]] = FriendLists'[x]
  BY <1>2, <1>3, <1>4, <1>5, <1>6, <1>7
<1>9. \A x, y \in Names : ListOf(x, y)' = ListOf(x, y)
  BY <1>2, <1>3, <1>5, <1>6 DEF ListOf, HasList
<1>10. Lists' = Lists
  BY <1>9 DEF Lists
<1>11. /\ SInv' /\ Told
       /\ reply' = [op |-> "put_account", by |-> u, status |-> "ok"]
  <2>1. next_id' <= FirstId + started /\ DOMAIN current' = Usernames'
    BY <1>3, <1>4, <1>5 DEF SInv
  <2>2. Answer(w, "ok") /\ job[w].pc # "idle" /\ started' = started
    BY <1>1 DEF newdict
  <2>3. /\ SInv' /\ Told
        /\ reply' = [op |-> job[w].op, by |-> job[w].user, status |-> "ok"]
    BY <1>4, <1>8, <2>1, <2>2, AnswerHolds
  <2>. QED BY <1>2, <2>3
<1>12. [committed.friend_list EXCEPT ![u] = {}] = committed.friend_list
  BY <1>7 DEF Committed
<1>13. [committed.history EXCEPT ![u] = [v \in Names |-> <<>>]] = committed.history
  <2>1. \A v \in Names : Lists[u][v] = <<>>
    BY <1>1, <1>2, <1>3 DEF Lists, ListOf, HasList
  <2>2. Lists[u] = [v \in Names |-> <<>>]
    BY <1>1, <2>1 DEF Lists
  <2>. QED BY <1>3, <1>7, <2>2 DEF Committed
<1>14. Server!put_account(u)
  BY <1>2, <1>3, <1>4, <1>10, <1>11, <1>12, <1>13, SamePaths DEF Told, disk, Server!put_account, Server!Answer
<1>. QED BY <1>1, <1>11, <1>14, ServerServes DEF Server!Serve

-----------------------------------------------------------------------------
(* put_friends and del_friends.                                             *)

\* The friend list of the caller is that of the account his token names.
LEMMA CallersFriends ==
    ASSUME SInv, NEW w \in Workers, job[w].pc \in Befriending \cup Forgetting
    PROVE  /\ job[w].token \in DOMAIN accounts /\ Username(job[w].token) = job[w].user
           /\ Friends(w) \in Seq(Names) /\ IsInjective(Friends(w))
           /\ ToSet(Friends(w)) \subseteq Usernames
           /\ job[w].user \in Usernames
           /\ FriendLists[job[w].user] = ToSet(Friends(w))
<1>1. Typed /\ FoundOut(job[w])
  BY Doing DEF Befriending, Forgetting
<1>2. job[w].token \in DOMAIN accounts /\ Username(job[w].token) = job[w].user
  BY <1>1 DEF FoundOut, Befriending, Forgetting, SigningUp
<1>. QED BY <1>1, <1>2, FriendsOfToken DEF SInv, Orderly, Friends

\* Nobody is befriended twice, and nobody who is no user (put_friends).
LEMMA checkSteps ==
    ASSUME SInv, NEW w, Workers = {w}, check(w), Ticks, IInv'
    PROVE  SInv' /\ Serves
<1>1. /\ job[w].pc = "check" /\ job[w] \in Busy /\ Typed
      /\ job[w].user \in Names /\ job[w].target \in Names
      /\ DoneSoFar(job[w]) /\ FoundOut(job[w]) /\ Untouched(job[w])
  BY Doing, NotYet DEF check, At
<1> DEFINE u == job[w].user
           v == job[w].target
<1>2. /\ job[w].op = "put_friends" /\ Usernames = committed.users
      /\ FriendLists = committed.friend_list
  BY <1>1 DEF FoundOut, Befriending, DoneSoFar, Untouched
<1>3. u \in committed.users /\ ToSet(Friends(w)) = committed.friend_list[u]
  BY <1>1, <1>2, CallersFriends DEF Befriending
<1>4. ASSUME NEW status, Answer(w, status)
      PROVE  SInv' /\ Server!Refuse("put_friends", u, status)
  BY <1>1, <1>2, <1>4, RefusesUntouched DEF check
<1>5. CASE v \notin Usernames /\ Answer(w, "not_found")
  <2>1. SInv' /\ Server!put_friends(u, v)
    BY <1>2, <1>3, <1>4, <1>5 DEF Server!put_friends
  <2>. QED BY <1>1, <2>1, ServerServes DEF Server!Serve
<1>6. CASE v \in ToSet(Friends(w)) /\ Answer(w, "dup")
  <2>1. SInv' /\ Server!put_friends(u, v)
    BY <1>2, <1>3, <1>4, <1>6 DEF Server!put_friends
  <2>. QED BY <1>1, <2>1, ServerServes DEF Server!Serve
<1>7. CASE v \in Usernames \ ToSet(Friends(w)) /\ Goto(w, "befriend")
  <2>1. PICK j \in Busy :
           /\ job' = [job EXCEPT ![w] = j] /\ j.pc = "befriend" /\ j.op = job[w].op
           /\ j.token = job[w].token /\ j.user = job[w].user /\ j.target = job[w].target
    BY <1>1, <1>7, Moves DEF PCs
  <2>2. committed' = committed
    BY <2>1, NothingCommitted
  <2>3. UNCHANGED <<accounts, Usernames, FriendLists, Lists, next_id, started>> /\ Orderly'
    BY SameTables DEF check, SInv, db
  <2>4. Untouched(j)'
    BY <2>1, <2>2 DEF Untouched, UsersOf, FriendListOf, KeysOf, HistoryOf, Halfway, Using,
        DirsOf, FilesOf, Drawn
  <2>5. DoneSoFar(j)'
    BY <1>1, <2>2, <2>3, <2>4 DEF DoneSoFar, Untouched, check, db, disk
  <2>6. job[w].token \in DOMAIN accounts /\ accounts[job[w].token].username = job[w].user
    BY <1>1, CallersFriends DEF Befriending, Username
  <2>7. FoundOut(j)' /\ HasAtHand(j)'
    BY <1>2, <1>3, <1>7, <2>1, <2>2, <2>3, <2>6
       DEF FoundOut, SigningUp, Befriending, Forgetting, Username, Has, HasAtHand, Using, Halfway, Drawn, Sends
  <2>8. next_id' <= FirstId + started
    BY <2>3 DEF SInv
  <2>. QED BY <2>1, <2>2, <2>3, <2>5, <2>7, <2>8, GoesHolds DEF Serves
<1>. QED BY <1>5, <1>6, <1>7 DEF check

\* The friend is listed before there is a list of messages (put_friends).
LEMMA befriendSteps ==
    ASSUME SInv, NEW w, Workers = {w}, befriend(w), Ticks, IInv'
    PROVE  SInv' /\ Serves
<1>1. /\ job[w].pc = "befriend" /\ job[w] \in Busy /\ Typed
      /\ job[w].user \in Names /\ job[w].target \in Names
      /\ DoneSoFar(job[w]) /\ FoundOut(job[w]) /\ Untouched(job[w])
  BY Doing, NotYet DEF befriend, At
<1> DEFINE u == job[w].user
           v == job[w].target
<1>2. /\ job[w].op = "put_friends" /\ Usernames = committed.users
      /\ FriendLists = committed.friend_list /\ v \in committed.users /\ ~ Has(u, v)
  BY <1>1 DEF FoundOut, Befriending, DoneSoFar, Untouched
<1>3. /\ job[w].token \in DOMAIN accounts /\ Username(job[w].token) = u
      /\ Friends(w) \in Seq(Names) /\ IsInjective(Friends(w))
      /\ ToSet(Friends(w)) \subseteq Usernames /\ ToSet(Friends(w)) = committed.friend_list[u]
  BY <1>1, <1>2, CallersFriends DEF Befriending
<1>4. PICK l : l = Append(Friends(w), v)
  OBVIOUS
<1>5. /\ l \in Seq(Names) /\ ToSet(l) = committed.friend_list[u] \cup {v} /\ IsInjective(l)
      /\ l # <<>> /\ Last(l) = v
  <2>1. l # <<>> /\ Last(l) = v
    BY <1>1, <1>3, <1>4 DEF Last
  <2>. QED BY <1>1, <1>2, <1>3, <1>4, <2>1, AppendGrows DEF Has
<1>6. accounts' = [accounts EXCEPT ![job[w].token].friend_list = l]
  BY <1>4 DEF befriend, Friends
<1>7. /\ Orderly' /\ Usernames' = Usernames
      /\ DOMAIN accounts' = DOMAIN accounts /\ accounts'[job[w].token].friend_list = l
      /\ accounts'[job[w].token].username = u
      /\ FriendLists' = [FriendLists EXCEPT ![u] = ToSet(l)]
  <2>1. ToSet(l) \subseteq Usernames
    BY <1>2, <1>3, <1>5
  <2>2. Typed /\ Orderly
    BY <1>1 DEF SInv
  <2>3. /\ Orderly' /\ Usernames' = Usernames
        /\ \A i \in DOMAIN accounts : Username(i)' = Username(i)
        /\ DOMAIN accounts' = DOMAIN accounts /\ accounts'[job[w].token].friend_list = l
        /\ FriendLists' = [FriendLists EXCEPT ![Username(job[w].token)] = ToSet(l)]
    BY <1>3, <1>5, <1>6, <2>1, <2>2, OneFriendListReplaced
  <2>. QED BY <1>3, <2>3 DEF Username
<1>8. PICK j \in Busy :
         /\ job' = [job EXCEPT ![w] = j] /\ j.pc = "newlist" /\ j.op = job[w].op
         /\ j.token = job[w].token /\ j.user = job[w].user /\ j.target = job[w].target
  BY <1>1, Moves DEF befriend, PCs
<1>9. committed' = committed
  BY <1>8, NothingCommitted
<1>10. Lists' = Lists
  BY DEF Lists, ListOf, HasList, befriend
<1>11. FriendLists' = FriendListOf(j)
  BY <1>2, <1>5, <1>7, <1>8 DEF FriendListOf
<1>12. DoneSoFar(j)'
  <2>1. FriendListOf(j)' = FriendListOf(j)
    BY <1>9 DEF FriendListOf
  <2>. QED BY <1>1, <1>2, <1>7, <1>8, <1>9, <1>10, <1>11, <2>1
     DEF DoneSoFar, Untouched, befriend, disk, UsersOf, KeysOf, HistoryOf, Halfway, Using,
         DirsOf, FilesOf, Drawn
<1>13. FoundOut(j)'
  BY <1>2, <1>3, <1>5, <1>7, <1>8, <1>9
     DEF FoundOut, SigningUp, Befriending, Forgetting, Has, Username
<1>14. HasAtHand(j)'
  BY <1>2, <1>8 DEF HasAtHand, Using, Halfway, Drawn, Sends
<1>15. next_id' <= FirstId + started /\ UNCHANGED started
  BY DEF befriend, SInv
<1>. QED BY <1>7, <1>8, <1>9, <1>12, <1>13, <1>14, <1>15, GoesHolds DEF Serves

\* The new friend gets an empty list of messages (put_friends).
LEMMA newlistSteps ==
    ASSUME SInv, NEW w, Workers = {w}, newlist(w), Ticks, IInv'
    PROVE  SInv' /\ Serves
<1>1. /\ job[w].pc = "newlist" /\ job[w] \in Busy /\ Typed
      /\ job[w].user \in Names /\ job[w].target \in Names
      /\ DoneSoFar(job[w]) /\ FoundOut(job[w])
  BY Doing DEF newlist, At
<1> DEFINE u == job[w].user
           v == job[w].target
<1>2. /\ Usernames = committed.users /\ Lists = committed.history
      /\ FriendLists = [committed.friend_list EXCEPT ![u] = @ \cup {v}]
      /\ DOMAIN current = committed.users
      /\ \A x \in DOMAIN current : DOMAIN dicts[current[x]] = committed.friend_list[x]
      /\ dirs = committed.dirs
      /\ files = committed.files /\ next_id = committed.next_id
  BY <1>1 DEF DoneSoFar, UsersOf, FriendListOf, KeysOf, HistoryOf, Halfway, Using, DirsOf, FilesOf, Drawn
<1>3. u \in DOMAIN current
  BY <1>1, <1>2, CallersFriends DEF Befriending
<1>4. PICK j \in Busy :
         /\ job' = [job EXCEPT ![w] = j] /\ j.pc = "mkdir_friend" /\ j.op = job[w].op
         /\ j.token = job[w].token /\ j.user = job[w].user /\ j.target = job[w].target
  BY <1>1, <1>3, Moves DEF newlist, PCs
<1>5. committed' = committed /\ Committed
  BY <1>4, NothingCommitted DEF SInv
<1>6. PICK d : d = SetItem(dicts[current[u]], v, <<>>)
  OBVIOUS
<1>7. dicts' = [dicts EXCEPT ![current[u]] = d]
  BY <1>3, <1>6 DEF newlist
<1>8. /\ DOMAIN d = {v} \cup DOMAIN dicts[current[u]] /\ d[v] = <<>>
      /\ \A x \in DOMAIN d : x # v => d[x] = dicts[current[u]][x]
  BY <1>6 DEF SetItem
<1>9. /\ DOMAIN dicts'[current'[u]] = DOMAIN d
      /\ \A x \in DOMAIN current : x # u => dicts'[current'[x]] = dicts[current[x]]
      /\ \A x, y \in Names :
            Lists'[x][y] = IF x = u THEN IF y \in DOMAIN d THEN d[y] ELSE <<>> ELSE Lists[x][y]
  <2>1. PICK a \in DOMAIN current : a = u
    BY <1>3
  <2>2. IInv /\ current' = current /\ dicts' = [dicts EXCEPT ![current[a]] = d]
    BY <1>7, <2>1 DEF newlist, SInv
  <2>3. /\ DOMAIN dicts'[current'[a]] = DOMAIN d
        /\ \A x \in DOMAIN current : x # a => dicts'[current'[x]] = dicts[current[x]]
    BY <2>2, OneDictReplaced
  <2>4. \A x, y \in Names :
           Lists'[x][y] = IF x = a THEN IF y \in DOMAIN d THEN d[y] ELSE <<>> ELSE Lists[x][y]
    BY <2>2, OneDictReplaced
  <2>. QED BY <2>1, <2>3, <2>4
<1>10. \A x, y \in Names :
          Lists'[x][y] = IF x = u /\ y = v THEN <<>> ELSE Lists[x][y]
  <2>1. \A y \in Names : Lists[u][y] = IF y \in DOMAIN dicts[current[u]] THEN dicts[current[u]][y] ELSE <<>>
    BY <1>1, <1>3 DEF Lists, ListOf, HasList
  <2>. QED BY <1>1, <1>8, <1>9, <2>1
<1>11. Lists' = [committed.history EXCEPT ![u][v] = <<>>]
  <2>1. PICK a \in Names, b \in Names : a = u /\ b = v
    BY <1>1
  <2>2. Lists' = [Lists EXCEPT ![a][b] = <<>>]
    <3>1. \A x, y \in Names : Lists'[x][y] = IF x = a /\ y = b THEN <<>> ELSE Lists[x][y]
      BY <1>10, <2>1
    <3>. QED BY <3>1, OneEntryReplaced
  <2>. QED BY <1>2, <2>1, <2>2
<1>12. /\ UNCHANGED <<accounts, current, disk, next_id, started>>
       /\ UNCHANGED <<Usernames, FriendLists>> /\ Orderly'
  BY DEF newlist, Usernames, FriendLists, FriendsOf, Orderly, UniqueUsernames, Username, SInv
<1>13. \A x \in DOMAIN current : DOMAIN dicts'[current'[x]] = FriendLists[x]
  <2>. SUFFICES ASSUME NEW x \in DOMAIN current PROVE DOMAIN dicts'[current'[x]] = FriendLists[x]
    OBVIOUS
  <2>1. x \in Names /\ committed.friend_list \in [Names -> SUBSET committed.users]
    BY <1>2, <1>5 DEF Committed
  <2>2. CASE x = u
    <3>1. FriendLists[u] = committed.friend_list[u] \cup {v}
      BY <1>1, <1>2, <2>1
    <3>2. DOMAIN dicts'[current'[u]] = {v} \cup committed.friend_list[u]
      BY <1>2, <1>3, <1>8, <1>9
    <3>. QED BY <2>2, <3>1, <3>2
  <2>3. CASE x # u
    BY <1>2, <1>9, <2>1, <2>3
  <2>. QED BY <2>2, <2>3
<1>14. DoneSoFar(j)'
  <2>1. FriendListOf(j)' = FriendLists /\ KeysOf(j)' = FriendLists
    BY <1>2, <1>4, <1>5 DEF FriendListOf, KeysOf
  <2>2. HistoryOf(j)' = Lists'
    BY <1>4, <1>5, <1>11 DEF HistoryOf
  <2>. QED BY <1>2, <1>4, <1>5, <1>12, <1>13, <2>1, <2>2
     DEF DoneSoFar, UsersOf, Halfway, Using, disk, DirsOf, FilesOf, Drawn
<1>15. FoundOut(j)' /\ HasAtHand(j)'
  BY <1>1, <1>4, <1>5, <1>12
     DEF FoundOut, SigningUp, Befriending, Forgetting, Has, Username, HasAtHand, Using, Halfway, Drawn, Sends
<1>16. next_id' <= FirstId + started
  BY <1>12 DEF SInv
<1>. QED BY <1>4, <1>5, <1>12, <1>14, <1>15, <1>16, GoesHolds DEF Serves

\* The friend is made: it is put_friends of ChatServer.
LEMMA mkdir_friendSteps ==
    ASSUME SInv, NEW w, Workers = {w}, mkdir_friend(w), Ticks, IInv'
    PROVE  SInv' /\ Serves
<1>1. /\ job[w].pc = "mkdir_friend" /\ job[w] \in Busy
      /\ job[w].user \in Names /\ job[w].target \in Names
      /\ DoneSoFar(job[w]) /\ FoundOut(job[w])
  BY Doing DEF mkdir_friend, At
<1> DEFINE u == job[w].user
           v == job[w].target
<1>2. /\ job[w].op = "put_friends" /\ v \in committed.users /\ ~ Has(u, v)
      /\ Friends(w) # <<>> /\ Last(Friends(w)) = v
  BY <1>1 DEF FoundOut, Befriending, Friends
<1>3. Answer(w, "ok") /\ dirs' = dirs \cup Prefixes(Path[v]) /\ UNCHANGED <<db, files, next_id, started>>
  BY <1>2 DEF mkdir_friend
<1>4. UsersOf(job[w]) = committed.users /\ KeysOf(job[w]) = FriendListOf(job[w])
  BY <1>1 DEF UsersOf, KeysOf
<1>5. /\ SInv' /\ Told /\ reply' = [op |-> "put_friends", by |-> u, status |-> "ok"]
      /\ Usernames' = committed.users /\ FriendLists' = FriendListOf(job[w])
      /\ Lists' = HistoryOf(job[w])
  <2>1. job[w].pc # "idle" /\ UNCHANGED <<db, next_id, started>>
    BY <1>1, <1>3
  <2>. QED BY <1>2, <1>3, <1>4, <2>1, AnswersAsIs
<1>6. u \in committed.users
  BY <1>1, <1>4, CallersFriends DEF Befriending, DoneSoFar
<1>7. /\ dirs = committed.dirs
      /\ files = committed.files /\ next_id = committed.next_id
  BY <1>1 DEF DoneSoFar, Halfway, Using, DirsOf, FilesOf, Drawn
<1>8. Server!put_friends(u, v)
  BY <1>1, <1>2, <1>3, <1>5, <1>6, <1>7, SamePaths
     DEF Told, Has, FriendListOf, HistoryOf, Server!put_friends, Server!Answer
<1>. QED BY <1>1, <1>5, <1>8, ServerServes DEF Server!Serve

\* The friend is off the list before the messages go (del_friends).
LEMMA forgetSteps ==
    ASSUME SInv, NEW w, Workers = {w}, forget(w), Ticks, IInv'
    PROVE  SInv' /\ Serves
<1>1. /\ job[w].pc = "forget" /\ job[w] \in Busy /\ Typed
      /\ job[w].user \in Names /\ job[w].target \in Names
      /\ DoneSoFar(job[w]) /\ FoundOut(job[w]) /\ Untouched(job[w])
  BY Doing, NotYet DEF forget, At
<1> DEFINE u == job[w].user
           v == job[w].target
<1>2. /\ job[w].op = "del_friends" /\ Usernames = committed.users
      /\ FriendLists = committed.friend_list
  BY <1>1 DEF FoundOut, Forgetting, DoneSoFar, Untouched
<1>3. /\ job[w].token \in DOMAIN accounts /\ Username(job[w].token) = u
      /\ Friends(w) \in Seq(Names) /\ IsInjective(Friends(w)) /\ u \in committed.users
      /\ ToSet(Friends(w)) \subseteq Usernames /\ ToSet(Friends(w)) = committed.friend_list[u]
  BY <1>1, <1>2, CallersFriends DEF Forgetting
<1>4. CASE v \notin ToSet(Friends(w))
  <2>1. Answer(w, "exception") /\ UNCHANGED <<db, disk, next_id, started>> /\ job[w].pc # "idle"
    BY <1>1, <1>4 DEF forget, db
  <2>2. SInv' /\ Server!Refuse("del_friends", u, "exception")
    BY <1>1, <1>2, <2>1, RefusesUntouched
  <2>3. Server!del_friends(u, v)
    BY <1>3, <1>4, <2>2 DEF Server!del_friends
  <2>. QED BY <1>1, <2>2, <2>3, ServerServes DEF Server!Serve
<1>5. CASE v \in ToSet(Friends(w))
  <2>1. PICK l : l = RemoveFirst(Friends(w), v)
    OBVIOUS
  <2>2. l \in Seq(Names) /\ IsInjective(l) /\ ToSet(l) = committed.friend_list[u] \ {v}
    BY <1>3, <1>5, <2>1, RemoveFirstDrops
  <2>3. accounts' = [accounts EXCEPT ![job[w].token].friend_list = l]
    BY <1>5, <2>1 DEF forget, Friends
  <2>4. /\ Orderly' /\ Usernames' = Usernames
        /\ DOMAIN accounts' = DOMAIN accounts /\ accounts'[job[w].token].friend_list = l
        /\ accounts'[job[w].token].username = u
        /\ FriendLists' = [FriendLists EXCEPT ![u] = ToSet(l)]
    <3>1. ToSet(l) \subseteq Usernames /\ Typed /\ Orderly
      BY <1>1, <1>3, <2>2 DEF SInv
    <3>2. /\ Orderly' /\ Usernames' = Usernames
          /\ \A i \in DOMAIN accounts : Username(i)' = Username(i)
          /\ DOMAIN accounts' = DOMAIN accounts /\ accounts'[job[w].token].friend_list = l
          /\ FriendLists' = [FriendLists EXCEPT ![Username(job[w].token)] = ToSet(l)]
      BY <1>3, <2>2, <2>3, <3>1, OneFriendListReplaced
    <3>. QED BY <1>3, <3>2 DEF Username
  <2>5. PICK j \in Busy :
           /\ job' = [job EXCEPT ![w] = j] /\ j.pc = "drop" /\ j.op = job[w].op
           /\ j.token = job[w].token /\ j.user = job[w].user /\ j.target = job[w].target
    BY <1>1, <1>5, Moves DEF forget, PCs
  <2>6. committed' = committed
    BY <2>5, NothingCommitted
  <2>7. Lists' = Lists
    BY DEF Lists, ListOf, HasList, forget
  <2>8. FriendLists' = FriendListOf(j)'
    BY <1>2, <2>2, <2>4, <2>5, <2>6 DEF FriendListOf
  <2>9. DoneSoFar(j)'
    BY <1>1, <1>2, <2>4, <2>5, <2>6, <2>7, <2>8
       DEF DoneSoFar, Untouched, forget, disk, UsersOf, KeysOf, HistoryOf, Halfway, Using,
           DirsOf, FilesOf, Drawn
  <2>10. FoundOut(j)'
    BY <1>2, <1>3, <1>5, <2>4, <2>5, <2>6
       DEF FoundOut, SigningUp, Befriending, Forgetting, Has, Username
  <2>11. HasAtHand(j)'
    BY <1>2, <2>5 DEF HasAtHand, Using, Halfway, Drawn, Sends
  <2>12. next_id' <= FirstId + started /\ UNCHANGED started
    BY DEF forget, SInv
  <2>. QED BY <2>4, <2>5, <2>6, <2>9, <2>10, <2>11, <2>12, GoesHolds DEF Serves
<1>. QED BY <1>4, <1>5

\* The messages go with the key (del_friends): there always is one.
LEMMA dropSteps ==
    ASSUME SInv, NEW w, Workers = {w}, drop(w), Ticks, IInv'
    PROVE  SInv' /\ Serves
<1>1. /\ job[w].pc = "drop" /\ job[w] \in Busy /\ Typed
      /\ job[w].user \in Names /\ job[w].target \in Names
      /\ DoneSoFar(job[w]) /\ FoundOut(job[w])
  BY Doing DEF drop, At
<1> DEFINE u == job[w].user
           v == job[w].target
<1>2. /\ Usernames = committed.users /\ Lists = committed.history
      /\ FriendLists = [committed.friend_list EXCEPT ![u] = @ \ {v}]
      /\ DOMAIN current = committed.users
      /\ \A x \in DOMAIN current : DOMAIN dicts[current[x]] = committed.friend_list[x]
      /\ dirs = committed.dirs
      /\ files = committed.files /\ next_id = committed.next_id
  BY <1>1 DEF DoneSoFar, UsersOf, FriendListOf, KeysOf, HistoryOf, Halfway, Using, DirsOf, FilesOf, Drawn
<1>3. u \in DOMAIN current /\ Has(u, v) /\ HasList(u, v)
  <2>1. u \in DOMAIN current
    BY <1>1, <1>2, CallersFriends DEF Forgetting
  <2>2. Has(u, v)
    BY <1>1 DEF FoundOut
  <2>. QED BY <1>2, <2>1, <2>2 DEF Has, HasList
<1>4. PICK j \in Busy :
         /\ job' = [job EXCEPT ![w] = j] /\ j.pc = "rmtree" /\ j.op = job[w].op
         /\ j.token = job[w].token /\ j.user = job[w].user /\ j.target = job[w].target
  BY <1>1, <1>3, Moves DEF drop, PCs
<1>5. committed' = committed /\ Committed
  BY <1>4, NothingCommitted DEF SInv
<1>6. PICK d : d = Restrict(dicts[current[u]], DOMAIN dicts[current[u]] \ {v})
  OBVIOUS
<1>7. dicts' = [dicts EXCEPT ![current[u]] = d]
  BY <1>3, <1>6 DEF drop
<1>8. /\ DOMAIN d = DOMAIN dicts[current[u]] \ {v}
      /\ \A x \in DOMAIN d : d[x] = dicts[current[u]][x]
  BY <1>6 DEF Restrict
<1>9. /\ DOMAIN dicts'[current'[u]] = DOMAIN d
      /\ \A x \in DOMAIN current : x # u => dicts'[current'[x]] = dicts[current[x]]
      /\ \A x, y \in Names :
            Lists'[x][y] = IF x = u THEN IF y \in DOMAIN d THEN d[y] ELSE <<>> ELSE Lists[x][y]
  <2>1. PICK a \in DOMAIN current : a = u
    BY <1>3
  <2>2. IInv /\ current' = current /\ dicts' = [dicts EXCEPT ![current[a]] = d]
    BY <1>7, <2>1 DEF drop, SInv
  <2>3. /\ DOMAIN dicts'[current'[a]] = DOMAIN d
        /\ \A x \in DOMAIN current : x # a => dicts'[current'[x]] = dicts[current[x]]
    BY <2>2, OneDictReplaced
  <2>4. \A x, y \in Names :
           Lists'[x][y] = IF x = a THEN IF y \in DOMAIN d THEN d[y] ELSE <<>> ELSE Lists[x][y]
    BY <2>2, OneDictReplaced
  <2>. QED BY <2>1, <2>3, <2>4
<1>10. \A x, y \in Names :
          Lists'[x][y] = IF x = u /\ y = v THEN <<>> ELSE Lists[x][y]
  <2>1. \A y \in Names : Lists[u][y] = IF y \in DOMAIN dicts[current[u]] THEN dicts[current[u]][y] ELSE <<>>
    BY <1>1, <1>3 DEF Lists, ListOf, HasList
  <2>. QED BY <1>1, <1>8, <1>9, <2>1
<1>11. Lists' = [committed.history EXCEPT ![u][v] = <<>>]
  <2>1. PICK a \in Names, b \in Names : a = u /\ b = v
    BY <1>1
  <2>2. Lists' = [Lists EXCEPT ![a][b] = <<>>]
    <3>1. \A x, y \in Names : Lists'[x][y] = IF x = a /\ y = b THEN <<>> ELSE Lists[x][y]
      BY <1>10, <2>1
    <3>. QED BY <3>1, OneEntryReplaced
  <2>. QED BY <1>2, <2>1, <2>2
<1>12. /\ UNCHANGED <<accounts, current, disk, next_id, started>>
       /\ UNCHANGED <<Usernames, FriendLists>> /\ Orderly'
  BY DEF drop, Usernames, FriendLists, FriendsOf, Orderly, UniqueUsernames, Username, SInv
<1>13. \A x \in DOMAIN current : DOMAIN dicts'[current'[x]] = FriendLists[x]
  <2>. SUFFICES ASSUME NEW x \in DOMAIN current PROVE DOMAIN dicts'[current'[x]] = FriendLists[x]
    OBVIOUS
  <2>1. x \in Names /\ committed.friend_list \in [Names -> SUBSET committed.users]
    BY <1>2, <1>5 DEF Committed
  <2>2. CASE x = u
    <3>1. FriendLists[u] = committed.friend_list[u] \ {v}
      BY <1>1, <1>2, <2>1
    <3>2. DOMAIN dicts'[current'[u]] = committed.friend_list[u] \ {v}
      BY <1>2, <1>3, <1>8, <1>9
    <3>. QED BY <2>2, <3>1, <3>2
  <2>3. CASE x # u
    BY <1>2, <1>9, <2>1, <2>3
  <2>. QED BY <2>2, <2>3
<1>14. DoneSoFar(j)'
  <2>1. FriendListOf(j)' = FriendLists /\ KeysOf(j)' = FriendLists
    BY <1>2, <1>4, <1>5 DEF FriendListOf, KeysOf
  <2>2. HistoryOf(j)' = Lists'
    BY <1>4, <1>5, <1>11 DEF HistoryOf
  <2>. QED BY <1>2, <1>4, <1>5, <1>12, <1>13, <2>1, <2>2
     DEF DoneSoFar, UsersOf, Halfway, Using, disk, DirsOf, FilesOf, Drawn
<1>15. FoundOut(j)' /\ HasAtHand(j)'
  BY <1>1, <1>4, <1>5, <1>12
     DEF FoundOut, SigningUp, Befriending, Forgetting, Has, Username, HasAtHand, Using, Halfway, Drawn, Sends
<1>16. next_id' <= FirstId + started
  BY <1>12 DEF SInv
<1>. QED BY <1>4, <1>5, <1>12, <1>14, <1>15, <1>16, GoesHolds DEF Serves

\* The caller's directory goes, if it is there: it is del_friends of ChatServer.
LEMMA rmtreeSteps ==
    ASSUME SInv, NEW w, Workers = {w}, rmtree(w), Ticks, IInv'
    PROVE  SInv' /\ Serves
<1>1. /\ job[w].pc = "rmtree" /\ job[w].pc # "idle" /\ job[w] \in Busy
      /\ job[w].user \in Names /\ job[w].target \in Names
      /\ DoneSoFar(job[w]) /\ FoundOut(job[w])
  BY Doing DEF rmtree, At
<1> DEFINE u == job[w].user
           v == job[w].target
<1>2. job[w].op = "del_friends" /\ Has(u, v)
  BY <1>1 DEF FoundOut, Forgetting
<1>3. UsersOf(job[w]) = committed.users /\ KeysOf(job[w]) = FriendListOf(job[w])
  BY <1>1 DEF UsersOf, KeysOf
<1>4. UNCHANGED <<db, next_id, started>>
  BY DEF rmtree
<1>5. ASSUME NEW status, Answer(w, status)
      PROVE  /\ SInv' /\ Told /\ reply' = [op |-> "del_friends", by |-> u, status |-> status]
             /\ Usernames' = committed.users /\ FriendLists' = FriendListOf(job[w])
             /\ Lists' = HistoryOf(job[w])
  BY <1>1, <1>2, <1>3, <1>4, <1>5, AnswersAsIs
<1>6. /\ dirs = committed.dirs
      /\ files = committed.files /\ next_id = committed.next_id
  BY <1>1 DEF DoneSoFar, Halfway, Using, DirsOf, FilesOf, Drawn
<1>7. ASSUME NEW status, SInv' /\ Told, reply' = [op |-> "del_friends", by |-> u, status |-> status],
             Usernames' = committed.users, FriendLists' = FriendListOf(job[w]),
             Lists' = HistoryOf(job[w]),
             \/ Path[u] \in dirs /\ status = "ok"
                /\ dirs' = {p \in dirs : ~ IsPrefix(Path[u], p)}
                /\ files' = {f \in files : ~ IsPrefix(Path[u], ChatDir(f[1], f[2]))}
             \/ Path[u] \notin dirs /\ status = "error" /\ UNCHANGED disk
      PROVE  SInv' /\ Server!del_friends(u, v)
  BY <1>1, <1>2, <1>4, <1>6, <1>7, SamePaths
     DEF Told, Has, FriendListOf, HistoryOf, disk, Server!del_friends, Server!Answer, Server!rmtree
<1>8. SInv' /\ Server!del_friends(u, v)
  <2>1. CASE Path[u] \in dirs /\ Answer(w, "ok")
    BY <1>5, <1>7, <2>1 DEF rmtree
  <2>2. CASE Path[u] \notin dirs /\ Answer(w, "error")
    BY <1>5, <1>7, <2>2 DEF rmtree
  <2>. QED BY <2>1, <2>2 DEF rmtree
<1>. QED BY <1>1, <1>8, ServerServes DEF Server!Serve

-----------------------------------------------------------------------------
(* put_messages, put_messages_file and del_messages: the list at hand.      *)

\* Whose list is at hand, and about whom.
Owner(j) == IF j.side = "self" THEN j.user ELSE j.target
Key(j) == IF j.side = "self" THEN j.target ELSE j.user

Chats == Using \cup {"lookup"}

\* While a request about messages runs, accounts and keys are those of the last answer.
LEMMA Chatting ==
    ASSUME SInv, NEW w \in Workers, job[w].pc \in Chats
    PROVE  /\ job[w] \in Busy /\ job[w].pc # "idle" /\ Typed /\ Committed
           /\ job[w].user \in Names /\ job[w].target \in Names
           /\ job[w].op \in Sends \cup {"del_messages"}
           /\ job[w].user \in committed.users /\ DOMAIN current = committed.users
           /\ Usernames = committed.users /\ FriendLists = committed.friend_list
           /\ \A x \in DOMAIN current : DOMAIN dicts[current[x]] = committed.friend_list[x]
           /\ dirs = committed.dirs
           /\ Lists = HistoryOf(job[w]) /\ files = FilesOf(job[w])
           /\ UsersOf(job[w]) = committed.users /\ KeysOf(job[w]) = FriendListOf(job[w])
           /\ next_id = IF Drawn(job[w]) THEN committed.next_id + 1 ELSE committed.next_id
<1>1. /\ job[w] \in Busy /\ job[w].pc # "idle" /\ Typed /\ Committed
      /\ job[w].user \in Names /\ job[w].target \in Names
      /\ DoneSoFar(job[w]) /\ FoundOut(job[w]) /\ HasAtHand(job[w])
  BY Doing DEF Chats, Using, SInv
<1>2. job[w].op \in Sends \cup {"del_messages"}
  BY <1>1 DEF HasAtHand, Chats
<1>3. /\ UsersOf(job[w]) = committed.users /\ FriendListOf(job[w]) = committed.friend_list
      /\ KeysOf(job[w]) = committed.friend_list /\ DirsOf(job[w]) = committed.dirs
  BY DEF UsersOf, FriendListOf, KeysOf, DirsOf, Chats, Using
<1>4. job[w].token \in DOMAIN accounts /\ Username(job[w].token) = job[w].user
  BY <1>1 DEF FoundOut, SigningUp, Chats, Using
<1>5. job[w].user \in Usernames
  BY <1>1, <1>4, FriendsOfToken DEF SInv, Orderly
<1>. QED BY <1>1, <1>2, <1>3, <1>5 DEF DoneSoFar

\* Between two friends there is a list, and nowhere else.
LEMMA ListsOfFriends ==
    ASSUME SInv, NEW w \in Workers, job[w].pc \in Chats, NEW x \in Names, NEW y
    PROVE  HasList(x, y) <=> Has(x, y)
BY Chatting DEF HasList, Has, Committed

\* A friend is a user.
LEMMA FriendsAreUsers ==
    ASSUME SInv, NEW w \in Workers, job[w].pc \in Chats, NEW x \in Names, NEW y, Has(x, y)
    PROVE  y \in DOMAIN current /\ x \in DOMAIN current
BY Chatting DEF Has, Committed

\* The list at hand is that of its owner, if he has one.
LEMMA TheListAtHand ==
    ASSUME SInv, NEW w \in Workers, job[w].pc \in Using
    PROVE  /\ Owner(job[w]) \in Names /\ Key(job[w]) \in Names /\ job[w].key = Key(job[w])
           /\ job[w].side \in {"self", "opposite"}
           /\ Owner(job[w]) \in DOMAIN current =>
                 /\ job[w].dict = current[Owner(job[w])] /\ job[w].dict \in DOMAIN dicts
                 /\ job[w].dict # 0 /\ (Listed(w) <=> Has(Owner(job[w]), Key(job[w])))
           /\ Owner(job[w]) \notin DOMAIN current => job[w].dict = 0 /\ job[w].pc = "known"
<1>1. /\ job[w] \in Busy /\ Typed /\ job[w].user \in Names /\ job[w].target \in Names
      /\ \A x \in DOMAIN current : DOMAIN dicts[current[x]] = committed.friend_list[x]
  BY Chatting DEF Chats
<1>2. HasAtHand(job[w])
  BY Doing DEF Using
<1>3. /\ \/ job[w].side = "self" /\ job[w].key = job[w].target
         \/ job[w].side = "opposite" /\ job[w].key = job[w].user
      /\ job[w].pc # "known" => job[w].dict \in DOMAIN dicts
  BY DEF SInv, IInv, Owned, JobOK, UsesItsList
<1>4. job[w].key = Key(job[w]) /\ Owner(job[w]) \in Names /\ Key(job[w]) \in Names
  BY <1>1, <1>3 DEF Owner, Key
<1>5. job[w].dict = IF Owner(job[w]) \in DOMAIN current THEN current[Owner(job[w])] ELSE 0
  BY <1>2 DEF HasAtHand, Owner
<1>6. /\ \A x \in DOMAIN current : current[x] \in DOMAIN dicts
      /\ 0 \notin DOMAIN dicts
  BY <1>1 DEF Typed
<1>. QED BY <1>1, <1>3, <1>4, <1>5, <1>6 DEF Listed, Has

\* The list at hand, if there is one.
LEMMA AtHandIs ==
    ASSUME SInv, NEW w \in Workers, job[w].pc \in Using, Has(Owner(job[w]), Key(job[w]))
    PROVE  /\ Owner(job[w]) \in DOMAIN current /\ Listed(w) /\ HasList(Owner(job[w]), Key(job[w]))
           /\ job[w].dict = current[Owner(job[w])]
           /\ AtHand(w) = Lists[Owner(job[w])][Key(job[w])] /\ AtHand(w) \in Seq(Message)
<1>1. /\ Owner(job[w]) \in Names /\ Key(job[w]) \in Names /\ job[w].key = Key(job[w])
      /\ Owner(job[w]) \in DOMAIN current =>
            /\ job[w].dict = current[Owner(job[w])] /\ job[w].dict \in DOMAIN dicts
            /\ (Listed(w) <=> Has(Owner(job[w]), Key(job[w])))
  BY TheListAtHand
<1>2. Owner(job[w]) \in DOMAIN current
  BY <1>1, FriendsAreUsers DEF Chats
<1>3. HasList(Owner(job[w]), Key(job[w]))
  BY <1>1, ListsOfFriends DEF Chats
<1>4. AtHand(w) = Lists[Owner(job[w])][Key(job[w])]
  BY <1>1, <1>2, <1>3 DEF AtHand, Lists, ListOf
<1>5. AtHand(w) \in Seq(Message)
  BY <1>1, <1>2, Chatting, Dicts DEF AtHand, Listed, Chats
<1>. QED BY <1>1, <1>2, <1>3, <1>4, <1>5

\* The tables hold lists of messages.
LEMMA ListsTyped ==
    ASSUME IInv
    PROVE  Lists \in [Names -> [Names -> Seq(Message)]]
<1>1. ASSUME NEW u \in Names, NEW v \in Names PROVE ListOf(u, v) \in Seq(Message)
  <2>1. CASE HasList(u, v)
    <3>1. current[u] \in DOMAIN dicts /\ dicts \in Seq(Dict) /\ v \in DOMAIN dicts[current[u]]
      BY <2>1 DEF HasList, IInv, Typed
    <3>2. dicts[current[u]] \in Dict
      BY <3>1
    <3>. QED BY <2>1, <3>1, <3>2 DEF ListOf, Dict
  <2>2. CASE ~ HasList(u, v)
    BY <2>2 DEF ListOf
  <2>. QED BY <2>1, <2>2
<1>. QED BY <1>1 DEF Lists

\* The request goes on with its list.
LEMMA ChatGoes ==
    ASSUME SInv, NEW w, Workers = {w}, job[w].pc \in Chats, NEW j \in Busy,
           job' = [job EXCEPT ![w] = j], Ticks, IInv',
           UNCHANGED <<accounts, current, dirs, started>>,
           j.pc \in Using, j.token = job[w].token, j.user = job[w].user,
           \A x \in DOMAIN current : DOMAIN dicts'[current'[x]] = DOMAIN dicts[current[x]],
           Lists' = HistoryOf(j), files' = FilesOf(j),
           next_id' = IF Drawn(j) THEN committed.next_id + 1 ELSE committed.next_id,
           next_id' <= FirstId + started, HasAtHand(j)'
    PROVE  SInv' /\ Serves
<1>1. committed' = committed
  BY NothingCommitted
<1>2. /\ Usernames = committed.users /\ FriendLists = committed.friend_list
      /\ DOMAIN current = committed.users
      /\ \A x \in DOMAIN current : DOMAIN dicts[current[x]] = committed.friend_list[x]
      /\ dirs = committed.dirs
  BY Chatting
<1>3. UNCHANGED <<Usernames, FriendLists>> /\ Orderly'
  BY DEF Usernames, FriendLists, FriendsOf, Orderly, UniqueUsernames, Username, SInv
<1>4. /\ UsersOf(j) = committed.users /\ FriendListOf(j) = committed.friend_list
      /\ KeysOf(j) = committed.friend_list /\ DirsOf(j) = committed.dirs
  BY DEF UsersOf, FriendListOf, KeysOf, DirsOf, Using
<1>5. /\ UsersOf(j)' = UsersOf(j) /\ FriendListOf(j)' = FriendListOf(j) /\ KeysOf(j)' = KeysOf(j)
      /\ DirsOf(j)' = DirsOf(j) /\ FilesOf(j)' = FilesOf(j) /\ HistoryOf(j)' = HistoryOf(j)
  <2>1. /\ UsersOf(j)' = UsersOf(j) /\ FriendListOf(j)' = FriendListOf(j) /\ KeysOf(j)' = KeysOf(j)
        /\ DirsOf(j)' = DirsOf(j)
    BY <1>1 DEF UsersOf, FriendListOf, KeysOf, DirsOf
  <2>2. FilesOf(j)' = FilesOf(j)
    BY <1>1 DEF FilesOf, PathsOf
  <2>3. HistoryOf(j)' = HistoryOf(j)
    BY <1>1 DEF HistoryOf
  <2>. QED BY <2>1, <2>2, <2>3
<1>6. DoneSoFar(j)'
  BY <1>1, <1>2, <1>3, <1>4, <1>5 DEF DoneSoFar, Drawn
<1>7. FoundOut(j)'
  <2>1. job[w].token \in DOMAIN accounts /\ Username(job[w].token) = job[w].user
    BY Doing DEF FoundOut, SigningUp, Chats, Using
  <2>. QED BY <2>1 DEF FoundOut, SigningUp, Befriending, Forgetting, Using, Username
<1>8. j.pc # "lookup"
  BY DEF Using
<1>. QED BY <1>1, <1>3, <1>6, <1>7, <1>8, GoesHolds DEF Serves

\* The request is answered.
LEMMA ChatAnswers ==
    ASSUME SInv, NEW w, Workers = {w}, job[w].pc \in Chats, NEW status, Answer(w, status),
           Ticks, IInv', UNCHANGED <<accounts, current, next_id, started>>,
           \A x \in DOMAIN current : DOMAIN dicts'[current'[x]] = DOMAIN dicts[current[x]]
    PROVE  /\ SInv' /\ Told
           /\ reply' = [op |-> job[w].op, by |-> job[w].user, status |-> status]
           /\ committed'.users = committed.users /\ committed'.friend_list = committed.friend_list
           /\ dirs = committed.dirs
<1>1. /\ Usernames = committed.users /\ FriendLists = committed.friend_list
      /\ DOMAIN current = committed.users /\ job[w].pc # "idle"
      /\ \A x \in DOMAIN current : DOMAIN dicts[current[x]] = committed.friend_list[x]
      /\ dirs = committed.dirs
  BY Chatting
<1>2. UNCHANGED <<Usernames, FriendLists>> /\ Orderly'
  BY DEF Usernames, FriendLists, FriendsOf, Orderly, UniqueUsernames, Username, SInv
<1>3. /\ DOMAIN current' = Usernames'
      /\ \A x \in DOMAIN current' : DOMAIN dicts'[current'[x]] = FriendLists'[x]
  BY <1>1, <1>2
<1>4. next_id' <= FirstId + started
  BY DEF SInv
<1>5. SInv' /\ Told /\ reply' = [op |-> job[w].op, by |-> job[w].user, status |-> status]
  BY <1>1, <1>2, <1>3, <1>4, AnswerHolds
<1>. QED BY <1>1, <1>2, <1>5 DEF Told

\* No id beyond the bound of ChatServer has been drawn.
LEMMA IdsLeft ==
    ASSUME SInv, NEW w \in Workers, job[w].pc \in Using
    PROVE  Drawn(job[w]) => committed.next_id <= MaxId
<1>1. next_id = IF Drawn(job[w]) THEN committed.next_id + 1 ELSE committed.next_id
  BY Chatting DEF Chats
<1>2. started \in 0 .. MaxStarted /\ next_id <= FirstId + started /\ committed.next_id \in Nat
  BY DEF SInv, Committed
<1>. QED BY <1>1, <1>2, SerialAssumption, SeedMessagesAssumption

\* Nor is one beyond it unsent.
LEMMA IdInBound ==
    ASSUME SInv, NEW w \in Workers, job[w].pc \in Chats, job[w].op = "del_messages"
    PROVE  /\ Server!MayUnsend(job[w].user, job[w].target, job[w].id)
           /\ job[w].id \in 0 .. MaxId
<1>1. /\ job[w] \in Busy /\ Typed
      /\ next_id = IF Drawn(job[w]) THEN committed.next_id + 1 ELSE committed.next_id
  BY Chatting
<1>2. HasAtHand(job[w])
  BY Doing DEF Chats, Using
<1>3. /\ Server!MayUnsend(job[w].user, job[w].target, job[w].id)
      /\ job[w].id < committed.next_id /\ job[w].id \in Nat
  BY <1>1, <1>2 DEF HasAtHand, Busy
<1>4. /\ started \in 0 .. MaxStarted /\ next_id <= FirstId + started
      /\ committed.next_id \in Nat /\ committed.next_id <= next_id
  BY <1>1 DEF SInv, Committed
<1>5. next_id \in Nat /\ FirstId \in Nat
  BY <1>1, SeedMessagesAssumption DEF Typed
<1>6. job[w].id \in 0 .. MaxId
  BY <1>3, <1>4, <1>5, SerialAssumption
<1>. QED BY <1>3, <1>6

\* The list at hand is replaced: it is one entry of the tables.
LEMMA AtHandReplaced ==
    ASSUME SInv, NEW w \in Workers, job[w].pc \in Using, Has(Owner(job[w]), Key(job[w])),
           NEW e, Puts(job[w].dict, job[w].key, e), current' = current
    PROVE  /\ Lists' = [Lists EXCEPT ![Owner(job[w])][Key(job[w])] = e]
           /\ \A x \in DOMAIN current : DOMAIN dicts'[current'[x]] = DOMAIN dicts[current[x]]
<1>1. PICK a \in Names, b \in Names : a = Owner(job[w]) /\ b = Key(job[w])
  BY TheListAtHand
<1>2. HasList(a, b) /\ job[w].dict = current[a] /\ job[w].key = b
  BY <1>1, AtHandIs, TheListAtHand
<1>3. Puts(current[a], b, e) /\ IInv
  BY <1>2 DEF SInv
<1>4. Lists' = [Lists EXCEPT ![a][b] = e]
  <2>1. \A x, y \in Names : Lists'[x][y] = IF x = a /\ y = b THEN e ELSE Lists[x][y]
    BY <1>2, <1>3, OneListReplaced
  <2>. QED BY <2>1, OneEntryReplaced
<1>5. \A x \in DOMAIN current : DOMAIN dicts'[current'[x]] = DOMAIN dicts[current[x]]
  BY <1>2, <1>3, OneListReplaced
<1>. QED BY <1>1, <1>4, <1>5

\* A request about messages that is refused before anything has been done.
LEMMA ChatRefuses ==
    ASSUME SInv, NEW w, Workers = {w}, job[w].pc \in Chats, NEW status, Answer(w, status),
           Ticks, IInv', UNCHANGED <<db, disk, next_id, started>>,
           Lists = committed.history, files = committed.files
    PROVE  /\ SInv' /\ UNCHANGED <<committed.users, committed.friend_list, committed.history,
                                  committed.dirs, committed.files>>
           /\ committed'.next_id = next_id
           /\ committed'.reply = [op |-> job[w].op, by |-> job[w].user, status |-> status]
<1>1. /\ UNCHANGED <<accounts, current, next_id, started>>
      /\ \A x \in DOMAIN current : DOMAIN dicts'[current'[x]] = DOMAIN dicts[current[x]]
  BY DEF db
<1>2. /\ SInv' /\ Told
      /\ reply' = [op |-> job[w].op, by |-> job[w].user, status |-> status]
      /\ committed'.users = committed.users /\ committed'.friend_list = committed.friend_list
      /\ dirs = committed.dirs
  BY <1>1, ChatAnswers
<1>3. Lists' = Lists
  BY SameTables
<1>. QED BY <1>2, <1>3 DEF Told, disk

\* A text or an attachment that is sent: it is put_messages or put_messages_file of
\* ChatServer.
LEMMA SendIsServed ==
    ASSUME NEW u \in Names, NEW v \in Names, NEW op \in Sends, NEW m,
           u \in committed.users, Has(u, v),
           op = "put_messages_file" => ChatDir(u, v) \in committed.dirs,
           m = [id |-> committed.next_id, from |-> u, to |-> v,
                kind |-> IF op = "put_messages" THEN "Generic" ELSE "Attachment"],
           UNCHANGED <<committed.users, committed.friend_list, committed.dirs>>,
           committed'.history = Server!BothAppend(u, v, m),
           committed'.files = IF op = "put_messages_file" THEN committed.files \cup {FileOf(m)}
                              ELSE committed.files,
           committed.next_id <= MaxId, committed'.next_id = committed.next_id + 1,
           committed'.reply = [op |-> op, by |-> u, status |-> "ok"]
    PROVE  Serves
<1>1. CASE op = "put_messages"
  <2>1. Server!put_messages(u, v)
    BY <1>1 DEF Has, Server!put_messages, Server!DrawId, Server!Answer
  <2>. QED BY <2>1, ServerServes DEF Server!Serve
<1>2. CASE op = "put_messages_file"
  <2>1. Server!put_messages_file(u, v)
    BY <1>2, SamePaths DEF Has, Server!put_messages_file, Server!DrawId, Server!Answer, Server!FileOf, FileOf
  <2>. QED BY <2>1, ServerServes DEF Server!Serve
<1>. QED BY <1>1, <1>2 DEF Sends

\* A message that is unsent: it is del_messages of ChatServer.
LEMMA UnsendIsServed ==
    ASSUME NEW u \in Names, NEW v \in Names, NEW id \in 0 .. MaxId,
           Server!MayUnsend(u, v, id), Has(u, v), PathsOf(u, v, id) \subseteq committed.files,
           UNCHANGED <<committed.users, committed.friend_list, committed.dirs, committed.next_id>>,
           committed'.history = Server!BothRemove(u, v, id),
           committed'.files = committed.files \ PathsOf(u, v, id),
           committed'.reply = [op |-> "del_messages", by |-> u, status |-> "ok"]
    PROVE  Serves
<1>1. PathsOf(u, v, id)
      = {Server!FileOf(m) : m \in {n \in Server!Held(u, v) : n.id = id /\ Server!Attachment(n)}}
  BY DEF PathsOf, Server!FileOf, FileOf, Server!Held, Server!Attachment, Attachment, Server!ToSet, ToSet
<1>2. Server!del_messages(u, v, id)
  BY <1>1 DEF Has, Server!del_messages, Server!Answer
<1>. QED BY <1>2, ServerServes DEF Server!Serve

\* Nothing is sent or unsent where there are no friends: the request is refused.
LEMMA NoFriends ==
    ASSUME SInv, NEW w, Workers = {w}, lookup(w), Answer(w, "error"), next_id' = next_id,
           job[w].user \in DOMAIN current, DOMAIN dicts[current[job[w].user]] = {}, Ticks, IInv'
    PROVE  SInv' /\ Serves
<1>1. /\ job[w].pc = "lookup" /\ job[w].pc \in Chats /\ job[w].pc # "idle"
      /\ job[w].user \in Names /\ job[w].target \in Names
      /\ job[w].op \in Sends \cup {"del_messages"} /\ job[w].user \in committed.users
      /\ \A x \in DOMAIN current : DOMAIN dicts[current[x]] = committed.friend_list[x]
  BY Chatting DEF lookup, At, Chats
<1>2. UNCHANGED <<db, disk, next_id, started>> /\ Untouched(job[w])
  BY <1>1, NotYet DEF lookup
<1>3. SInv' /\ Server!Refuse(job[w].op, job[w].user, "error")
  BY <1>1, <1>2, RefusesUntouched
<1>4. Server!NoHistory(job[w].op, job[w].user)
  BY <1>1, <1>3 DEF Server!NoHistory
<1>5. CASE job[w].op \in Sends
  <2>1. Server!put_messages(job[w].user, job[w].target) \/ Server!put_messages_file(job[w].user, job[w].target)
    BY <1>4, <1>5 DEF Sends, Server!put_messages, Server!put_messages_file
  <2>. QED BY <1>1, <1>3, <2>1, ServerServes DEF Server!Serve
<1>6. CASE job[w].op = "del_messages"
  <2>1. Server!del_messages(job[w].user, job[w].target, job[w].id)
    BY <1>4, <1>6 DEF Server!del_messages
  <2>2. Server!MayUnsend(job[w].user, job[w].target, job[w].id) /\ job[w].id \in 0 .. MaxId
    BY <1>1, <1>6, IdInBound
  <2>. QED BY <1>1, <1>3, <2>1, <2>2, ServerServes DEF Server!Serve
<1>. QED BY <1>1, <1>5, <1>6

\* The id is drawn, and the caller's list looked up (put_messages, del_messages).
LEMMA lookupSteps ==
    ASSUME SInv, NEW w, Workers = {w}, lookup(w), Ticks, IInv'
    PROVE  SInv' /\ Serves
<1>1. /\ job[w].pc = "lookup" /\ job[w].pc \in Chats /\ job[w] \in Busy /\ Typed
      /\ job[w].op \in Sends \cup {"del_messages"}
      /\ job[w].user \in Names /\ job[w].user \in committed.users
      /\ DOMAIN current = committed.users
      /\ \A x \in DOMAIN current : DOMAIN dicts[current[x]] = committed.friend_list[x]
      /\ Lists = HistoryOf(job[w]) /\ files = FilesOf(job[w]) /\ Untouched(job[w])
      /\ HasAtHand(job[w])
  BY Chatting, NotYet, Doing DEF lookup, At, Chats
<1>2. job[w].side = "self" /\ current[job[w].user] \in DOMAIN dicts
  BY <1>1 DEF SInv, IInv, Owned, JobOK, InStep, Typed
<1>3. next_id = committed.next_id /\ next_id \in Nat /\ next_id < FirstId + started
  BY <1>1, Chatting DEF Untouched, SInv, Typed
<1>4. CASE DOMAIN dicts[current[job[w].user]] = {}
  <2>1. Answer(w, "error") /\ next_id' = next_id
    BY <1>1, <1>4 DEF lookup
  <2>. QED BY <1>1, <1>4, <2>1, NoFriends
<1>5. CASE DOMAIN dicts[current[job[w].user]] # {}
  <2>1. PICK j : j = IF job[w].op \in Sends
                     THEN [job[w] EXCEPT !.pc = "append", !.id = next_id, !.dict = current[job[w].user]]
                     ELSE [job[w] EXCEPT !.pc = "len", !.dict = current[job[w].user]]
    OBVIOUS
  <2>2. /\ job' = [job EXCEPT ![w] = j] /\ UNCHANGED reply
        /\ next_id' = IF job[w].op \in Sends THEN next_id + 1 ELSE next_id
    <3>1. CASE job[w].op \in Sends
      BY <1>1, <1>5, <2>1, <3>1 DEF lookup, Typed
    <3>2. CASE job[w].op \notin Sends
      BY <1>1, <1>5, <2>1, <3>2 DEF lookup, Typed
    <3>. QED BY <3>1, <3>2
  <2>3. /\ j \in Busy /\ j.pc = (IF job[w].op \in Sends THEN "append" ELSE "len")
        /\ j.op = job[w].op /\ j.token = job[w].token /\ j.user = job[w].user
        /\ j.target = job[w].target /\ j.side = "self" /\ j.dict = current[job[w].user]
        /\ j.id = IF job[w].op \in Sends THEN next_id ELSE job[w].id
    <3>1. current[job[w].user] \in Nat
      BY <1>1, <1>2 DEF Typed
    <3>. QED BY <1>1, <1>2, <1>3, <2>1, <3>1 DEF Busy, PCs
  <2>4. committed' = committed
    BY <2>2, <2>3, NothingCommitted
  <2>5. /\ UNCHANGED <<db, disk, started>>
        /\ UNCHANGED <<accounts, current, dirs, files, dicts>>
        /\ Lists' = Lists
    BY SameTables DEF lookup, db, disk
  <2>6. Drawn(j) <=> job[w].op \in Sends
    BY <2>3 DEF Drawn
  <2>7. HistoryOf(j) = committed.history /\ FilesOf(j) = committed.files /\ ~ Halfway(j) /\ j.pc \in Using
    BY <2>3 DEF HistoryOf, FilesOf, Halfway, Using
  <2>8. HasAtHand(j)'
    <3>1. committed.friend_list[job[w].user] # {}
      BY <1>1, <1>5
    <3>2. j.op = "del_messages" => Server!MayUnsend(j.user, j.target, j.id)' /\ j.id < committed.next_id
      BY <1>1, <2>3, <2>4 DEF HasAtHand, Server!MayUnsend, Server!Held, Sends
    <3>. QED BY <1>1, <1>3, <2>3, <2>4, <2>5, <2>6, <2>7, <3>1, <3>2 DEF HasAtHand, Drawn, Halfway
  <2>9. next_id' <= FirstId + started /\ next_id' = IF Drawn(j) THEN committed.next_id + 1 ELSE committed.next_id
    <3>1. FirstId \in Nat /\ started \in Nat
      BY SeedMessagesAssumption DEF SInv
    <3>. QED BY <1>3, <2>2, <2>6, <3>1
  <2>10. Lists' = HistoryOf(j) /\ files' = FilesOf(j)
    BY <1>1, <2>5, <2>7 DEF Untouched
  <2>11. \A x \in DOMAIN current : DOMAIN dicts'[current'[x]] = DOMAIN dicts[current[x]]
    BY <2>5
  <2>. QED BY <1>1, <2>2, <2>3, <2>5, <2>7, <2>8, <2>9, <2>10, <2>11, ChatGoes
<1>. QED BY <1>4, <1>5


\* A step that only moves on: the tables stay.
LEMMA ChatMoves ==
    ASSUME SInv, NEW w, Workers = {w}, job[w].pc \in Using, NEW j \in Busy,
           job' = [job EXCEPT ![w] = j], Ticks, IInv',
           UNCHANGED <<db, disk, next_id, started>>,
           j.pc \in Using, j.token = job[w].token, j.user = job[w].user,
           HistoryOf(j) = HistoryOf(job[w]), FilesOf(j) = FilesOf(job[w]),
           Drawn(j) <=> Drawn(job[w]), HasAtHand(j)'
    PROVE  SInv' /\ Serves
<1>1. /\ Lists = HistoryOf(job[w]) /\ files = FilesOf(job[w]) /\ job[w].pc \in Chats
      /\ next_id = IF Drawn(job[w]) THEN committed.next_id + 1 ELSE committed.next_id
  BY Chatting DEF Chats
<1>2. UNCHANGED <<accounts, current, dirs, files, dicts>> /\ Lists' = Lists
  BY SameTables DEF db, disk
<1>3. \A x \in DOMAIN current : DOMAIN dicts'[current'[x]] = DOMAIN dicts[current[x]]
  BY <1>2
<1>4. next_id' <= FirstId + started
  BY DEF SInv
<1>5. Lists' = HistoryOf(j) /\ files' = FilesOf(j)
  BY <1>1, <1>2
<1>. QED BY <1>1, <1>2, <1>3, <1>4, <1>5, ChatGoes

\* The answer to a message that both lists have, or that the counterpart has no list for.
LEMMA Delivers ==
    ASSUME SInv, NEW w, Workers = {w}, job[w].pc \in Using, job[w].pc # "save", Halfway(job[w]),
           Drawn(job[w]), Answer(w, "ok"), Ticks, IInv',
           UNCHANGED <<accounts, current, disk, next_id, started>>,
           \A x \in DOMAIN current : DOMAIN dicts'[current'[x]] = DOMAIN dicts[current[x]],
           NEW u \in Names, NEW v \in Names, u = job[w].user, v = job[w].target,
           Lists' = Server!BothAppend(u, v, MessageOf(job[w]))
    PROVE  SInv' /\ Serves
<1>1. /\ job[w].pc \in Chats /\ UNCHANGED <<accounts, current, next_id, started>>
      /\ UNCHANGED <<dirs, files>>
  BY DEF Chats, disk
<1>2. /\ job[w].pc # "idle" /\ u \in committed.users /\ files = FilesOf(job[w])
      /\ dirs = committed.dirs
      /\ next_id = IF Drawn(job[w]) THEN committed.next_id + 1 ELSE committed.next_id
  BY <1>1, Chatting
<1>3. HasAtHand(job[w])
  BY <1>2, Doing
<1>0. PICK op \in Sends : op = job[w].op
  BY DEF Drawn
<1>4. PICK m : op = job[w].op /\ m = MessageOf(job[w])
  BY <1>0
<1>5. /\ Has(u, v) /\ job[w].id = committed.next_id
      /\ op = "put_messages_file" => ChatDir(u, v) \in committed.dirs
  BY <1>2, <1>3, <1>4 DEF HasAtHand
<1>6. files = IF op = "put_messages_file" THEN committed.files \cup {FileOf(m)} ELSE committed.files
  BY <1>2, <1>4 DEF FilesOf, Sends, Drawn
<1>7. /\ SInv' /\ Told
      /\ reply' = [op |-> op, by |-> u, status |-> "ok"]
      /\ committed'.users = committed.users /\ committed'.friend_list = committed.friend_list
      /\ dirs = committed.dirs
  BY <1>1, <1>4, ChatAnswers
<1>8. /\ m = [id |-> committed.next_id, from |-> u, to |-> v,
              kind |-> IF op = "put_messages" THEN "Generic" ELSE "Attachment"]
      /\ committed.next_id <= MaxId /\ next_id = committed.next_id + 1
  BY <1>2, <1>4, <1>5, IdsLeft DEF MessageOf
<1>9. /\ UNCHANGED <<committed.users, committed.friend_list, committed.dirs>>
      /\ committed'.history = Server!BothAppend(u, v, m)
      /\ committed'.files = (IF op = "put_messages_file" THEN committed.files \cup {FileOf(m)}
                             ELSE committed.files)
      /\ committed'.next_id = committed.next_id + 1
      /\ committed'.reply = [op |-> op, by |-> u, status |-> "ok"]
  BY <1>1, <1>4, <1>6, <1>7, <1>8 DEF Told
<1>10. Serves
  BY <1>2, <1>5, <1>8, <1>9, SendIsServed
<1>. QED BY <1>7, <1>10

\* A message is appended to the caller's list, then to his counterpart's.
LEMMA appendSteps ==
    ASSUME SInv, NEW w, Workers = {w}, append(w), Ticks, IInv'
    PROVE  SInv' /\ Serves
<1>1. /\ job[w].pc = "append" /\ job[w].pc \in Using /\ job[w].pc \in Chats /\ Listed(w)
      /\ UNCHANGED <<accounts, current, disk, next_id, started>>
      /\ UNCHANGED <<dirs, files>>
  BY DEF append, At, Using, Chats, disk
<1>2. /\ job[w] \in Busy /\ job[w].pc # "idle" /\ Typed
      /\ job[w].user \in Names /\ job[w].target \in Names /\ job[w].user \in committed.users
      /\ Lists = HistoryOf(job[w]) /\ files = FilesOf(job[w])
      /\ dirs = committed.dirs
      /\ next_id = IF Drawn(job[w]) THEN committed.next_id + 1 ELSE committed.next_id
  BY <1>1, Chatting
<1>3. HasAtHand(job[w])
  BY <1>2, Doing
<1>4. job[w].op \in Sends /\ job[w].side \in {"self", "opposite"} /\ Drawn(job[w])
  BY <1>1, <1>2 DEF SInv, IInv, Owned, JobOK, InStep, Busy, Drawn
<1>5. Has(Owner(job[w]), Key(job[w]))
  BY <1>1, TheListAtHand
<1>6. PICK m : m = MessageOf(job[w])
  OBVIOUS
<1>7. PICK e : e = Append(AtHand(w), m)
  OBVIOUS
<1>8. Puts(job[w].dict, job[w].key, e)
  BY <1>6, <1>7 DEF append, Puts, AtHand, NewMessage, MessageOf
<1>9. /\ Lists' = [Lists EXCEPT ![Owner(job[w])][Key(job[w])] = Append(@, m)]
      /\ \A x \in DOMAIN current : DOMAIN dicts'[current'[x]] = DOMAIN dicts[current[x]]
  <2>1. /\ Lists' = [Lists EXCEPT ![Owner(job[w])][Key(job[w])] = e]
        /\ \A x \in DOMAIN current : DOMAIN dicts'[current'[x]] = DOMAIN dicts[current[x]]
    BY <1>1, <1>5, <1>8, AtHandReplaced
  <2>2. AtHand(w) = Lists[Owner(job[w])][Key(job[w])]
    BY <1>1, <1>5, AtHandIs
  <2>. QED BY <1>7, <2>1, <2>2
<1>10. CASE job[w].side = "self"
  <2>1. Lists = committed.history /\ files = committed.files
    BY <1>1, <1>2, <1>10 DEF HistoryOf, FilesOf, Halfway, Using
  <2>2. PICK pc \in {"iterate", "save"} :
           Goto(w, pc) /\ pc = (IF job[w].op = "put_messages" THEN "iterate" ELSE "save")
    BY <1>10 DEF append
  <2>3. PICK j \in Busy :
           /\ job' = [job EXCEPT ![w] = j] /\ j.pc = pc /\ j.op = job[w].op
           /\ j.token = job[w].token /\ j.user = job[w].user /\ j.target = job[w].target
           /\ j.id = job[w].id /\ j.side = job[w].side /\ j.dict = job[w].dict
    BY <1>2, <2>2, Moves DEF PCs
  <2>4. committed' = committed
    BY <1>2, <2>3, NothingCommitted
  <2>5. j.pc \in Using /\ Halfway(j) /\ Drawn(j) /\ MessageOf(j) = m
    BY <1>4, <1>6, <2>2, <2>3 DEF Using, Halfway, Drawn, MessageOf
  <2>6. Lists' = HistoryOf(j) /\ files' = FilesOf(j)
    BY <1>1, <1>4, <1>9, <1>10, <2>1, <2>2, <2>3, <2>5 DEF Owner, Key, HistoryOf, FilesOf, Sends
  <2>7. HasAtHand(j)'
    BY <1>1, <1>3, <1>4, <1>5, <1>10, <2>2, <2>3, <2>4, <2>5
       DEF HasAtHand, Owner, Key, Has, Halfway, Using, Sends, Drawn
  <2>8. next_id' = (IF Drawn(j) THEN committed.next_id + 1 ELSE committed.next_id)
        /\ next_id' <= FirstId + started
    BY <1>1, <1>2, <1>4, <2>5 DEF SInv
  <2>. QED BY <1>1, <1>9, <2>3, <2>5, <2>6, <2>7, <2>8, ChatGoes
<1>11. CASE job[w].side = "opposite"
  <2>1. Answer(w, "ok") /\ Halfway(job[w]) /\ job[w].pc # "save"
    BY <1>1, <1>11 DEF append, Halfway
  <2>2. PICK u \in Names, v \in Names : u = job[w].user /\ v = job[w].target
    BY <1>2
  <2>3. Has(v, u)
    BY <1>1, <1>3, <1>11, <2>2 DEF HasAtHand
  <2>4. Lists = [committed.history EXCEPT ![u][v] = Append(@, m)]
    BY <1>1, <1>2, <1>4, <1>6, <2>1, <2>2 DEF HistoryOf
  <2>5. Lists' = Server!BothAppend(u, v, m)
    <3>1. Owner(job[w]) = v /\ Key(job[w]) = u
      BY <1>11, <2>2 DEF Owner, Key
    <3>2. Lists' = [Lists EXCEPT ![v][u] = Append(@, m)]
      BY <1>9, <3>1
    <3>. QED BY <2>3, <2>4, <3>2 DEF Server!BothAppend, Has
  <2>. QED BY <1>1, <1>4, <1>6, <1>9, <2>1, <2>2, <2>5, Delivers
<1>. QED BY <1>4, <1>10, <1>11

\* The answer to a message that both lists have lost.
LEMMA Unsends ==
    ASSUME SInv, NEW w, Workers = {w}, job[w].pc \in Using, Halfway(job[w]),
           job[w].op = "del_messages", Answer(w, "ok"), Ticks, IInv',
           UNCHANGED <<accounts, current, disk, next_id, started>>,
           \A x \in DOMAIN current : DOMAIN dicts'[current'[x]] = DOMAIN dicts[current[x]],
           NEW u \in Names, NEW v \in Names, u = job[w].user, v = job[w].target,
           Lists' = Server!BothRemove(u, v, job[w].id)
    PROVE  SInv' /\ Serves
<1>1. /\ job[w].pc \in Chats /\ UNCHANGED <<accounts, current, next_id, started>>
      /\ UNCHANGED <<dirs, files>>
  BY DEF Chats, disk
<1>2. /\ job[w].pc # "idle" /\ files = FilesOf(job[w])
      /\ dirs = committed.dirs
      /\ next_id = IF Drawn(job[w]) THEN committed.next_id + 1 ELSE committed.next_id
  BY <1>1, Chatting
<1>3. HasAtHand(job[w])
  BY <1>2, Doing
<1>4. PICK id \in 0 .. MaxId : id = job[w].id /\ Server!MayUnsend(u, v, id)
  BY <1>1, IdInBound
<1>5. /\ Has(u, v) /\ PathsOf(u, v, id) \subseteq committed.files
      /\ next_id = committed.next_id /\ files = committed.files \ PathsOf(u, v, id)
  BY <1>2, <1>3, <1>4 DEF HasAtHand, Drawn, Sends, FilesOf
<1>6. /\ SInv' /\ Told
      /\ reply' = [op |-> "del_messages", by |-> u, status |-> "ok"]
      /\ committed'.users = committed.users /\ committed'.friend_list = committed.friend_list
      /\ dirs = committed.dirs
  BY <1>1, ChatAnswers
<1>7. /\ UNCHANGED <<committed.users, committed.friend_list, committed.dirs, committed.next_id>>
      /\ committed'.history = Server!BothRemove(u, v, id)
      /\ committed'.files = committed.files \ PathsOf(u, v, id)
      /\ committed'.reply = [op |-> "del_messages", by |-> u, status |-> "ok"]
  BY <1>1, <1>4, <1>5, <1>6 DEF Told
<1>8. Serves
  BY <1>4, <1>5, <1>7, UnsendIsServed
<1>. QED BY <1>6, <1>8

\* The attachment goes to its directory, which the process may not find.
LEMMA saveSteps ==
    ASSUME SInv, NEW w, Workers = {w}, save(w), Ticks, IInv'
    PROVE  SInv' /\ Serves
<1>1. /\ job[w].pc = "save" /\ job[w].pc \in Using /\ job[w].pc \in Chats
      /\ UNCHANGED <<db, dirs, next_id, started>>
      /\ UNCHANGED <<accounts, current, dicts>>
  BY DEF save, At, Using, Chats, db
<1>2. /\ job[w] \in Busy /\ job[w].pc # "idle" /\ Typed
      /\ job[w].user \in Names /\ job[w].target \in Names /\ job[w].user \in committed.users
      /\ Lists = HistoryOf(job[w]) /\ files = FilesOf(job[w])
      /\ dirs = committed.dirs
      /\ next_id = IF Drawn(job[w]) THEN committed.next_id + 1 ELSE committed.next_id
  BY <1>1, Chatting
<1>3. HasAtHand(job[w])
  BY <1>2, Doing
<1>4. /\ job[w].side = "self" /\ job[w].op = "put_messages_file" /\ Halfway(job[w])
      /\ Has(job[w].user, job[w].target) /\ Drawn(job[w])
  BY <1>1, <1>3 DEF HasAtHand, Halfway, Drawn, Sends
<1>5. PICK m : m = MessageOf(job[w])
  OBVIOUS
<1>6. /\ Lists' = Lists
      /\ \A x \in DOMAIN current : DOMAIN dicts'[current'[x]] = DOMAIN dicts[current[x]]
  BY <1>1, SameTables
<1>7. Lists = [committed.history EXCEPT ![job[w].user][job[w].target] = Append(@, m)]
      /\ files = committed.files
  BY <1>1, <1>2, <1>4, <1>5 DEF HistoryOf, FilesOf, Sends
<1>8. CASE ChatDir(job[w].user, job[w].target) \in dirs
  <2>1. PICK pc \in {"imwrite", "iterate"} : Goto(w, pc)
    BY <1>8 DEF save
  <2>2. PICK j \in Busy :
           /\ job' = [job EXCEPT ![w] = j] /\ j.pc = pc /\ j.op = job[w].op
           /\ j.token = job[w].token /\ j.user = job[w].user /\ j.target = job[w].target
           /\ j.id = job[w].id /\ j.side = job[w].side /\ j.dict = job[w].dict
    BY <1>2, <2>1, Moves DEF PCs
  <2>3. committed' = committed
    BY <1>2, <2>2, NothingCommitted
  <2>4. j.pc \in Using /\ Halfway(j) /\ Drawn(j) /\ MessageOf(j) = m
    BY <1>4, <1>5, <2>1, <2>2 DEF Using, Halfway, Drawn, MessageOf
  <2>5. files' = files \cup {FileOf(m)}
    BY <1>5, <1>8 DEF save, NewMessage, MessageOf
  <2>6. Lists' = HistoryOf(j) /\ files' = FilesOf(j)
    BY <1>4, <1>6, <1>7, <2>1, <2>2, <2>4, <2>5 DEF HistoryOf, FilesOf, Sends
  <2>7. HasAtHand(j)'
    BY <1>1, <1>2, <1>3, <1>4, <1>8, <2>1, <2>2, <2>3, <2>4
       DEF HasAtHand, Has, Halfway, Using, Sends, Drawn
  <2>8. next_id' = (IF Drawn(j) THEN committed.next_id + 1 ELSE committed.next_id)
        /\ next_id' <= FirstId + started
    BY <1>1, <1>2, <1>4, <2>4 DEF SInv
  <2>. QED BY <1>1, <1>6, <2>2, <2>4, <2>6, <2>7, <2>8, ChatGoes
<1>9. CASE ChatDir(job[w].user, job[w].target) \notin dirs
  <2>1. Answer(w, "exception") /\ files' = files
    BY <1>9 DEF save
  <2>2. PICK u \in Names, v \in Names : u = job[w].user /\ v = job[w].target
    BY <1>2
  <2>3. /\ SInv' /\ Told
        /\ reply' = [op |-> "put_messages_file", by |-> u, status |-> "exception"]
        /\ committed'.users = committed.users /\ committed'.friend_list = committed.friend_list
        /\ dirs = committed.dirs
    BY <1>1, <1>4, <1>6, <2>1, <2>2, ChatAnswers
  <2>4. /\ m = [id |-> committed.next_id, from |-> u, to |-> v, kind |-> "Attachment"]
        /\ committed.next_id <= MaxId /\ next_id = committed.next_id + 1
    BY <1>1, <1>2, <1>3, <1>4, <1>5, <2>2, IdsLeft DEF MessageOf, HasAtHand
  <2>5. /\ v \in committed.friend_list[u] /\ ChatDir(u, v) \notin committed.dirs
    BY <1>2, <1>4, <1>9, <2>2 DEF Has
  <2>6. Server!put_messages_file(u, v)
    BY <1>1, <1>6, <1>7, <2>1, <2>2, <2>3, <2>4, <2>5, SamePaths
       DEF Told, Server!put_messages_file, Server!DrawId, Server!Answer
  <2>. QED BY <2>3, <2>6, ServerServes DEF Server!Serve
<1>. QED BY <1>8, <1>9

\* The second write of an image: its file is there already.
LEMMA imwriteSteps ==
    ASSUME SInv, NEW w, Workers = {w}, imwrite(w), Ticks, IInv'
    PROVE  SInv' /\ Serves
<1>1. /\ job[w].pc = "imwrite" /\ job[w].pc \in Using /\ job[w].pc \in Chats
      /\ UNCHANGED <<db, dirs, next_id, started>> /\ Goto(w, "iterate")
  BY DEF imwrite, At, Using, Chats
<1>2. /\ job[w] \in Busy /\ job[w].pc # "idle" /\ Typed /\ files = FilesOf(job[w])
  BY <1>1, Chatting
<1>3. HasAtHand(job[w])
  BY <1>2, Doing
<1>4. /\ job[w].side = "self" /\ job[w].op = "put_messages_file" /\ Halfway(job[w])
      /\ Has(job[w].user, job[w].target) /\ Drawn(job[w])
  BY <1>1, <1>3 DEF HasAtHand, Halfway, Drawn, Sends
<1>5. FileOf(MessageOf(job[w])) \in files
  BY <1>1, <1>2, <1>4 DEF FilesOf
<1>6. files' = files
  BY <1>5 DEF imwrite, NewMessage, MessageOf
<1>7. PICK j \in Busy :
         /\ job' = [job EXCEPT ![w] = j] /\ j.pc = "iterate" /\ j.op = job[w].op
         /\ j.token = job[w].token /\ j.user = job[w].user /\ j.target = job[w].target
         /\ j.id = job[w].id /\ j.side = job[w].side /\ j.dict = job[w].dict
  BY <1>1, <1>2, Moves DEF PCs
<1>8. committed' = committed
  BY <1>2, <1>7, NothingCommitted
<1>9. j.pc \in Using /\ Halfway(j) /\ Drawn(j) /\ MessageOf(j) = MessageOf(job[w])
  BY <1>4, <1>7 DEF Using, Halfway, Drawn, MessageOf
<1>10. HistoryOf(j) = HistoryOf(job[w]) /\ FilesOf(j) = FilesOf(job[w])
  BY <1>1, <1>4, <1>7, <1>9 DEF HistoryOf, FilesOf, Sends
<1>11. HasAtHand(j)'
  BY <1>1, <1>3, <1>4, <1>7, <1>8, <1>9
     DEF HasAtHand, Has, Halfway, Using, Sends, Drawn, db
<1>12. UNCHANGED <<db, disk, next_id, started>>
  BY <1>1, <1>6 DEF disk
<1>. QED BY <1>1, <1>4, <1>7, <1>9, <1>10, <1>11, <1>12, ChatMoves

\* The search for the counterpart begins, ...
LEMMA iterateSteps ==
    ASSUME SInv, NEW w, Workers = {w}, iterate(w), Ticks, IInv'
    PROVE  SInv' /\ Serves
<1>1. /\ job[w].pc = "iterate" /\ job[w].pc \in Using /\ job[w].pc \in Chats
      /\ UNCHANGED <<db, disk, next_id, started>>
  BY DEF iterate, At, Using, Chats
<1>2. job[w] \in Busy /\ job[w].pc # "idle" /\ Typed
  BY <1>1, Chatting
<1>3. HasAtHand(job[w])
  BY <1>2, Doing
<1>4. job[w].side = "self" /\ Halfway(job[w])
  BY <1>1, <1>3 DEF HasAtHand, Halfway
<1>5. PICK j : j = [job[w] EXCEPT !.pc = "find", !.keys = Cardinality(DOMAIN current)]
  OBVIOUS
<1>6. Cardinality(DOMAIN current) \in Nat
  BY <1>2, FS_CardinalityType DEF Typed
<1>7. job' = [job EXCEPT ![w] = j]
  BY <1>2, <1>5 DEF iterate, Typed
<1>8. /\ j \in Busy /\ j.pc = "find" /\ j.op = job[w].op /\ j.keys = Cardinality(DOMAIN current)
      /\ j.token = job[w].token /\ j.user = job[w].user /\ j.target = job[w].target
      /\ j.id = job[w].id /\ j.side = job[w].side /\ j.dict = job[w].dict
  BY <1>2, <1>5, <1>6 DEF Busy, PCs
<1>9. committed' = committed
  BY <1>2, <1>7, <1>8, NothingCommitted
<1>10. /\ j.pc \in Using /\ Halfway(j) /\ (Drawn(j) <=> Drawn(job[w]))
       /\ MessageOf(j) = MessageOf(job[w])
  BY <1>1, <1>8 DEF Using, Halfway, Drawn, MessageOf
<1>11. HistoryOf(j) = HistoryOf(job[w]) /\ FilesOf(j) = FilesOf(job[w])
  BY <1>1, <1>4, <1>8, <1>10 DEF HistoryOf, FilesOf, Sends
<1>12. UNCHANGED <<current, dirs>>
  BY <1>1 DEF db, disk
<1>13. HasAtHand(j)'
  BY <1>1, <1>3, <1>4, <1>8, <1>9, <1>10, <1>12
     DEF HasAtHand, Has, Halfway, Using, Sends, Drawn, Server!MayUnsend, Server!Held, PathsOf
<1>. QED BY <1>1, <1>7, <1>8, <1>10, <1>11, <1>13, ChatMoves

\* ..., and ends at his dictionary: no sign-up has come in between.
LEMMA findSteps ==
    ASSUME SInv, NEW w, Workers = {w}, find(w), Ticks, IInv'
    PROVE  SInv' /\ Serves
<1>1. /\ job[w].pc = "find" /\ job[w].pc \in Using /\ job[w].pc \in Chats
      /\ UNCHANGED <<db, disk, next_id, started>>
  BY DEF find, At, Using, Chats
<1>2. job[w] \in Busy /\ job[w].pc # "idle" /\ Typed
  BY <1>1, Chatting
<1>3. HasAtHand(job[w])
  BY <1>2, Doing
<1>4. job[w].keys = Cardinality(DOMAIN current) /\ Halfway(job[w])
  BY <1>1, <1>3 DEF HasAtHand, Halfway
<1>5. PICK d : d = IF job[w].target \in DOMAIN current THEN current[job[w].target] ELSE 0
  OBVIOUS
<1>6. PICK j : j = [job[w] EXCEPT !.pc = "known", !.side = "opposite", !.key = job[w].user, !.dict = d]
  OBVIOUS
<1>7. job' = [job EXCEPT ![w] = j]
  BY <1>2, <1>4, <1>5, <1>6 DEF find, Typed
<1>8. d \in Nat
  BY <1>2, <1>5 DEF Typed
<1>9. /\ j \in Busy /\ j.pc = "known" /\ j.op = job[w].op /\ j.side = "opposite" /\ j.dict = d
      /\ j.token = job[w].token /\ j.user = job[w].user /\ j.target = job[w].target
      /\ j.id = job[w].id
  BY <1>2, <1>6, <1>8 DEF Busy, PCs
<1>10. committed' = committed
  BY <1>2, <1>7, <1>9, NothingCommitted
<1>11. /\ j.pc \in Using /\ Halfway(j) /\ (Drawn(j) <=> Drawn(job[w]))
       /\ MessageOf(j) = MessageOf(job[w])
  BY <1>1, <1>9 DEF Using, Halfway, Drawn, MessageOf
<1>12. HistoryOf(j) = HistoryOf(job[w]) /\ FilesOf(j) = FilesOf(job[w])
  BY <1>1, <1>4, <1>9, <1>11 DEF HistoryOf, FilesOf, Sends
<1>13. UNCHANGED <<current, dirs>>
  BY <1>1 DEF db, disk
<1>14. HasAtHand(j)'
  BY <1>1, <1>3, <1>4, <1>5, <1>9, <1>10, <1>11, <1>13
     DEF HasAtHand, Has, Halfway, Using, Sends, Drawn, Server!MayUnsend, Server!Held, PathsOf
<1>. QED BY <1>1, <1>7, <1>9, <1>11, <1>12, <1>14, ChatMoves

\* He is a user, who may not have the caller as a friend.
LEMMA knownSteps ==
    ASSUME SInv, NEW w, Workers = {w}, known(w), Ticks, IInv'
    PROVE  SInv' /\ Serves
<1>1. /\ job[w].pc = "known" /\ job[w].pc \in Using /\ job[w].pc \in Chats /\ job[w].pc # "save"
      /\ UNCHANGED <<db, disk, next_id, started>>
      /\ UNCHANGED <<accounts, current, disk, next_id, started>>
      /\ UNCHANGED <<dicts, current, dirs>>
  BY DEF known, At, Using, Chats, db, disk
<1>2. /\ job[w] \in Busy /\ job[w].pc # "idle" /\ Typed /\ Lists = HistoryOf(job[w])
      /\ job[w].op \in Sends \cup {"del_messages"}
  BY <1>1, Chatting
<1>3. HasAtHand(job[w])
  BY <1>2, Doing
<1>4. PICK u \in Names, v \in Names : u = job[w].user /\ v = job[w].target
  BY <1>1, Chatting
<1>5. job[w].side = "opposite" /\ Halfway(job[w]) /\ Has(u, v)
  BY <1>1, <1>3, <1>4 DEF Halfway, HasAtHand, SInv, IInv, Owned, JobOK, InStep
<1>6. Owner(job[w]) = v /\ Key(job[w]) = u /\ v \in DOMAIN current
  BY <1>1, <1>4, <1>5, FriendsAreUsers DEF Owner, Key
<1>7. job[w].dict # 0 /\ (Listed(w) <=> Has(v, u))
  BY <1>1, <1>6, TheListAtHand
<1>8. CASE ~ Listed(w)
  <2>1. Answer(w, "ok")
    BY <1>7, <1>8 DEF known
  <2>2. \A x \in DOMAIN current : DOMAIN dicts'[current'[x]] = DOMAIN dicts[current[x]]
    BY <1>1
  <2>3. Lists' = HistoryOf(job[w])
    BY <1>1, <1>2, SameTables
  <2>4. CASE job[w].op \in Sends
    <3>1. Lists' = Server!BothAppend(u, v, MessageOf(job[w])) /\ Drawn(job[w])
      BY <1>1, <1>4, <1>5, <1>7, <1>8, <2>3, <2>4 DEF HistoryOf, Server!BothAppend, Has, Drawn
    <3>. QED BY <1>1, <1>4, <1>5, <2>1, <2>2, <3>1, Delivers
  <2>5. CASE job[w].op = "del_messages"
    <3>1. Lists' = Server!BothRemove(u, v, job[w].id)
      BY <1>1, <1>4, <1>5, <1>7, <1>8, <2>3, <2>5 DEF HistoryOf, Server!BothRemove, Has, Sends
    <3>. QED BY <1>1, <1>4, <1>5, <2>1, <2>2, <2>5, <3>1, Unsends
  <2>. QED BY <1>2, <2>4, <2>5
<1>9. CASE Listed(w)
  <2>1. PICK pc \in {"append", "len"} :
           Goto(w, pc) /\ pc = (IF job[w].op \in Sends THEN "append" ELSE "len")
    BY <1>7, <1>9 DEF known
  <2>2. PICK j \in Busy :
           /\ job' = [job EXCEPT ![w] = j] /\ j.pc = pc /\ j.op = job[w].op
           /\ j.token = job[w].token /\ j.user = job[w].user /\ j.target = job[w].target
           /\ j.id = job[w].id /\ j.side = job[w].side /\ j.dict = job[w].dict
    BY <1>2, <2>1, Moves DEF PCs
  <2>3. committed' = committed
    BY <1>2, <2>2, NothingCommitted
  <2>4. /\ j.pc \in Using /\ Halfway(j) /\ (Drawn(j) <=> Drawn(job[w]))
        /\ MessageOf(j) = MessageOf(job[w])
    BY <1>1, <1>5, <2>1, <2>2 DEF Using, Halfway, Drawn, MessageOf
  <2>5. HistoryOf(j) = HistoryOf(job[w]) /\ FilesOf(j) = FilesOf(job[w])
    BY <1>1, <1>5, <2>1, <2>2, <2>4 DEF HistoryOf, FilesOf, Sends
  <2>6. HasAtHand(j)'
    BY <1>1, <1>3, <1>4, <1>5, <1>7, <1>9, <2>1, <2>2, <2>3, <2>4
       DEF HasAtHand, Has, Halfway, Using, Sends, Drawn, Server!MayUnsend, Server!Held, PathsOf
  <2>. QED BY <1>1, <2>2, <2>4, <2>5, <2>6, ChatMoves
<1>. QED BY <1>8, <1>9

\* The loop over the list at hand begins.
LEMMA lenSteps ==
    ASSUME SInv, NEW w, Workers = {w}, len(w), Ticks, IInv'
    PROVE  SInv' /\ Serves
<1>1. /\ job[w].pc = "len" /\ job[w].pc \in Using /\ job[w].pc \in Chats /\ Listed(w)
      /\ UNCHANGED <<db, disk, next_id, started>>
      /\ UNCHANGED <<dicts, current, dirs>>
  BY DEF len, At, Using, Chats, db, disk
<1>2. /\ job[w] \in Busy /\ job[w].pc # "idle" /\ Typed
      /\ job[w].op \in Sends \cup {"del_messages"}
  BY <1>1, Chatting
<1>3. HasAtHand(job[w])
  BY <1>2, Doing
<1>4. job[w].op = "del_messages" /\ job[w].side \in {"self", "opposite"}
  BY <1>1, <1>2 DEF Busy, SInv, IInv, Owned, JobOK, InStep
<1>5. Has(Owner(job[w]), Key(job[w]))
  BY <1>1, TheListAtHand
<1>6. AtHand(w) \in Seq(Message)
  BY <1>1, <1>5, AtHandIs
<1>7. PICK j : j = [job[w] EXCEPT !.pc = "match", !.i = 1, !.n = Len(AtHand(w))]
  OBVIOUS
<1>8. job' = [job EXCEPT ![w] = j]
  BY <1>2, <1>7 DEF len, Typed
<1>9. /\ j \in Busy /\ j.pc = "match" /\ j.op = job[w].op /\ j.side = job[w].side
      /\ j.token = job[w].token /\ j.user = job[w].user /\ j.target = job[w].target
      /\ j.id = job[w].id /\ j.dict = job[w].dict /\ j.key = job[w].key
      /\ j.i = 1 /\ j.n = Len(AtHand(w))
  <2>1. Len(AtHand(w)) \in Nat
    BY <1>6
  <2>. QED BY <1>2, <1>7, <2>1 DEF Busy, PCs
<1>10. committed' = committed
  BY <1>2, <1>8, <1>9, NothingCommitted
<1>11. /\ j.pc \in Using /\ (Halfway(j) <=> Halfway(job[w])) /\ (Drawn(j) <=> Drawn(job[w]))
  BY <1>1, <1>4, <1>9 DEF Using, Halfway, Drawn, Sends
<1>12. HistoryOf(j) = HistoryOf(job[w]) /\ FilesOf(j) = FilesOf(job[w])
  BY <1>1, <1>4, <1>9, <1>11 DEF HistoryOf, FilesOf, Sends
<1>13. Searched(j)'
  BY <1>1, <1>6, <1>9 DEF Searched, AtHand
<1>14. HasAtHand(j)'
  BY <1>1, <1>3, <1>4, <1>5, <1>9, <1>10, <1>11, <1>13
     DEF HasAtHand, Has, Owner, Key, Using, Sends, Server!MayUnsend, Server!Held, PathsOf
<1>. QED BY <1>1, <1>8, <1>9, <1>11, <1>12, <1>14, ChatMoves

\* What the loop knows of the list at hand.
LEMMA Searching ==
    ASSUME SInv, NEW w \in Workers, job[w].pc \in {"match", "type", "unlink", "pop"}
    PROVE  /\ job[w].pc \in Using /\ job[w].pc \in Chats /\ job[w].pc # "idle"
           /\ job[w] \in Busy /\ Typed /\ HasAtHand(job[w])
           /\ job[w].op = "del_messages" /\ job[w].side \in {"self", "opposite"}
           /\ Has(Owner(job[w]), Key(job[w])) /\ AtHand(w) \in Seq(Message) /\ Listed(w)
           /\ AtHand(w) = Lists[Owner(job[w])][Key(job[w])]
           /\ job[w].n = Len(AtHand(w)) /\ job[w].i \in 1 .. job[w].n + 1
           /\ \A k \in 1 .. job[w].i - 1 : AtHand(w)[k].id # job[w].id
           /\ job[w].pc # "match" => job[w].i \in 1 .. Len(AtHand(w)) /\ InRange(w)
                                     /\ AtHand(w)[job[w].i].id = job[w].id
           /\ job[w].pc = "unlink" => Attachment(AtHand(w)[job[w].i])
           /\ job[w].side = "opposite" => Halfway(job[w])
           /\ job[w].side = "self" =>
                 Lists = committed.history /\ AtHand(w) = committed.history[job[w].user][job[w].target]
<1>1. /\ job[w].pc \in Using /\ job[w].pc \in Chats
  BY DEF Using, Chats
<1>2. /\ job[w] \in Busy /\ job[w].pc # "idle" /\ Typed /\ Lists = HistoryOf(job[w])
      /\ job[w].op \in Sends \cup {"del_messages"}
  BY <1>1, Chatting
<1>3. HasAtHand(job[w]) /\ Searched(job[w])
  BY <1>2, Doing DEF HasAtHand
<1>4. job[w].op = "del_messages" /\ job[w].side \in {"self", "opposite"}
  BY <1>2 DEF Busy, SInv, IInv, Owned, JobOK, InStep
<1>5. Has(Owner(job[w]), Key(job[w]))
  BY <1>3, <1>4 DEF HasAtHand, Owner, Key
<1>6. AtHand(w) = Lists[Owner(job[w])][Key(job[w])] /\ AtHand(w) \in Seq(Message) /\ Listed(w)
  BY <1>1, <1>5, AtHandIs
<1>7. /\ job[w].n = Len(AtHand(w)) /\ job[w].i \in 1 .. job[w].n + 1
      /\ \A k \in 1 .. job[w].i - 1 : AtHand(w)[k].id # job[w].id
      /\ job[w].pc # "match" => job[w].i <= job[w].n /\ AtHand(w)[job[w].i].id = job[w].id
      /\ job[w].pc = "unlink" => Attachment(AtHand(w)[job[w].i])
  BY <1>3 DEF Searched, AtHand
<1>8. job[w].pc # "match" => job[w].i \in 1 .. Len(AtHand(w)) /\ InRange(w)
  BY <1>6, <1>7 DEF InRange
<1>9. job[w].side = "opposite" => Halfway(job[w])
  BY <1>1 DEF Halfway
<1>10. job[w].side = "self" => Lists = committed.history
  BY <1>2 DEF HistoryOf, Halfway
<1>. QED BY <1>1, <1>2, <1>3, <1>4, <1>5, <1>6, <1>7, <1>8, <1>9, <1>10 DEF Owner, Key

\* The position moves on, or stays at the message looked for.
LEMMA matchSteps ==
    ASSUME SInv, NEW w, Workers = {w}, match(w), Ticks, IInv'
    PROVE  SInv' /\ Serves
<1>1. /\ job[w].pc = "match" /\ UNCHANGED <<db, disk, next_id, started>>
      /\ UNCHANGED <<dicts, current, dirs>>
      /\ UNCHANGED <<accounts, current, disk, next_id, started>>
  BY DEF match, At, db, disk
<1>2. /\ job[w].pc \in Using /\ job[w].pc \in Chats /\ job[w].pc # "idle"
      /\ job[w] \in Busy /\ Typed /\ HasAtHand(job[w])
      /\ job[w].op = "del_messages" /\ job[w].side \in {"self", "opposite"}
      /\ Has(Owner(job[w]), Key(job[w])) /\ (job[w].side = "opposite" => Halfway(job[w]))
  BY <1>1, Searching
<1>3. /\ AtHand(w) \in Seq(Message) /\ AtHand(w) = Lists[Owner(job[w])][Key(job[w])]
      /\ job[w].n = Len(AtHand(w)) /\ job[w].i \in 1 .. job[w].n + 1
      /\ \A k \in 1 .. job[w].i - 1 : AtHand(w)[k].id # job[w].id
      /\ job[w].side = "self" =>
            Lists = committed.history /\ AtHand(w) = committed.history[job[w].user][job[w].target]
  BY <1>1, Searching
<1>0. PICK u \in Names, v \in Names : u = job[w].user /\ v = job[w].target
  BY <1>2, <1>3, Chatting
<1>4. PICK id : u = job[w].user /\ v = job[w].target /\ id = job[w].id
  BY <1>0
<1>5. \A x \in DOMAIN current : DOMAIN dicts'[current'[x]] = DOMAIN dicts[current[x]]
  BY <1>1
<1>6. Lists' = Lists /\ Lists = HistoryOf(job[w])
  BY <1>1, <1>2, <1>3, SameTables, Chatting
<1>7. CASE job[w].i > job[w].n
  <2>1. Leave(w)
    BY <1>2, <1>3, <1>7 DEF match
  <2>2. \A k \in 1 .. Len(AtHand(w)) : AtHand(w)[k].id # id
    BY <1>2, <1>3, <1>4, <1>7
  <2>3. Server!Without(AtHand(w), id) = AtHand(w)
    BY <1>2, <1>3, <2>2, WithoutNothing
  <2>4. CASE job[w].side = "self"
    <3>1. PICK j \in Busy :
             /\ job' = [job EXCEPT ![w] = j] /\ j.pc = "iterate" /\ j.op = job[w].op
             /\ j.token = job[w].token /\ j.user = job[w].user /\ j.target = job[w].target
             /\ j.id = job[w].id /\ j.side = job[w].side /\ j.dict = job[w].dict
      BY <1>2, <1>3, <2>1, <2>4, Moves DEF Leave, PCs
    <3>2. committed' = committed /\ Committed
      BY <1>2, <1>3, <3>1, NothingCommitted DEF SInv
    <3>3. j.pc \in Using /\ Halfway(j) /\ ~ Drawn(j) /\ ~ Drawn(job[w]) /\ ~ Halfway(job[w])
      BY <1>1, <1>2, <1>3, <2>4, <3>1 DEF Using, Halfway, Drawn, Sends
    <3>4. PathsOf(u, v, id) = {}
      BY <1>2, <1>3, <1>4, <2>2, <2>4 DEF PathsOf, ToSet
    <3>5. HistoryOf(j) = [committed.history EXCEPT ![u][v] = Server!Without(committed.history[u][v], id)]
      BY <1>2, <1>3, <1>4, <3>1, <3>3 DEF HistoryOf, Sends
    <3>6. HistoryOf(j) = committed.history
      <4>1. Server!Without(committed.history[u][v], id) = committed.history[u][v]
        BY <1>3, <1>4, <2>3, <2>4
      <4>2. committed.history \in [Names -> [Names -> Seq(Message)]]
        BY <3>2 DEF Committed
      <4>. QED BY <3>5, <4>1, <4>2
    <3>7. HistoryOf(job[w]) = committed.history /\ FilesOf(j) = FilesOf(job[w])
      BY <1>1, <1>2, <1>3, <1>4, <1>6, <2>4, <3>1, <3>3, <3>4 DEF FilesOf
    <3>8. HasAtHand(j)'
      BY <1>1, <1>2, <1>3, <1>4, <2>4, <3>1, <3>2, <3>3, <3>4
         DEF HasAtHand, Has, Owner, Key, Halfway, Using, Sends, Server!MayUnsend, Server!Held, PathsOf
    <3>. QED BY <1>1, <1>2, <1>3, <3>1, <3>3, <3>6, <3>7, <3>8, ChatMoves
  <2>5. CASE job[w].side = "opposite"
    <3>1. Answer(w, "ok")
      BY <2>1, <2>5 DEF Leave
    <3>2. Has(v, u) /\ AtHand(w) = Lists[v][u] /\ Lists \in [Names -> [Names -> Seq(Message)]]
      BY <1>2, <1>3, <1>4, <2>5, ListsTyped DEF Owner, Key, SInv
    <3>3. Lists = [committed.history EXCEPT ![u][v] = Server!Without(@, id)]
      BY <1>1, <1>2, <1>3, <1>4, <1>6, <2>5 DEF HistoryOf, Sends
    <3>4. [Lists EXCEPT ![v][u] = Server!Without(@, id)] = Lists
      BY <2>3, <3>2
    <3>5. Lists' = Server!BothRemove(u, v, id)
      BY <1>6, <3>2, <3>3, <3>4 DEF Server!BothRemove, Has
    <3>. QED BY <1>1, <1>2, <1>3, <1>4, <1>5, <2>5, <3>1, <3>5, Unsends
  <2>. QED BY <1>2, <1>3, <2>4, <2>5
<1>8. CASE job[w].i <= job[w].n
  <2>1. job[w].i \in 1 .. Len(AtHand(w))
    BY <1>2, <1>3, <1>8
  <2>2. CASE AtHand(w)[job[w].i].id # id
    <3>1. PICK j : j = [job[w] EXCEPT !.i = job[w].i + 1]
      OBVIOUS
    <3>2. job' = [job EXCEPT ![w] = j]
      BY <1>2, <1>3, <1>4, <1>8, <2>2, <3>1 DEF match, Typed
    <3>3. /\ j \in Busy /\ j.pc = "match" /\ j.op = job[w].op /\ j.side = job[w].side
          /\ j.token = job[w].token /\ j.user = job[w].user /\ j.target = job[w].target
          /\ j.id = job[w].id /\ j.dict = job[w].dict /\ j.key = job[w].key
          /\ j.i = job[w].i + 1 /\ j.n = job[w].n
      <4>1. job[w].i + 1 \in Nat
        BY <1>3
      <4>. QED BY <1>1, <1>2, <3>1, <4>1 DEF Busy, PCs
    <3>4. committed' = committed
      BY <1>2, <1>3, <3>2, <3>3, NothingCommitted
    <3>5. j.pc \in Using /\ (Halfway(j) <=> Halfway(job[w])) /\ (Drawn(j) <=> Drawn(job[w]))
      BY <1>1, <1>2, <1>3, <3>3 DEF Using, Halfway, Drawn, Sends
    <3>6. HistoryOf(j) = HistoryOf(job[w]) /\ FilesOf(j) = FilesOf(job[w])
      BY <1>1, <1>2, <1>3, <3>3, <3>5 DEF HistoryOf, FilesOf, Sends
    <3>7. Searched(j)'
      <4>1. /\ j.i \in 1 .. j.n + 1 /\ j.n = Len(AtHand(w))
            /\ \A k \in 1 .. j.i - 1 : AtHand(w)[k].id # j.id
        <5>1. PICK i \in Nat, a \in Seq(Message) : i = job[w].i /\ a = AtHand(w)
          BY <1>3
        <5>2. i \in 1 .. Len(a) /\ (\A k \in 1 .. i - 1 : a[k].id # id) /\ a[i].id # id
          BY <1>3, <1>4, <2>1, <2>2, <5>1
        <5>3. i + 1 \in 1 .. Len(a) + 1 /\ \A k \in 1 .. (i + 1) - 1 : a[k].id # id
          <6>1. Len(a) \in Nat
            OBVIOUS
          <6>2. \A k \in 1 .. (i + 1) - 1 : k \in 1 .. i - 1 \/ k = i
            BY <5>2
          <6>. QED BY <5>2, <6>1, <6>2
        <5>. QED BY <1>3, <1>4, <3>3, <5>1, <5>3
      <4>2. AtHand(w) = dicts'[j.dict][j.key]
        BY <1>1, <3>3 DEF AtHand
      <4>. QED BY <3>3, <4>1, <4>2 DEF Searched
    <3>8. HasAtHand(j)'
      BY <1>1, <1>2, <1>3, <3>3, <3>4, <3>5, <3>7
         DEF HasAtHand, Has, Owner, Key, Using, Sends, Server!MayUnsend, Server!Held, PathsOf
    <3>. QED BY <1>1, <1>2, <1>3, <3>2, <3>3, <3>5, <3>6, <3>8, ChatMoves
  <2>3. CASE AtHand(w)[job[w].i].id = id
    <3>1. PICK pc \in {"type", "pop"} :
             Goto(w, pc) /\ pc = (IF job[w].side = "self" THEN "type" ELSE "pop")
      BY <1>2, <1>3, <1>4, <1>8, <2>3 DEF match
    <3>2. PICK j \in Busy :
             /\ job' = [job EXCEPT ![w] = j] /\ j.pc = pc /\ j.op = job[w].op
             /\ j.token = job[w].token /\ j.user = job[w].user /\ j.target = job[w].target
             /\ j.id = job[w].id /\ j.side = job[w].side /\ j.dict = job[w].dict
             /\ j.key = job[w].key /\ j.i = job[w].i /\ j.n = job[w].n
      BY <1>2, <1>3, <3>1, Moves DEF PCs
    <3>3. committed' = committed
      BY <1>2, <1>3, <3>2, NothingCommitted
    <3>4. j.pc \in Using /\ (Halfway(j) <=> Halfway(job[w])) /\ (Drawn(j) <=> Drawn(job[w]))
      BY <1>1, <1>2, <1>3, <3>1, <3>2 DEF Using, Halfway, Drawn, Sends
    <3>5. HistoryOf(j) = HistoryOf(job[w]) /\ FilesOf(j) = FilesOf(job[w])
      BY <1>1, <1>2, <1>3, <3>1, <3>2, <3>4 DEF HistoryOf, FilesOf, Sends
    <3>6. Searched(j)'
      <4>1. AtHand(w) = dicts'[j.dict][j.key]
        BY <1>1, <3>2 DEF AtHand
      <4>. QED BY <1>2, <1>3, <1>4, <1>8, <2>3, <3>1, <3>2, <4>1 DEF Searched
    <3>7. HasAtHand(j)'
      BY <1>1, <1>2, <3>1, <3>2, <3>3, <3>4, <3>6
         DEF HasAtHand, Has, Owner, Key, Using, Sends, Server!MayUnsend, Server!Held, PathsOf
    <3>. QED BY <1>1, <1>2, <1>3, <3>2, <3>4, <3>5, <3>7, ChatMoves
  <2>. QED BY <2>2, <2>3
<1>. QED BY <1>2, <1>3, <1>7, <1>8

\* The files to remove are those of the message found: there is no other with its id.
LEMMA PathsFound ==
    ASSUME SInv, NEW w \in Workers, job[w].pc \in {"type", "unlink", "pop"}, job[w].side = "self",
           NEW u \in Names, NEW v \in Names, NEW id, NEW m,
           u = job[w].user, v = job[w].target, id = job[w].id, m = AtHand(w)[job[w].i]
    PROVE  PathsOf(u, v, id) = IF Attachment(m) THEN {FileOf(m)} ELSE {}
<1>1. /\ AtHand(w) \in Seq(Message) /\ Listed(w) /\ job[w].pc \in Using /\ job[w].pc # "known"
      /\ job[w].i \in 1 .. Len(AtHand(w)) /\ m.id = id
      /\ AtHand(w) = committed.history[u][v]
  BY Searching
<1>2. job[w].dict \in DOMAIN dicts
  BY <1>1, TheListAtHand
<1>3. m \in ToSet(AtHand(w))
  <2>1. PICK s, i : s \in Seq(Message) /\ i \in 1 .. Len(s) /\ s = AtHand(w) /\ i = job[w].i
    BY <1>1
  <2>2. s[i] \in ToSet(s)
    BY <2>1 DEF ToSet
  <2>. QED BY <2>1, <2>2
<1>4. \A n \in ToSet(AtHand(w)) : n.id = id => n = m
  BY <1>1, <1>2, <1>3 DEF SInv, IInv, Owned, OneId, AtHand, Listed
<1>5. {n \in ToSet(AtHand(w)) : n.id = id /\ Attachment(n)} = IF Attachment(m) THEN {m} ELSE {}
  BY <1>1, <1>3, <1>4
<1>. QED BY <1>1, <1>5 DEF PathsOf

\* A text, or an attachment, whose file comes first.
LEMMA typeSteps ==
    ASSUME SInv, NEW w, Workers = {w}, type(w), Ticks, IInv'
    PROVE  SInv' /\ Serves
<1>1. /\ job[w].pc = "type" /\ UNCHANGED <<db, disk, next_id, started>>
      /\ UNCHANGED <<dicts, current, dirs>>
  BY DEF type, At, db, disk
<1>2. /\ job[w].pc \in Using /\ job[w].pc \in Chats /\ job[w].pc # "idle"
      /\ job[w] \in Busy /\ Typed /\ HasAtHand(job[w]) /\ job[w].op = "del_messages"
      /\ Has(Owner(job[w]), Key(job[w]))
  BY <1>1, Searching
<1>3. /\ job[w].n = Len(AtHand(w)) /\ job[w].i \in 1 .. job[w].n + 1
      /\ \A k \in 1 .. job[w].i - 1 : AtHand(w)[k].id # job[w].id
      /\ job[w].i <= job[w].n /\ AtHand(w)[job[w].i].id = job[w].id
  BY <1>1, Searching
<1>4. job[w].side = "self"
  BY <1>1, <1>2 DEF HasAtHand
<1>0. PICK u \in Names, v \in Names : u = job[w].user /\ v = job[w].target
  BY <1>2, Chatting
<1>5. PICK id, m :
         u = job[w].user /\ v = job[w].target /\ id = job[w].id /\ m = AtHand(w)[job[w].i]
  BY <1>0
<1>6. PathsOf(u, v, id) = IF Attachment(m) THEN {FileOf(m)} ELSE {}
  BY <1>1, <1>4, <1>5, PathsFound
<1>7. PICK pc \in {"unlink", "pop"} :
         Goto(w, pc) /\ pc = (IF Attachment(m) THEN "unlink" ELSE "pop")
  BY <1>5 DEF type
<1>8. PICK j \in Busy :
         /\ job' = [job EXCEPT ![w] = j] /\ j.pc = pc /\ j.op = job[w].op
         /\ j.token = job[w].token /\ j.user = job[w].user /\ j.target = job[w].target
         /\ j.id = job[w].id /\ j.side = job[w].side /\ j.dict = job[w].dict
         /\ j.key = job[w].key /\ j.i = job[w].i /\ j.n = job[w].n
  BY <1>2, <1>7, Moves DEF PCs
<1>9. committed' = committed
  BY <1>2, <1>8, NothingCommitted
<1>10. /\ j.pc \in Using /\ ~ Halfway(j) /\ ~ Halfway(job[w]) /\ ~ Drawn(j) /\ ~ Drawn(job[w])
  BY <1>1, <1>2, <1>4, <1>7, <1>8 DEF Using, Halfway, Drawn, Sends
<1>11. HistoryOf(j) = HistoryOf(job[w]) /\ FilesOf(j) = FilesOf(job[w])
  BY <1>1, <1>5, <1>6, <1>7, <1>8, <1>10 DEF HistoryOf, FilesOf
<1>12. Searched(j)'
  <2>1. AtHand(w) = dicts'[j.dict][j.key]
    BY <1>1, <1>8 DEF AtHand
  <2>2. j.pc = "unlink" => Attachment(AtHand(w)[j.i])
    BY <1>5, <1>7, <1>8
  <2>. QED BY <1>3, <1>8, <2>1, <2>2 DEF Searched
<1>13. PathsOf(u, v, id)' = PathsOf(u, v, id)
  BY <1>9 DEF PathsOf
<1>14. HasAtHand(j)'
  BY <1>1, <1>2, <1>4, <1>5, <1>6, <1>7, <1>8, <1>9, <1>10, <1>12, <1>13
     DEF HasAtHand, Has, Owner, Key, Halfway, Using, Sends, Server!MayUnsend, Server!Held
<1>. QED BY <1>1, <1>2, <1>8, <1>10, <1>11, <1>14, ChatMoves

\* The file of an attachment is removed, if it is there.
LEMMA unlinkSteps ==
    ASSUME SInv, NEW w, Workers = {w}, unlink(w), Ticks, IInv'
    PROVE  SInv' /\ Serves
<1>1. /\ job[w].pc = "unlink" /\ UNCHANGED <<db, dirs, next_id, started>>
      /\ UNCHANGED <<accounts, dicts, current, dirs, next_id, started>>
  BY DEF unlink, At, db
<1>2. /\ job[w].pc \in Using /\ job[w].pc \in Chats /\ job[w].pc # "idle"
      /\ job[w] \in Busy /\ Typed /\ HasAtHand(job[w]) /\ job[w].op = "del_messages"
      /\ Has(Owner(job[w]), Key(job[w])) /\ Attachment(AtHand(w)[job[w].i])
  BY <1>1, Searching
<1>3. /\ job[w].n = Len(AtHand(w)) /\ job[w].i \in 1 .. job[w].n + 1
      /\ \A k \in 1 .. job[w].i - 1 : AtHand(w)[k].id # job[w].id
      /\ job[w].i <= job[w].n /\ AtHand(w)[job[w].i].id = job[w].id
  BY <1>1, Searching
<1>4. job[w].side = "self" /\ Lists = committed.history
  BY <1>1, <1>2, Searching DEF HasAtHand
<1>0. PICK u \in Names, v \in Names : u = job[w].user /\ v = job[w].target
  BY <1>2, Chatting
<1>5. PICK id, m :
         u = job[w].user /\ v = job[w].target /\ id = job[w].id /\ m = AtHand(w)[job[w].i]
  BY <1>0
<1>6. PathsOf(u, v, id) = {FileOf(m)} /\ Attachment(m)
  <2>1. Attachment(m)
    BY <1>2, <1>5
  <2>. QED BY <1>1, <1>4, <1>5, <2>1, PathsFound
<1>7. Untouched(job[w]) /\ files = committed.files
  BY <1>1, <1>2, <1>4, NotYet, Chatting DEF Sends, Untouched
<1>8. CASE FileOf(m) \notin files
  <2>1. Answer(w, "exception") /\ UNCHANGED <<db, disk, next_id, started>>
    BY <1>1, <1>5, <1>8 DEF unlink, disk
  <2>2. SInv' /\ Server!Refuse("del_messages", u, "exception")
    BY <1>2, <1>5, <1>7, <2>1, RefusesUntouched
  <2>3. /\ ~ (PathsOf(u, v, id) \subseteq committed.files) /\ v \in committed.friend_list[u]
    BY <1>2, <1>4, <1>5, <1>6, <1>7, <1>8 DEF Has, Owner, Key
  <2>4. PathsOf(u, v, id)
        = {Server!FileOf(n) : n \in {n \in Server!Held(u, v) : n.id = id /\ Server!Attachment(n)}}
    BY DEF PathsOf, Server!FileOf, FileOf, Server!Held, Server!Attachment, Attachment,
           Server!ToSet, ToSet
  <2>5. Server!del_messages(u, v, id)
    BY <2>2, <2>3, <2>4 DEF Server!del_messages
  <2>6. Server!MayUnsend(u, v, id) /\ id \in 0 .. MaxId
    BY <1>2, <1>5, IdInBound
  <2>. QED BY <2>2, <2>5, <2>6, ServerServes DEF Server!Serve
<1>9. CASE FileOf(m) \in files
  <2>1. Goto(w, "pop") /\ files' = files \ {FileOf(m)}
    BY <1>5, <1>6, <1>9 DEF unlink
  <2>2. PICK j \in Busy :
           /\ job' = [job EXCEPT ![w] = j] /\ j.pc = "pop" /\ j.op = job[w].op
           /\ j.token = job[w].token /\ j.user = job[w].user /\ j.target = job[w].target
           /\ j.id = job[w].id /\ j.side = job[w].side /\ j.dict = job[w].dict
           /\ j.key = job[w].key /\ j.i = job[w].i /\ j.n = job[w].n
    BY <1>2, <2>1, Moves DEF PCs
  <2>3. committed' = committed
    BY <1>2, <2>2, NothingCommitted
  <2>4. j.pc \in Using /\ ~ Halfway(j) /\ ~ Drawn(j) /\ ~ Drawn(job[w])
    BY <1>1, <1>2, <1>4, <2>2 DEF Using, Halfway, Drawn, Sends
  <2>5. HistoryOf(j) = committed.history /\ FilesOf(j) = committed.files \ PathsOf(u, v, id)
    BY <1>4, <1>5, <2>2, <2>4 DEF HistoryOf, FilesOf
  <2>6. Lists' = HistoryOf(j) /\ files' = FilesOf(j)
    BY <1>1, <1>4, <1>6, <1>7, <2>1, <2>5, SameTables
  <2>7. \A x \in DOMAIN current : DOMAIN dicts'[current'[x]] = DOMAIN dicts[current[x]]
    BY <1>1
  <2>8. Searched(j)'
    <3>1. AtHand(w) = dicts'[j.dict][j.key]
      BY <1>1, <2>2 DEF AtHand
    <3>. QED BY <1>3, <2>2, <3>1 DEF Searched
  <2>9. PathsOf(u, v, id)' = PathsOf(u, v, id)
    BY <2>3 DEF PathsOf
  <2>10. HasAtHand(j)'
    BY <1>1, <1>2, <1>4, <1>5, <1>6, <1>7, <1>9, <2>2, <2>3, <2>4, <2>8, <2>9
       DEF HasAtHand, Has, Owner, Key, Halfway, Using, Sends, Server!MayUnsend, Server!Held
  <2>11. next_id' = (IF Drawn(j) THEN committed.next_id + 1 ELSE committed.next_id)
         /\ next_id' <= FirstId + started
    BY <1>1, <1>2, <2>4, Chatting DEF SInv
  <2>. QED BY <1>1, <1>2, <2>2, <2>4, <2>6, <2>7, <2>10, <2>11, ChatGoes
<1>. QED BY <1>8, <1>9

\* The message found is taken off the list at hand.
LEMMA popSteps ==
    ASSUME SInv, NEW w, Workers = {w}, pop(w), Ticks, IInv'
    PROVE  SInv' /\ Serves
<1>1. /\ job[w].pc = "pop" /\ UNCHANGED <<accounts, current, disk, next_id, started>>
      /\ UNCHANGED <<accounts, current, dirs, files, next_id, started>>
  BY DEF pop, At, disk
<1>2. /\ job[w].pc \in Using /\ job[w].pc \in Chats /\ job[w].pc # "idle"
      /\ job[w] \in Busy /\ Typed /\ HasAtHand(job[w]) /\ job[w].op = "del_messages"
      /\ job[w].side \in {"self", "opposite"} /\ Has(Owner(job[w]), Key(job[w]))
      /\ (job[w].side = "opposite" => Halfway(job[w]))
  BY <1>1, Searching
<1>0. PICK u \in Names, v \in Names : u = job[w].user /\ v = job[w].target
  BY <1>2, Chatting
<1>3. PICK id : u = job[w].user /\ v = job[w].target /\ id = job[w].id
  BY <1>0
<1>4. PICK e : e = RemoveAt(AtHand(w), job[w].i)
  OBVIOUS
<1>5. e = Server!Without(AtHand(w), id)
  <2>1. PICK s, i : s \in Seq(Message) /\ i \in 1 .. Len(s) /\ s = AtHand(w) /\ i = job[w].i
    BY <1>1, Searching
  <2>2. i \in 1 .. Len(s) /\ s[i].id = id /\ \A k \in 1 .. i - 1 : s[k].id # id
    BY <1>1, <1>3, <2>1, Searching
  <2>3. Server!Without(s, id) = RemoveAt(s, i)
    BY <2>1, <2>2, WithoutFound
  <2>. QED BY <1>4, <2>1, <2>3
<1>6. Puts(job[w].dict, job[w].key, e)
  BY <1>4 DEF pop, Puts, AtHand
<1>7. /\ Lists' = [Lists EXCEPT ![Owner(job[w])][Key(job[w])] = Server!Without(@, id)]
      /\ \A x \in DOMAIN current : DOMAIN dicts'[current'[x]] = DOMAIN dicts[current[x]]
  <2>1. /\ Lists' = [Lists EXCEPT ![Owner(job[w])][Key(job[w])] = e]
        /\ \A x \in DOMAIN current : DOMAIN dicts'[current'[x]] = DOMAIN dicts[current[x]]
    BY <1>1, <1>2, <1>6, AtHandReplaced
  <2>2. AtHand(w) = Lists[Owner(job[w])][Key(job[w])]
    BY <1>1, Searching
  <2>. QED BY <1>5, <2>1, <2>2
<1>8. Leave(w)
  BY DEF pop
<1>9. CASE job[w].side = "self"
  <2>1. PICK j \in Busy :
           /\ job' = [job EXCEPT ![w] = j] /\ j.pc = "iterate" /\ j.op = job[w].op
           /\ j.token = job[w].token /\ j.user = job[w].user /\ j.target = job[w].target
           /\ j.id = job[w].id /\ j.side = job[w].side /\ j.dict = job[w].dict
    BY <1>2, <1>8, <1>9, Moves DEF Leave, PCs
  <2>2. committed' = committed
    BY <1>2, <2>1, NothingCommitted
  <2>3. j.pc \in Using /\ Halfway(j) /\ ~ Drawn(j) /\ ~ Drawn(job[w])
    BY <1>1, <1>2, <2>1 DEF Using, Halfway, Drawn, Sends
  <2>4. Lists' = HistoryOf(j)
    <3>1. Lists = committed.history /\ Owner(job[w]) = u /\ Key(job[w]) = v
      BY <1>1, <1>3, <1>9, Searching DEF Owner, Key
    <3>. QED BY <1>2, <1>3, <1>7, <2>1, <2>3, <3>1 DEF HistoryOf, Sends
  <2>5. files' = FilesOf(j)
    <3>1. files = committed.files \ PathsOf(u, v, id)
      BY <1>1, <1>2, <1>3, <1>9, Chatting DEF FilesOf
    <3>. QED BY <1>1, <1>2, <1>3, <2>1, <2>3, <3>1 DEF FilesOf
  <2>6. PathsOf(u, v, id)' = PathsOf(u, v, id)
    BY <2>2 DEF PathsOf
  <2>7. HasAtHand(j)'
    BY <1>1, <1>2, <1>3, <1>9, <2>1, <2>2, <2>3, <2>6
       DEF HasAtHand, Has, Owner, Key, Halfway, Using, Sends, Server!MayUnsend, Server!Held
  <2>8. next_id' = (IF Drawn(j) THEN committed.next_id + 1 ELSE committed.next_id)
        /\ next_id' <= FirstId + started
    BY <1>1, <1>2, <2>3, Chatting DEF SInv
  <2>. QED BY <1>1, <1>2, <1>7, <2>1, <2>3, <2>4, <2>5, <2>7, <2>8, ChatGoes
<1>10. CASE job[w].side = "opposite"
  <2>1. Answer(w, "ok") /\ Owner(job[w]) = v /\ Key(job[w]) = u
    BY <1>3, <1>8, <1>10 DEF Leave, Owner, Key
  <2>2. Lists = [committed.history EXCEPT ![u][v] = Server!Without(@, id)]
    BY <1>1, <1>2, <1>3, <1>10, Chatting DEF HistoryOf, Sends
  <2>3. Lists' = Server!BothRemove(u, v, id)
    BY <1>2, <1>7, <2>1, <2>2 DEF Server!BothRemove, Has
  <2>. QED BY <1>1, <1>2, <1>3, <1>7, <1>10, <2>1, <2>3, Unsends
<1>. QED BY <1>2, <1>9, <1>10

\* A request to someone who is not a friend raises, and nothing else does.
LEMMA raiseSteps ==
    ASSUME SInv, NEW w, Workers = {w}, raise(w), Ticks, IInv'
    PROVE  SInv' /\ Serves
<1>1. job[w].pc \in {"append", "len"} /\ ~ Listed(w)
  <2>1. job[w].pc \in {"match", "type", "unlink", "pop"} =>
           Listed(w) /\ job[w].n = Len(AtHand(w)) /\ (job[w].pc # "match" => InRange(w))
    BY Searching
  <2>. QED BY <2>1 DEF raise, At, InRange
<1>2. /\ job[w].pc \in Using /\ job[w].pc \in Chats /\ job[w].pc # "known"
      /\ Answer(w, "exception") /\ UNCHANGED <<db, disk, next_id, started>>
  BY <1>1 DEF raise, Using, Chats
<1>3. /\ job[w] \in Busy /\ job[w].pc # "idle" /\ job[w].op \in Sends \cup {"del_messages"}
      /\ job[w].user \in Names /\ job[w].target \in Names
      /\ Lists = HistoryOf(job[w]) /\ files = FilesOf(job[w])
      /\ dirs = committed.dirs
      /\ next_id = IF Drawn(job[w]) THEN committed.next_id + 1 ELSE committed.next_id
  BY <1>2, Chatting
<1>4. HasAtHand(job[w])
  BY <1>3, Doing
<1>5. ~ Has(Owner(job[w]), Key(job[w])) /\ job[w].side \in {"self", "opposite"}
  BY <1>1, <1>2, TheListAtHand
<1>6. job[w].side = "self"
  BY <1>1, <1>4, <1>5 DEF HasAtHand, Owner, Key
<1>7. PICK u \in Names, v \in Names : u = job[w].user /\ v = job[w].target
  BY <1>3
<1>8. Server!MissingKey(u, v)
  BY <1>2, <1>4, <1>5, <1>6, <1>7 DEF HasAtHand, Has, Owner, Key, Server!MissingKey
<1>9. CASE job[w].pc = "append"
  <2>1. job[w].op \in Sends /\ Drawn(job[w])
    BY <1>9 DEF SInv, IInv, Owned, JobOK, InStep, Drawn
  <2>2. Lists = committed.history /\ files = committed.files
    BY <1>3, <1>6, <1>9 DEF HistoryOf, FilesOf, Halfway, Using
  <2>3. /\ SInv' /\ UNCHANGED <<committed.users, committed.friend_list, committed.history,
                               committed.dirs, committed.files>>
        /\ committed'.next_id = next_id
        /\ committed'.reply = [op |-> job[w].op, by |-> job[w].user, status |-> "exception"]
    BY <1>2, <2>2, ChatRefuses
  <2>4. next_id = committed.next_id + 1 /\ committed.next_id <= MaxId
    BY <1>2, <1>3, <2>1, IdsLeft
  <2>5. Server!put_messages(u, v) \/ Server!put_messages_file(u, v)
    BY <1>7, <1>8, <2>1, <2>3, <2>4
       DEF Sends, Server!put_messages, Server!put_messages_file, Server!DrawId, Server!Answer
  <2>. QED BY <2>3, <2>5, ServerServes DEF Server!Serve
<1>10. CASE job[w].pc = "len"
  <2>1. job[w].op = "del_messages"
    BY <1>3, <1>10 DEF SInv, IInv, Owned, JobOK, InStep
  <2>2. Untouched(job[w])
    BY <1>6, <1>10, <2>1, NotYet DEF Sends
  <2>3. SInv' /\ Server!Refuse("del_messages", u, "exception")
    BY <1>2, <1>3, <1>7, <2>1, <2>2, RefusesUntouched
  <2>4. PICK id \in 0 .. MaxId : id = job[w].id /\ Server!MayUnsend(u, v, id)
    BY <1>2, <1>7, <2>1, IdInBound
  <2>5. Server!del_messages(u, v, id)
    BY <1>8, <2>3 DEF Server!del_messages
  <2>. QED BY <2>3, <2>4, <2>5, ServerServes DEF Server!Serve
<1>. QED BY <1>1, <1>9, <1>10

-----------------------------------------------------------------------------
(* The initial state and the next-state relation.                           *)

\* The literal database, as the handlers find it and as ChatServer has it.
LEMMA SeedTables ==
    ASSUME Init
    PROVE  /\ Orderly /\ Usernames = DOMAIN SeedLists /\ DOMAIN SeedLists \subseteq Names
           /\ \A u \in DOMAIN SeedLists :
                 /\ dicts[current[u]] = SeedLists[u]
                 /\ DOMAIN SeedLists[u] \subseteq DOMAIN SeedLists
                 /\ FriendsOf(u) = DOMAIN SeedLists[u]
           /\ \A u \in Names \ DOMAIN SeedLists : FriendsOf(u) = {}
<1>1. /\ accounts = SeedAccounts /\ SeedAccounts \in Seq(Account)
      /\ \A i \in DOMAIN SeedAccounts : SeedAccounts[i] \in ToSet(SeedAccounts)
      /\ \A i \in DOMAIN SeedAccounts : SeedAccounts[i] \in Account
  BY SeedAssumption DEF Init, ToSet
<1>2. \A i, j \in DOMAIN SeedAccounts : SeedAccounts[i].username = SeedAccounts[j].username => i = j
  BY SeedFriendsAssumption
<1>3. /\ DOMAIN SeedLists = {a.username : a \in ToSet(SeedAccounts)}
      /\ \A i \in DOMAIN SeedAccounts :
            /\ SeedAccounts[i].username \in DOMAIN SeedLists
            /\ SeedAccounts[i].username \in Names
            /\ IsInjective(SeedAccounts[i].friend_list)
            /\ ToSet(SeedAccounts[i].friend_list) \subseteq DOMAIN SeedLists
            /\ DOMAIN SeedLists[SeedAccounts[i].username] = ToSet(SeedAccounts[i].friend_list)
  <2>1. DOMAIN SeedLists = {a.username : a \in ToSet(SeedAccounts)}
    BY SeedAssumption
  <2>2. ASSUME NEW i \in DOMAIN SeedAccounts
        PROVE  /\ SeedAccounts[i].username \in DOMAIN SeedLists
               /\ SeedAccounts[i].username \in Names
               /\ IsInjective(SeedAccounts[i].friend_list)
               /\ ToSet(SeedAccounts[i].friend_list) \subseteq DOMAIN SeedLists
               /\ DOMAIN SeedLists[SeedAccounts[i].username] = ToSet(SeedAccounts[i].friend_list)
    <3>1. PICK a \in ToSet(SeedAccounts) : a = SeedAccounts[i] /\ a \in Account
      BY <1>1
    <3>2. SeedLists[a.username] \in [ToSet(a.friend_list) -> Seq(Message)]
      BY SeedAssumption
    <3>. QED BY <2>1, <3>1, <3>2, SeedFriendsAssumption DEF Account
  <2>. QED BY <2>1, <2>2
<1>4. Usernames = DOMAIN SeedLists
  BY <1>1, <1>3 DEF Usernames
<1>5. Orderly
  BY <1>1, <1>2, <1>3, <1>4 DEF Orderly, UniqueUsernames, Username
<1>6. ASSUME NEW u \in DOMAIN SeedLists
      PROVE  /\ u \in Names /\ dicts[current[u]] = SeedLists[u]
             /\ DOMAIN SeedLists[u] \subseteq DOMAIN SeedLists
             /\ FriendsOf(u) = DOMAIN SeedLists[u]
  <2>1. PICK i \in DOMAIN SeedAccounts : SeedAccounts[i].username = u
    BY <1>3 DEF ToSet
  <2>2. current[u] = i
    <3>1. current[u] = CHOOSE k \in DOMAIN SeedAccounts : SeedAccounts[k].username = u
      BY DEF Init
    <3>. QED BY <1>2, <2>1, <3>1
  <2>3. dicts[i] = SeedLists[u]
    BY <2>1 DEF Init
  <2>4. LET mine == {k \in DOMAIN SeedAccounts : SeedAccounts[k].username = SeedAccounts[i].username}
        IN mine # {} /\ Min(mine) = i
    BY <1>1, <1>2, FriendsOfUser
  <2>5. FriendsOf(u) = ToSet(SeedAccounts[i].friend_list)
    BY <1>1, <2>1, <2>4 DEF FriendsOf, Username
  <2>. QED BY <1>3, <2>1, <2>2, <2>3, <2>5
<1>7. \A u \in Names \ DOMAIN SeedLists : FriendsOf(u) = {}
  BY <1>1, <1>3 DEF FriendsOf, Username
<1>. QED BY <1>4, <1>5, <1>6, <1>7

\* The server starts with the literal database.
LEMMA SerialInitHolds == SerialInit => SInv /\ Server!Init
<1>. SUFFICES ASSUME SerialInit PROVE SInv /\ Server!Init
  OBVIOUS
<1>1. Init /\ IInv
  BY InitHolds DEF SerialInit
<1>2. /\ Orderly /\ Usernames = DOMAIN SeedLists /\ DOMAIN SeedLists \subseteq Names
      /\ \A u \in DOMAIN SeedLists :
            /\ dicts[current[u]] = SeedLists[u]
            /\ DOMAIN SeedLists[u] \subseteq DOMAIN SeedLists
            /\ FriendsOf(u) = DOMAIN SeedLists[u]
      /\ \A u \in Names \ DOMAIN SeedLists : FriendsOf(u) = {}
  BY <1>1, SeedTables
<1>3. DOMAIN current = DOMAIN SeedLists
  BY <1>1 DEF Init
<1>4. FriendLists = [u \in Names |-> IF u \in DOMAIN SeedLists THEN DOMAIN SeedLists[u] ELSE {}]
  BY <1>2 DEF FriendLists
<1>5. Lists = [u \in Names |-> [v \in Names |->
                  IF u \in DOMAIN SeedLists /\ v \in DOMAIN SeedLists[u]
                  THEN SeedLists[u][v] ELSE <<>>]]
  BY <1>2, <1>3 DEF Lists, ListOf, HasList
<1>6. /\ committed.users = Usernames /\ committed.friend_list = FriendLists
      /\ committed.history = Lists /\ committed.dirs = dirs
      /\ committed.files = files
      /\ committed.next_id = next_id
      /\ committed.reply = [reply EXCEPT !.op = "none"]
  BY DEF SerialInit, Tables, FriendLists, Lists
<1>7. Lists \in [Names -> [Names -> Seq(Message)]]
  BY <1>1, ListsTyped
<1>8. next_id = FirstId /\ FirstId \in Nat /\ started = 0 /\ \A w \in Workers : job[w] = Idle
  BY <1>1, SeedMessagesAssumption DEF Init
<1>9. Committed
  BY <1>2, <1>4, <1>6, <1>7, <1>8 DEF Committed
<1>10. DoneSoFar(Idle)
  <2>1. /\ UsersOf(Idle) = Usernames /\ FriendListOf(Idle) = FriendLists
        /\ KeysOf(Idle) = FriendLists /\ HistoryOf(Idle) = Lists /\ DirsOf(Idle) = dirs
        /\ FilesOf(Idle) = files /\ ~ Drawn(Idle)
    BY <1>6 DEF Idle, UsersOf, FriendListOf, KeysOf, HistoryOf, Halfway, Using, DirsOf, FilesOf, Drawn
  <2>2. \A u \in DOMAIN current : DOMAIN dicts[current[u]] = FriendLists[u]
    BY <1>2, <1>3, <1>4
  <2>. QED BY <1>2, <1>3, <1>6, <2>1, <2>2 DEF DoneSoFar
<1>11. \A w \in Workers : Progress(job[w]) /\ job[w].pc # "lookup"
  BY <1>8, <1>10 DEF Progress, Idle
<1>12. started \in 0 .. MaxStarted /\ next_id <= FirstId + started
  BY <1>8, SerialAssumption
<1>13. SInv
  BY <1>1, <1>2, <1>9, <1>11, <1>12 DEF SInv
<1>14. Server!Init
  <2>1. dirs = SeedDirs /\ files = {}
    BY <1>1 DEF Init
  <2>2. dirs = Server!SeedDirs
    <3>1. SeedChats = Server!SeedChats
      BY DEF SeedChats, Server!SeedChats
    <3>. QED BY <2>1, <3>1, SamePaths DEF SeedDirs, Server!SeedDirs
  <2>3. [reply EXCEPT !.op = "none"] \in [op : {"none"}, by : Names, status : {"ok"}]
    <3>1. 1 \in DOMAIN SeedAccounts /\ SeedAccounts[1] \in Account
      BY SeedAssumption
    <3>2. SeedAccounts[1].username \in Names
      BY <3>1 DEF Account
    <3>. QED BY <1>1, <3>2 DEF Init
  <2>. QED BY <1>2, <1>4, <1>5, <1>6, <1>8, <2>1, <2>2, <2>3 DEF Server!Init
<1>. QED BY <1>13, <1>14

\* Every access keeps the invariant; every answer is a step of ChatServer.
LEMMA SerialNextHolds ==
    SInv /\ [SerialNext]_<<vars, committed>> => SInv' /\ [Server!Next]_(Server!vars)
<1>. SUFFICES ASSUME SInv, [SerialNext]_<<vars, committed>>
              PROVE  SInv' /\ Serves
  BY DEF Serves, Server!vars, Server!store
<1>1. PICK w : Workers = {w}
  BY OneWorker
<1>2. IInv'
  BY NextHolds DEF SInv, SerialNext
<1>3. CASE UNCHANGED <<vars, committed>>
  <2>1. /\ UNCHANGED <<accounts, dicts, current, dirs, files, next_id, job, started>>
        /\ committed' = committed
    BY <1>3 DEF vars, db, disk
  <2>2. UNCHANGED <<Usernames, FriendLists, Lists>> /\ Orderly'
    BY <2>1, SameTables DEF SInv, db
  <2>3. Committed'
    BY <2>1 DEF SInv, Committed
  <2>4. Progress(job[w])'
    <3>1. PICK j : j = job[w] /\ j = job'[w]
      BY <2>1
    <3>2. Progress(j)
      BY <1>1, <3>1 DEF SInv
    <3>3. /\ UsersOf(j)' = UsersOf(j) /\ FriendListOf(j)' = FriendListOf(j)
          /\ KeysOf(j)' = KeysOf(j) /\ DirsOf(j)' = DirsOf(j)
      BY <2>1 DEF UsersOf, FriendListOf, KeysOf, DirsOf
    <3>4. HistoryOf(j)' = HistoryOf(j) /\ FilesOf(j)' = FilesOf(j)
      BY <2>1 DEF HistoryOf, FilesOf, PathsOf
    <3>5. DoneSoFar(j)'
      BY <2>1, <2>2, <3>2, <3>3, <3>4 DEF Progress, DoneSoFar, Drawn
    <3>6. FoundOut(j)' <=> FoundOut(j)
      BY <2>1 DEF FoundOut, Has, Username
    <3>7. HasAtHand(j)' <=> HasAtHand(j)
      BY <2>1 DEF HasAtHand, Has, Halfway, Searched, PathsOf, Server!MayUnsend, Server!Held
    <3>. QED BY <3>1, <3>2, <3>5, <3>6, <3>7 DEF Progress
  <2>. QED BY <1>1, <1>2, <2>1, <2>2, <2>3, <2>4 DEF SInv, Serves
<1>4. ASSUME SerialNext, NEW x \in Workers, NEW r \in Requests, Start(x, r)
      PROVE  SInv' /\ Serves
  BY <1>1, <1>2, <1>4, StartSteps DEF SerialNext, Ticks
<1>5. ASSUME SerialNext, NEW x \in Workers, Step(x)
      PROVE  SInv' /\ Serves
  <2>1. x = w /\ Ticks /\ Step(w)
    BY <1>1, <1>5 DEF SerialNext, Ticks
  <2>2. CASE scan(w) \/ add(w) \/ mkdir(w) \/ sub(w) \/ newdict(w)
    BY <1>1, <1>2, <2>1, <2>2, scanSteps, addSteps, mkdirSteps, newdictSteps
  <2>3. CASE check(w) \/ befriend(w) \/ newlist(w) \/ mkdir_friend(w)
    BY <1>1, <1>2, <2>1, <2>3, checkSteps, befriendSteps, newlistSteps, mkdir_friendSteps
  <2>4. CASE forget(w) \/ drop(w) \/ rmtree(w)
    BY <1>1, <1>2, <2>1, <2>4, forgetSteps, dropSteps, rmtreeSteps
  <2>5. CASE lookup(w) \/ append(w) \/ save(w) \/ imwrite(w)
    BY <1>1, <1>2, <2>1, <2>5, lookupSteps, appendSteps, saveSteps, imwriteSteps
  <2>6. CASE iterate(w) \/ find(w) \/ known(w) \/ len(w)
    BY <1>1, <1>2, <2>1, <2>6, iterateSteps, findSteps, knownSteps, lenSteps
  <2>7. CASE match(w) \/ type(w) \/ unlink(w) \/ pop(w) \/ raise(w)
    BY <1>1, <1>2, <2>1, <2>7, matchSteps, typeSteps, unlinkSteps, popSteps, raiseSteps
  <2>. QED BY <2>1, <2>2, <2>3, <2>4, <2>5, <2>6, <2>7 DEF Step
<1>6. CASE SerialNext /\ Done
  <2>1. UNCHANGED vars /\ ~ (AtRest' /\ ~ AtRest)
    BY <1>6 DEF Done, AtRest
  <2>2. UNCHANGED <<vars, committed>>
    BY <1>6, <2>1 DEF SerialNext
  <2>. QED BY <1>3, <2>2
<1>. QED BY <1>3, <1>4, <1>5, <1>6 DEF SerialNext, Next

-----------------------------------------------------------------------------
\* With one thread, whatever a handler has done so far is what it adds to the tables that
\* the last answer left (app_fake.py).
THEOREM SerialInvariance == SerialSpec => []SInv
<1>1. SerialInit => SInv
  BY SerialInitHolds
<1>2. SInv /\ [SerialNext]_<<vars, committed>> => SInv'
  BY SerialNextHolds
<1>. QED BY <1>1, <1>2, PTL DEF SerialSpec

\* The tables agree between two requests (app_fake.py): usernames are distinct, every
\* account has its dictionary, whose keys are its friends, each listed once.
THEOREM TheTablesAgree == SerialSpec => []TablesAgree
<1>1. SInv => TablesAgree
  <2>. SUFFICES ASSUME SInv, AtRest PROVE TablesAgree
    BY DEF TablesAgree
  <2>1. PICK w : Workers = {w}
    BY OneWorker
  <2>2. job[w].pc = "idle" /\ DoneSoFar(job[w]) /\ Orderly /\ Committed
    BY <2>1 DEF SInv, AtRest, At, Progress
  <2>3. /\ Usernames = DOMAIN current /\ FriendLists = committed.friend_list
        /\ \A u \in DOMAIN current : DOMAIN dicts[current[u]] = committed.friend_list[u]
    BY <2>2 DEF DoneSoFar, UsersOf, FriendListOf, KeysOf
  <2>4. ASSUME NEW a \in ToSet(accounts)
        PROVE  /\ IsInjective(a.friend_list)
               /\ ToSet(a.friend_list) = DOMAIN dicts[current[a.username]]
    <3>1. PICK t \in DOMAIN accounts : a = accounts[t]
      BY DEF ToSet
    <3>2. accounts \in Seq(Account)
      BY DEF SInv, IInv, Typed
    <3>3. LET mine == {k \in DOMAIN accounts : accounts[k].username = accounts[t].username}
          IN mine # {} /\ Min(mine) = t
      BY <2>2, <3>2, FriendsOfUser DEF Orderly, UniqueUsernames, Username
    <3>4. FriendsOf(a.username) = ToSet(a.friend_list)
      BY <3>1, <3>3 DEF FriendsOf, Username
    <3>5. a.username \in DOMAIN current /\ a.username \in Names
      <4>1. a.username \in Usernames
        BY DEF Usernames
      <4>2. a \in Account
        BY <3>1, <3>2
      <4>. QED BY <2>3, <4>1, <4>2 DEF Account
    <3>6. FriendLists[a.username] = FriendsOf(a.username)
      BY <3>5 DEF FriendLists
    <3>. QED BY <2>2, <2>3, <3>1, <3>4, <3>5, <3>6 DEF Orderly
  <2>. QED BY <2>2, <2>3, <2>4 DEF TablesAgree, Orderly
<1>. QED BY <1>1, SerialInvariance, PTL

\* One thread implements ChatServer: every answered request, the half-done ones that end in
\* an exception included, is one step of the handler as ChatServer has it (app_fake.py).
THEOREM SerialRefinement == SerialSpec => ServerRequests
<1>1. SerialInit => Server!Init
  BY SerialInitHolds
<1>2. SInv /\ [SerialNext]_<<vars, committed>> => [Server!Next]_(Server!vars)
  BY SerialNextHolds
<1>. QED BY <1>1, <1>2, SerialInvariance, PTL DEF SerialSpec, ServerRequests
=====================
