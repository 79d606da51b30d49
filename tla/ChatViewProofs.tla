---------------------------- MODULE ChatViewProofs ----------------------------
(***************************************************************************)
(* Proofs about ChatView, for every user, every number of clicks and every  *)
(* order of answers: the page makes only requests that ChatServer allows,   *)
(* so that the theorems of ChatServerProofs hold of the pages and the       *)
(* server together; and it shows a piece of one conversation.               *)
(***************************************************************************)
EXTENDS ChatView, ChatServerProofs, FiniteSetTheorems

(***************************************************************************)
(* The inductive invariant.  A page may hold a message long after the       *)
(* server has dropped it, and may name it in a request later still: what    *)
(* remains true of it is that nothing the server stores, or will store      *)
(* after a restart, has its id and is another message.                      *)
(***************************************************************************)
Seeds(u, v) == ToSet(SeedHistory[u][v])

Known(m) ==
    /\ m \in Message /\ m.id < next_id
    /\ \A u, v \in Names : \A n \in Held(u, v) \cup Seeds(u, v) : n.id = m.id => n = m

\* A list of known messages between me and one other, in order.
Shows(s) ==
    /\ s \in Seq(Message)
    /\ \A m \in ToSet(s) : Known(m)
    /\ \E v \in Names : /\ \A m \in ToSet(s) : Between(m, me, v)
                        /\ v # me => Increasing(s)

\* What a request of the page carries.
WellFormed(r) ==
    /\ r \in Request
    /\ r.op # "get_friends" => r.target \in Names
    /\ Shows(r.messages)
    /\ r.op = "del_messages" =>
          \E m \in Message : Known(m) /\ m.id = r.id /\ m.from # r.target

SeedsAgree ==
    \A u, v, a, b \in Names : \A m \in Held(u, v), n \in Seeds(a, b) : m.id = n.id => m = n

PageInv ==
    /\ ViewTypeOK
    /\ Shows(chat)
    /\ IsFiniteSet(requests) /\ \A r \in requests : WellFormed(r)

StoreInv == IInv /\ SeedsAgree /\ next_id <= MaxId + 1

ViewInv == StoreInv /\ PageInv

-----------------------------------------------------------------------------
(* The server's side.                                                       *)

\* Where the messages of a list come from, in one step of the server.
Origins ==
    /\ next_id <= next_id' /\ next_id' <= MaxId + 1
    /\ \A a, b \in Names : \A n \in Held(a, b)' :
          \/ n \in Held(a, b)
          \/ n \in Seeds(a, b)
          \/ n.id = next_id /\ next_id' = next_id + 1

\* A step that changes no list.
LEMMA SameOrigins ==
    ASSUME StoreInv, UNCHANGED history, next_id' = next_id \/ DrawId
    PROVE  Origins
<1>1. next_id \in Nat /\ MaxId \in Nat
  BY SeedHistoryAssumption DEF StoreInv, IInv, TypeOK
<1>. QED BY <1>1 DEF StoreInv, Origins, Held, DrawId

\* A request that is refused before it touches a list.
LEMMA RefusedOrigins ==
    ASSUME StoreInv, NEW op, NEW u, NEW status, NoHistory(op, u) \/ Refuse(op, u, status)
    PROVE  Origins
BY SameOrigins DEF NoHistory, Refuse, store

LEMMA SendOrigins ==
    ASSUME StoreInv, NEW u \in Names, NEW v \in Names, NEW m \in Message,
           m.id = next_id, DrawId,
           \/ v \in friend_list[u] /\ history' = BothAppend(u, v, m)
           \/ history' = [history EXCEPT ![u][v] = Append(@, m)]
    PROVE  Origins
<1>1. /\ next_id \in Nat /\ MaxId \in Nat
      /\ history \in [Names -> [Names -> Seq(Message)]]
  BY SeedHistoryAssumption DEF StoreInv, IInv, TypeOK
<1>2. next_id <= next_id' /\ next_id' <= MaxId + 1 /\ next_id' = next_id + 1
  BY <1>1 DEF DrawId
<1>3. ASSUME v \in friend_list[u], history' = BothAppend(u, v, m),
             NEW a \in Names, NEW b \in Names
      PROVE  Held(a, b)' \subseteq Held(a, b) \cup {m}
  <2>1. PICK both \in BOOLEAN : both = (u \in friend_list[v])
    BY (u \in friend_list[v]) \in BOOLEAN, Zenon
  <2>2. Sent(u, v, m, both)
    BY <1>3, <2>1, BothAppendSends DEF StoreInv, IInv
  <2>3. Held(a, b)' = Held(a, b) \cup {m} \/ history'[a][b] = history[a][b]
    BY <2>2 DEF Sent
  <2>. QED BY <2>3 DEF Held
<1>4. ASSUME history' = [history EXCEPT ![u][v] = Append(@, m)],
             NEW a \in Names, NEW b \in Names
      PROVE  Held(a, b)' \subseteq Held(a, b) \cup {m}
  <2>1. history[a][b] \in Seq(Message)
    BY <1>1
  <2>2. history'[a][b] \in {history[a][b], Append(history[a][b], m)}
    BY <1>1, <1>4
  <2>. QED BY <2>1, <2>2, AppendMessage DEF Held
<1>. QED BY <1>2, <1>3, <1>4 DEF Origins

LEMMA UnsendOrigins ==
    ASSUME StoreInv, NEW u \in Names, NEW v \in Names, NEW id \in Nat,
           MayUnsend(u, v, id), del_messages(u, v, id)
    PROVE  Origins
<1>1. CASE \E status \in Statuses : Refuse("del_messages", u, status)
  BY <1>1, RefusedOrigins
<1>2. CASE NoHistory("del_messages", u)
  BY <1>2, RefusedOrigins
<1>3. CASE u # v /\ history' = BothRemove(u, v, id) /\ UNCHANGED next_id
  <2>1. Removed(u, v, id)
    BY <1>3, BothRemoveRemoves DEF StoreInv, IInv
  <2>2. ASSUME NEW a \in Names, NEW b \in Names PROVE Held(a, b)' \subseteq Held(a, b)
    <3>1. Held(a, b)' = {n \in Held(a, b) : n.id # id} \/ history'[a][b] = history[a][b]
      BY <2>1 DEF Removed
    <3>. QED BY <3>1 DEF Held
  <2>3. next_id \in Nat /\ next_id <= MaxId + 1
    BY DEF StoreInv, IInv, TypeOK
  <2>. QED BY <1>3, <2>2, <2>3 DEF Origins
<1>4. OwnUnsend(u, v, id) \/ \E status \in Statuses : Refuse("del_messages", u, status)
  BY UnsendCases DEF StoreInv
<1>. QED BY <1>1, <1>2, <1>3, <1>4 DEF del_messages, OwnUnsend, Statuses

LEMMA RestartOrigins ==
    ASSUME StoreInv, Restart
    PROVE  Origins
<1>1. next_id \in Nat /\ next_id <= MaxId + 1
  BY DEF StoreInv, IInv, TypeOK
<1>. QED BY <1>1 DEF Restart, Origins, Held, Seeds

LEMMA StepOrigins ==
    ASSUME StoreInv, Next \/ Restart \/ UNCHANGED vars
    PROVE  Origins
<1>1. ASSUME NEW u \in Names, put_account(u) PROVE Origins
  BY <1>1, put_accountLists, SameOrigins DEF StoreInv
<1>2. ASSUME NEW u \in Names, NEW v \in Names, put_friends(u, v) PROVE Origins
  BY <1>2, put_friendsLists, SameOrigins DEF StoreInv
<1>3. ASSUME NEW u \in Names, NEW v \in Names, del_friends(u, v) PROVE Origins
  <2>1. CASE \E status \in Statuses : Refuse("del_friends", u, status)
    BY <2>1, RefusedOrigins
  <2>2. CASE history' = [history EXCEPT ![u][v] = <<>>] /\ UNCHANGED next_id
    <3>1. /\ next_id \in Nat /\ next_id <= MaxId + 1
          /\ history \in [Names -> [Names -> Seq(Message)]]
      BY DEF StoreInv, IInv, TypeOK
    <3>2. \A a, b \in Names : history'[a][b] \in {history[a][b], <<>>}
      BY <2>2, <3>1
    <3>3. \A a, b \in Names : Held(a, b)' \subseteq Held(a, b)
      BY <3>2, NothingHeld DEF Held
    <3>. QED BY <2>2, <3>1, <3>3 DEF Origins
  <2>. QED BY <1>3, <2>1, <2>2 DEF del_friends, Statuses
<1>4. ASSUME NEW u \in Names, NEW v \in Names, put_messages(u, v) PROVE Origins
  <2>1. PICK m \in Message : m = [id |-> next_id, from |-> u, to |-> v, kind |-> "Generic"]
    BY DEF StoreInv, IInv, TypeOK, Message, Kinds
  <2>. QED BY <1>4, <2>1, RefusedOrigins, SameOrigins, SendOrigins DEF put_messages
<1>5. ASSUME NEW u \in Names, NEW v \in Names, put_messages_file(u, v) PROVE Origins
  <2>1. PICK m \in Message : m = [id |-> next_id, from |-> u, to |-> v, kind |-> "Attachment"]
    BY DEF StoreInv, IInv, TypeOK, Message, Kinds
  <2>. QED BY <1>5, <2>1, RefusedOrigins, SameOrigins, SendOrigins DEF put_messages_file
<1>6. ASSUME NEW u \in Names, NEW v \in Names, NEW id \in 0 .. MaxId,
             MayUnsend(u, v, id), del_messages(u, v, id)
      PROVE  Origins
  BY <1>6, UnsendOrigins, SeedHistoryAssumption
<1>7. CASE UNCHANGED vars
  BY <1>7, SameOrigins DEF vars, store
<1>. QED BY <1>1, <1>2, <1>3, <1>4, <1>5, <1>6, <1>7, RestartOrigins DEF Next, Serve

\* Seeded messages are old, and agree with each other.
LEMMA SeedFacts ==
    \A u, v, a, b \in Names : \A m \in Seeds(u, v), n \in Seeds(a, b) :
        m.id < FirstId /\ (m.id = n.id => m = n)
BY SeedHistoryAssumption DEF Seeds

LEMMA StoreKeeps ==
    ASSUME StoreInv, Next \/ Restart \/ UNCHANGED vars
    PROVE  StoreInv'
<1>1. IInv'
  BY NextKeeps DEF StoreInv
<1>2. Origins
  BY StepOrigins
<1>3. ASSUME NEW u \in Names, NEW v \in Names, NEW a \in Names, NEW b \in Names,
             NEW m \in Held(u, v)', NEW n \in Seeds(a, b), m.id = n.id
      PROVE  m = n
  <2>1. n.id < next_id
    <3>1. n \in Message
      BY SeedHistoryAssumption DEF Seeds, ToSet
    <3>2. /\ n.id \in Nat /\ n.id < FirstId /\ FirstId \in Nat
          /\ FirstId <= boot /\ boot <= next_id /\ boot \in Nat /\ next_id \in Nat
      BY <3>1, SeedFacts, SeedHistoryAssumption DEF StoreInv, IInv, IdsAreOld, TypeOK, Message
    <3>. QED BY <3>2
  <2>2. m \in Held(u, v) \/ m \in Seeds(u, v) \/ m.id = next_id
    BY <1>2 DEF Origins
  <2>3. next_id \in Nat
    BY DEF StoreInv, IInv, TypeOK
  <2>. QED BY <1>3, <2>1, <2>2, <2>3, SeedFacts DEF StoreInv, SeedsAgree
<1>4. next_id' <= MaxId + 1
  BY <1>2 DEF Origins
<1>. QED BY <1>1, <1>3, <1>4 DEF StoreInv, SeedsAgree

LEMMA KnownKeeps ==
    ASSUME StoreInv, Next \/ Restart \/ UNCHANGED vars, NEW m, Known(m)
    PROVE  Known(m)'
<1>1. Origins /\ StoreInv'
  BY StepOrigins, StoreKeeps
<1>2. m.id \in Nat /\ next_id \in Nat /\ next_id' \in Nat
  BY <1>1 DEF Known, Message, StoreInv, IInv, TypeOK
<1>3. m \in Message /\ m.id < next_id'
  BY <1>1, <1>2 DEF Known, Origins
<1>4. ASSUME NEW u \in Names, NEW v \in Names, NEW n \in Held(u, v)' \cup Seeds(u, v),
             n.id = m.id
      PROVE  n = m
  <2>1. n \in Held(u, v) \/ n \in Seeds(u, v) \/ n.id = next_id
    BY <1>1 DEF Origins
  <2>. QED BY <1>2, <1>4, <2>1 DEF Known
<1>. QED BY <1>3, <1>4 DEF Known, Seeds

-----------------------------------------------------------------------------
(* The page's side.                                                         *)

\* An image of a finite set has at most its size.
LEMMA ImageOfFinite ==
    ASSUME NEW S, IsFiniteSet(S), NEW T, NEW f \in [S -> T], \A t \in T : \E s \in S : f[s] = t
    PROVE  IsFiniteSet(T) /\ Cardinality(T) <= Cardinality(S)
<1>1. f \in Surjection(S, T)
  BY DEF Surjection
<1>. QED BY <1>1, FS_Surjection DEF ExistsSurjection

\* A new request finds a number: there are fewer requests than candidates.
LEMMA NumberIsFree ==
    ASSUME NEW rs, IsFiniteSet(rs)
    PROVE  /\ Cardinality(rs) \in Nat
           /\ \E n \in 1 .. Cardinality(rs) + 1 : \A r \in rs : r.no # n
<1>1. Cardinality(rs) \in Nat
  BY FS_CardinalityType
<1> DEFINE taken == {r.no : r \in rs}
           candidates == 1 .. Cardinality(rs) + 1
           number == [r \in rs |-> r.no]
<1>2. number \in [rs -> taken] /\ \A t \in taken : \E s \in rs : number[s] = t
  OBVIOUS
<1>3. IsFiniteSet(taken) /\ Cardinality(taken) <= Cardinality(rs) /\ Cardinality(taken) \in Nat
  BY <1>2, ImageOfFinite, FS_CardinalityType
<1>4. Cardinality(candidates) = Cardinality(rs) + 1
  BY <1>1, FS_Interval
<1>5. ~ candidates \subseteq taken
  <2>. HIDE DEF taken, candidates
  <2>. QED BY <1>1, <1>3, <1>4, FS_Subset
<1>. QED BY <1>1, <1>5

LEMMA NothingShown == Shows(<<>>)
BY ViewAssumption, SeedUsersAssumption, NothingHeld DEF Shows

\* A request that carries nothing but its target.
LEMMA AskIsWellFormed ==
    ASSUME NEW rs, IsFiniteSet(rs), NEW op \in Fetches \cup Updates,
           NEW target \in Names \cup {None}, op # "get_friends" => target \in Names
    PROVE  /\ Ask(rs, op, target) \in Request
           /\ op # "del_messages" => WellFormed(Ask(rs, op, target))
<1>1. PICK n \in Nat : n = CHOOSE k \in 1 .. Cardinality(rs) + 1 : \A r \in rs : r.no # k
  BY NumberIsFree
<1>2. Ask(rs, op, target) \in Request
  BY <1>1 DEF Ask, Request, Pending
<1>. QED BY <1>2, NothingShown DEF WellFormed, Ask

\* One more request.
LEMMA WithKeeps ==
    ASSUME NEW rs, IsFiniteSet(rs), \A r \in rs : WellFormed(r),
           NEW op \in (Fetches \cup Updates) \ {"del_messages"},
           NEW target \in Names \cup {None}, op # "get_friends" => target \in Names
    PROVE  IsFiniteSet(With(rs, op, target)) /\ \A r \in With(rs, op, target) : WellFormed(r)
BY AskIsWellFormed, FS_AddElement DEF With

\* Requests that change in what says nothing about the messages they carry.
LEMMA DetachedKeeps ==
    ASSUME NEW rs, IsFiniteSet(rs), \A r \in rs : WellFormed(r)
    PROVE  IsFiniteSet(Detached(rs)) /\ \A r \in Detached(rs) : WellFormed(r)
<1>1. \A r \in rs : WellFormed([r EXCEPT !.shown = FALSE])
  BY DEF WellFormed, Request
<1> DEFINE f == [r \in rs |-> [r EXCEPT !.shown = FALSE]]
<1>2. f \in [rs -> Detached(rs)] /\ \A t \in Detached(rs) : \E s \in rs : f[s] = t
  BY DEF Detached
<1>3. IsFiniteSet(Detached(rs))
  <2>. HIDE DEF f
  <2>. QED BY <1>2, ImageOfFinite
<1>. QED BY <1>1, <1>3 DEF Detached

\* The page begins anew.
LEMMA ReloadedKeeps ==
    ASSUME NEW rs, IsFiniteSet(rs), \A r \in rs : WellFormed(r), Reloaded(rs)
    PROVE  /\ IsFiniteSet(requests') /\ \A r \in requests' : WellFormed(r)
           /\ friend' = {} /\ currentTarget' = None /\ chat' = <<>> /\ loading' = FALSE
<1> DEFINE old == {q \in rs : q.op \in Updates /\ q.status \in Pending}
           left == {[r EXCEPT !.status = "abandoned", !.shown = FALSE] : r \in old}
           f == [r \in old |-> [r EXCEPT !.status = "abandoned", !.shown = FALSE]]
<1>1. IsFiniteSet(old)
  BY FS_Subset
<1>2. f \in [old -> left] /\ \A t \in left : \E s \in old : f[s] = t
  OBVIOUS
<1>3. IsFiniteSet(left)
  <2>. HIDE DEF old, left, f
  <2>. QED BY <1>1, <1>2, ImageOfFinite
<1>4. ASSUME NEW r \in rs
      PROVE  WellFormed([r EXCEPT !.status = "abandoned", !.shown = FALSE])
  BY DEF WellFormed, Request, Pending
<1>5. requests' = With(left, "get_friends", None)
  BY DEF Reloaded
<1>6. "get_friends" \in (Fetches \cup Updates) \ {"del_messages"} /\ None \in Names \cup {None}
  BY DEF Fetches
<1>7. \A r \in left : WellFormed(r)
  BY <1>4
<1>8. friend' = {} /\ currentTarget' = None /\ chat' = <<>> /\ loading' = FALSE
  BY DEF Reloaded
<1>. HIDE DEF left
<1>. QED BY <1>3, <1>5, <1>6, <1>7, <1>8, WithKeeps

\* splice takes one message away.
LEMMA SpliceKeeps ==
    ASSUME NEW s, Shows(s), NEW i \in Nat
    PROVE  Shows(splice(s, i))
<1>1. s \in Seq(Message)
  BY DEF Shows
<1>2. CASE i \notin DOMAIN s
  BY <1>2 DEF splice
<1>3. CASE i \in DOMAIN s
  <2>1. /\ RemoveAt(s, i) \in Seq(Message)
        /\ ToSet(RemoveAt(s, i)) \subseteq ToSet(s)
    <3> DEFINE a == SubSeq(s, 1, i - 1)
               b == SubSeq(s, i + 1, Len(s))
    <3>1. Len(s) \in Nat /\ i \in 1 .. Len(s)
      BY <1>1, <1>3
    <3>2. a \in Seq(Message) /\ b \in Seq(Message)
      BY <1>1, <3>1
    <3>3. /\ Len(a) = i - 1 /\ \A j \in 1 .. Len(a) : a[j] = s[j]
          /\ Len(b) = Len(s) - i /\ \A j \in 1 .. Len(b) : b[j] = s[i + j]
      BY <1>1, <3>1
    <3>4. ASSUME NEW j \in 1 .. Len(a \o b) PROVE (a \o b)[j] \in ToSet(s)
      <4>. HIDE DEF a, b
      <4>1. /\ Len(a) \in Nat /\ Len(b) \in Nat /\ Len(a \o b) = Len(a) + Len(b)
            /\ (a \o b)[j] = IF j <= Len(a) THEN a[j] ELSE b[j - Len(a)]
        BY <3>2
      <4>2. \E k \in 1 .. Len(s) : (a \o b)[j] = s[k]
        <5>1. CASE j <= Len(a)
          BY <3>1, <3>3, <4>1, <5>1
        <5>2. CASE ~ (j <= Len(a))
          BY <3>1, <3>3, <4>1, <5>2
        <5>. QED BY <5>1, <5>2
      <4>. QED BY <1>1, <4>2 DEF ToSet
    <3>5. a \o b \in Seq(Message) /\ RemoveAt(s, i) = a \o b
      BY <3>2 DEF RemoveAt
    <3>. HIDE DEF a, b
    <3>. QED BY <3>4, <3>5 DEF ToSet
  <2>2. Increasing(s) => Increasing(RemoveAt(s, i))
    BY <1>1, <1>3, DropOne
  <2>3. splice(s, i) = RemoveAt(s, i)
    BY <1>3 DEF splice
  <2>. QED BY <2>1, <2>2, <2>3 DEF Shows
<1>. QED BY <1>2, <1>3
-----------------------------------------------------------------------------
(* Steps of the two together.                                               *)

\* What a page shows, or a request carries, stands whatever the server does.
LEMMA CarriedOver ==
    ASSUME StoreInv, Next \/ Restart \/ UNCHANGED vars
    PROVE  /\ \A s : Shows(s) => Shows(s)'
           /\ \A r : WellFormed(r) => WellFormed(r)'
<1>1. \A m : Known(m) => Known(m)'
  BY KnownKeeps
<1>2. ASSUME NEW s, Shows(s) PROVE Shows(s)'
  BY <1>1, <1>2 DEF Shows
<1>3. ASSUME NEW r, WellFormed(r) PROVE WellFormed(r)'
  BY <1>1, <1>2, <1>3 DEF WellFormed
<1>. QED BY <1>2, <1>3

\* What a step has to show.
PageAfter ==
    /\ friend' \subseteq Names
    /\ currentTarget' \in Names \cup {None}
    /\ loading' \in BOOLEAN
    /\ Shows(chat')
    /\ IsFiniteSet(requests') /\ \A r \in requests' : WellFormed(r)

LEMMA PageKeeps ==
    ASSUME ViewInv, Next \/ Restart \/ UNCHANGED vars, PageAfter, events' \in 0 .. MaxEvents
    PROVE  ViewInv'
<1>1. StoreInv'
  BY StoreKeeps DEF ViewInv
<1>2. Shows(chat)' /\ \A r \in requests' : WellFormed(r)'
  BY CarriedOver DEF ViewInv, PageAfter
<1>3. ViewTypeOK'
  BY <1>2 DEF PageAfter, ViewTypeOK, Shows, WellFormed
<1>. QED BY <1>1, <1>2, <1>3 DEF ViewInv, PageInv, PageAfter

LEMMA EventCounts ==
    ASSUME ViewInv, Event
    PROVE  events' \in 0 .. MaxEvents
BY ViewAssumption DEF Event, ViewInv, PageInv, ViewTypeOK

\* The user clicks.
LEMMA ClickKeeps ==
    ASSUME ViewInv,
           \/ \E v \in Names : select(v) \/ befriend(v)
           \/ submit \/ unfriend \/ reload
           \/ \E i \in DOMAIN chat : unsend(i)
    PROVE  ViewInv' /\ UNCHANGED vars
<1> USE DEF ViewInv, PageInv
<1>1. /\ friend \subseteq Names /\ currentTarget \in Names \cup {None} /\ loading \in BOOLEAN
      /\ chat \in Seq(Message) /\ events \in 0 .. MaxEvents
      /\ Shows(chat) /\ IsFiniteSet(requests) /\ \A r \in requests : WellFormed(r)
  BY DEF ViewTypeOK
<1>2. /\ {"get_messages", "put_friends", "del_friends", "put_messages", "put_messages_file"}
             \subseteq (Fetches \cup Updates) \ {"del_messages"}
      /\ "del_messages" \in Fetches \cup Updates
  BY DEF Fetches, Updates, Sends
<1>3. ASSUME NEW v \in Names, select(v) PROVE PageAfter /\ UNCHANGED vars /\ Event
  <2>1. IsFiniteSet(Detached(requests)) /\ \A r \in Detached(requests) : WellFormed(r)
    BY <1>1, DetachedKeeps
  <2>2. /\ IsFiniteSet(With(Detached(requests), "get_messages", v))
        /\ \A r \in With(Detached(requests), "get_messages", v) : WellFormed(r)
    BY <1>2, <2>1, WithKeeps
  <2>. QED BY <1>1, <1>3, <2>2, NothingShown DEF select, Click, PageAfter
<1>4. ASSUME NEW op \in {"put_friends", "del_friends", "put_messages", "put_messages_file"},
             NEW v \in Names, Click, requests' = With(requests, op, v),
             UNCHANGED <<friend, currentTarget, chat>>, loading' \in BOOLEAN
      PROVE  PageAfter /\ UNCHANGED vars /\ Event
  <2>1. /\ IsFiniteSet(With(requests, op, v))
        /\ \A r \in With(requests, op, v) : WellFormed(r)
    BY <1>1, <1>2, WithKeeps
  <2>. QED BY <1>1, <1>4, <2>1 DEF Click, PageAfter
<1>5. ASSUME NEW v \in Names, befriend(v) PROVE PageAfter /\ UNCHANGED vars /\ Event
  BY <1>1, <1>4, <1>5 DEF befriend, page
<1>6. CASE unfriend
  <2>1. PageAfter /\ UNCHANGED vars /\ Event
    BY <1>1, <1>4, <1>6 DEF unfriend, page
  <2>. QED BY <2>1, EventCounts, PageKeeps
<1>7. CASE submit
  <2>1. CASE loading' = FALSE /\ UNCHANGED <<vars, requests, events>>
    <3>1. PageAfter
      BY <1>1, <1>7, <2>1 DEF submit, PageAfter
    <3>. QED BY <1>1, <2>1, <3>1, PageKeeps
  <2>2. CASE \E op \in Sends : /\ Click /\ loading' = TRUE
                             /\ requests' = With(requests, op, currentTarget)
    <3>1. PageAfter /\ UNCHANGED vars /\ Event
      BY <1>1, <1>4, <1>7, <2>2 DEF submit, Sends
    <3>. QED BY <3>1, EventCounts, PageKeeps
  <2>. QED BY <1>7, <2>1, <2>2 DEF submit
<1>8. CASE reload
  <2>1. PageAfter /\ UNCHANGED vars /\ Event
    BY <1>1, <1>8, ReloadedKeeps, NothingShown DEF reload, Click, PageAfter
  <2>. QED BY <2>1, EventCounts, PageKeeps
<1>9. ASSUME NEW i \in DOMAIN chat, unsend(i) PROVE PageAfter /\ UNCHANGED vars /\ Event
  <2> DEFINE q == Ask(requests, "del_messages", currentTarget)
             r == [q EXCEPT !.id = chat[i].id, !.idx = i, !.shown = TRUE]
  <2>0. i \in Nat /\ chat[i] \in ToSet(chat)
    BY <1>1, <1>9 DEF ToSet
  <2>1. chat[i] \in Message /\ Known(chat[i]) /\ i \in Nat /\ chat[i].from # currentTarget
    BY <1>1, <1>9, <2>0 DEF Shows, Known, unsend
  <2>2. currentTarget \in Names
    BY <1>1, <1>9 DEF unsend
  <2>3. q \in Request /\ q.op = "del_messages" /\ q.target = currentTarget /\ q.messages = <<>>
    BY <1>1, <1>2, <2>2, AskIsWellFormed DEF Ask
  <2>4. /\ r \in Request /\ r.op = "del_messages" /\ r.target = currentTarget
        /\ r.id = chat[i].id /\ r.messages = <<>>
    <3>. HIDE DEF q
    <3>. QED BY <2>1, <2>3 DEF Request, Message
  <2>5. WellFormed(r)
    <3>. HIDE DEF r
    <3>. QED BY <2>1, <2>2, <2>4, NothingShown DEF WellFormed
  <2>6. requests' = requests \cup {r}
    BY <1>9 DEF unsend
  <2>. HIDE DEF r
  <2>7. IsFiniteSet(requests') /\ \A x \in requests' : WellFormed(x)
    BY <1>1, <2>5, <2>6, FS_AddElement
  <2>. QED BY <1>1, <1>9, <2>7 DEF unsend, page, Click, PageAfter
<1>. QED BY <1>3, <1>5, <1>6, <1>7, <1>8, <1>9, EventCounts, PageKeeps

\* Somebody else, or the clock of the debug server.
LEMMA VisitKeeps ==
    ASSUME ViewInv, visit
    PROVE  ViewInv' /\ (Next \/ Restart)
<1>1. PageAfter
  BY DEF visit, page, PageAfter, ViewInv, PageInv, ViewTypeOK
<1>. QED BY <1>1, EventCounts, PageKeeps DEF visit

\* A request to unsend names a message that the other side of the chat has not
\* sent, if it names one that is stored.
LEMMA UnsendIsAllowed ==
    ASSUME ViewInv, NEW r \in requests, r.op = "del_messages"
    PROVE  /\ me \in Names /\ r.target \in Names
           /\ r.id \in 0 .. MaxId /\ MayUnsend(me, r.target, r.id)
<1>1. me \in Names
  BY ViewAssumption, SeedUsersAssumption
<1>2. WellFormed(r)
  BY DEF ViewInv, PageInv
<1>3. r.target \in Names
  BY <1>2 DEF WellFormed
<1>4. PICK m \in Message : Known(m) /\ m.id = r.id /\ m.from # r.target
  BY <1>2 DEF WellFormed
<1>5. r.id \in 0 .. MaxId
  <2>1. m.id \in Nat /\ m.id < next_id /\ next_id <= MaxId + 1
        /\ next_id \in Nat /\ MaxId \in Nat
    BY <1>4, SeedHistoryAssumption DEF Message, Known, ViewInv, StoreInv, IInv, TypeOK
  <2>. QED BY <1>4, <2>1
<1>6. MayUnsend(me, r.target, r.id)
  BY <1>1, <1>3, <1>4 DEF MayUnsend, Known
<1>. QED BY <1>1, <1>3, <1>5, <1>6

\* The server's part in a request: it is one that ChatServer allows.
LEMMA UpdateIsAllowed ==
    ASSUME ViewInv, NEW r \in requests, update(r)
    PROVE  Next
<1>1. me \in Names
  BY ViewAssumption, SeedUsersAssumption
<1>2. WellFormed(r) /\ r.op # "get_friends"
  BY DEF ViewInv, PageInv, update
<1>3. r.target \in Names
  BY <1>2 DEF WellFormed
<1>4. CASE r.op # "del_messages"
  BY <1>1, <1>3, <1>4 DEF update, Next, Serve
<1>5. CASE r.op = "del_messages" /\ del_messages(me, r.target, r.id)
  BY <1>5, UnsendIsAllowed DEF Next, Serve
<1>. QED BY <1>4, <1>5 DEF update

\* What the server returns is well formed.
LEMMA ReturnKeeps ==
    ASSUME ViewInv, Next \/ Restart \/ UNCHANGED vars,
           NEW r \in requests, NEW answer, WellFormed(answer), Return(r, answer),
           UNCHANGED <<page, events>>
    PROVE  ViewInv'
<1>1. /\ IsFiniteSet(requests) /\ \A q \in requests : WellFormed(q)
      /\ events \in 0 .. MaxEvents
  BY DEF ViewInv, PageInv, ViewTypeOK
<1>2. requests' \subseteq requests \cup {answer}
  BY DEF Return
<1>3. IsFiniteSet(requests') /\ \A q \in requests' : WellFormed(q)
  BY <1>1, <1>2, FS_AddElement, FS_Subset
<1>4. PageAfter
  BY <1>3 DEF page, PageAfter, ViewInv, PageInv, ViewTypeOK
<1>. QED BY <1>1, <1>4, PageKeeps

LEMMA ProcessKeeps ==
    ASSUME ViewInv, NEW r \in requests, process(r)
    PROVE  ViewInv' /\ (Next \/ UNCHANGED vars)
<1>1. WellFormed(r) /\ r \in Request
  BY DEF ViewInv, PageInv, WellFormed
<1>2. CASE get_friends(r)
  <2>1. friend_list[me] \subseteq Names
    BY ViewAssumption, SeedUsersAssumption DEF ViewInv, StoreInv, IInv, TypeOK
  <2>2. WellFormed([r EXCEPT !.status = "ok", !.names = friend_list[me]])
    BY <1>1, <2>1 DEF WellFormed, Request, Statuses
  <2>. QED BY <1>2, <2>2, ReturnKeeps DEF get_friends, process
<1>3. CASE get_messages(r)
  <2>1. me \in Names /\ r.target \in Names
    BY <1>1, <1>3, ViewAssumption, SeedUsersAssumption DEF WellFormed, get_messages
  <2>2. Shows(history[me][r.target])
    <3>1. history[me][r.target] \in Seq(Message)
      BY <2>1 DEF ViewInv, StoreInv, IInv, TypeOK
    <3>2. ASSUME NEW m \in Held(me, r.target) PROVE Known(m) /\ Between(m, me, r.target)
      <4>1. m \in Message
        BY <2>1, HeldIsTyped DEF ViewInv, StoreInv, IInv
      <4>2. m.id < next_id
        BY <2>1 DEF ViewInv, StoreInv, IInv, IdsAreOld
      <4>3. Between(m, me, r.target)
        BY <2>1 DEF ViewInv, StoreInv, IInv, OneMessagePerId
      <4>4. \A u, v \in Names : \A n \in Held(u, v) : n.id = m.id => n = m
        BY <2>1 DEF ViewInv, StoreInv, IInv, OneMessagePerId
      <4>5. \A u, v \in Names : \A n \in Seeds(u, v) : n.id = m.id => n = m
        BY <2>1 DEF ViewInv, StoreInv, SeedsAgree
      <4>. QED BY <4>1, <4>2, <4>3, <4>4, <4>5 DEF Known
    <3>3. r.target # me => Increasing(history[me][r.target])
      BY <2>1 DEF ViewInv, StoreInv, IInv, Chronological
    <3>. QED BY <2>1, <3>1, <3>2, <3>3 DEF Shows, Held
  <2>3. /\ WellFormed([r EXCEPT !.status = "ok", !.messages = history[me][r.target]])
        /\ WellFormed([r EXCEPT !.status = "error"])
        /\ WellFormed([r EXCEPT !.status = "exception"])
    <3>1. history[me][r.target] \in Seq(Message)
      BY <2>2 DEF Shows
    <3>. QED BY <1>1, <2>2, <3>1 DEF WellFormed, Request, Statuses
  <2>. QED BY <1>3, <2>3, ReturnKeeps DEF get_messages, process
<1>4. CASE update(r)
  <2>1. Next
    BY <1>4, UpdateIsAllowed
  <2>2. reply'.status \in Statuses
    BY <2>1, StoreKeeps DEF ViewInv, StoreInv, IInv, TypeOK
  <2>3. WellFormed([r EXCEPT !.status = reply'.status])
    <3>1. \A x \in Statuses : WellFormed([r EXCEPT !.status = x])
      BY <1>1 DEF WellFormed, Request
    <3>. QED BY <2>2, <3>1
  <2>4. Return(r, [r EXCEPT !.status = reply'.status]) /\ UNCHANGED <<page, events>>
    BY <1>4 DEF update, process
  <2>. QED BY <2>1, <2>3, <2>4, ReturnKeeps
<1>. QED BY <1>2, <1>3, <1>4 DEF process

\* An answer, or none, arrives.
LEMMA ContinueKeeps ==
    ASSUME ViewInv, NEW r \in requests, NEW ok \in BOOLEAN, Continue(r, ok)
    PROVE  ViewInv' /\ UNCHANGED vars
<1> DEFINE rs == requests \ {r}
<1>1. /\ friend \subseteq Names /\ currentTarget \in Names \cup {None} /\ loading \in BOOLEAN
      /\ events \in 0 .. MaxEvents /\ Shows(chat)
  BY DEF ViewInv, PageInv, ViewTypeOK
<1>2. WellFormed(r) /\ r \in Request
  BY DEF ViewInv, PageInv, WellFormed
<1>3. IsFiniteSet(rs) /\ \A q \in rs : WellFormed(q)
  BY FS_Subset DEF ViewInv, PageInv
<1>4. UNCHANGED <<vars, events>>
  BY DEF Continue
<1>. HIDE DEF rs
<1>5. SUFFICES PageAfter
  BY <1>1, <1>4, PageKeeps
<1>6. CASE receive_friends(r, ok, rs)
  BY <1>1, <1>2, <1>3, <1>6 DEF receive_friends, PageAfter, Request
<1>7. CASE receive_messages(r, ok, rs)
  <2>1. IsFiniteSet(Detached(rs)) /\ \A q \in Detached(rs) : WellFormed(q)
    BY <1>3, DetachedKeeps
  <2>2. Shows(r.messages)
    BY <1>2 DEF WellFormed
  <2>. QED BY <1>1, <1>3, <1>7, <2>1, <2>2 DEF receive_messages, PageAfter
<1>8. CASE receive_sent(r, ok, rs)
  <2>1. r.op # "get_friends" /\ r.target \in Names
    BY <1>2, <1>8 DEF receive_sent, Sends, WellFormed
  <2>2. /\ IsFiniteSet(With(rs, "get_messages", r.target))
        /\ \A q \in With(rs, "get_messages", r.target) : WellFormed(q)
    BY <1>3, <2>1, WithKeeps DEF Fetches
  <2>. QED BY <1>1, <1>3, <1>8, <2>2 DEF receive_sent, PageAfter
<1>9. CASE receive_unsent(r, ok, rs)
  <2>1. Shows(splice(chat, r.idx))
    BY <1>1, <1>2, SpliceKeeps DEF Request
  <2>. QED BY <1>1, <1>3, <1>9, <2>1 DEF receive_unsent, PageAfter
<1>10. CASE receive_befriended(r, ok, rs)
  <2>1. /\ IsFiniteSet(With(rs, "get_friends", None))
        /\ \A q \in With(rs, "get_friends", None) : WellFormed(q)
    BY <1>3, WithKeeps DEF Fetches
  <2>. QED BY <1>1, <1>3, <1>10, <2>1 DEF receive_befriended, page, PageAfter
<1>11. CASE receive_unfriended(r, ok, rs)
  <2>1. CASE Reloaded(rs)
    BY <1>3, <2>1, ReloadedKeeps, NothingShown DEF PageAfter
  <2>. QED BY <1>1, <1>3, <1>11, <2>1 DEF receive_unfriended, page, PageAfter
<1>. QED BY <1>6, <1>7, <1>8, <1>9, <1>10, <1>11 DEF Continue, rs

LEMMA SettleKeeps ==
    ASSUME ViewInv, NEW r \in requests, deliver(r) \/ lose(r)
    PROVE  ViewInv' /\ UNCHANGED vars
<1>1. CASE deliver(r)
  <2>1. PICK ok \in BOOLEAN : ok = (r.status = "ok")
    BY (r.status = "ok") \in BOOLEAN, Zenon
  <2>. QED BY <1>1, <2>1, ContinueKeeps DEF deliver
<1>2. CASE Continue(r, FALSE)
  BY <1>2, ContinueKeeps
<1>3. CASE requests' = requests \ {r} /\ UNCHANGED <<vars, page, events>>
  <2>1. IsFiniteSet(requests') /\ \A q \in requests' : WellFormed(q)
    BY <1>3, FS_Subset DEF ViewInv, PageInv
  <2>2. PageAfter /\ events \in 0 .. MaxEvents
    BY <1>3, <2>1 DEF page, PageAfter, ViewInv, PageInv, ViewTypeOK
  <2>. QED BY <1>3, <2>2, PageKeeps
<1>. QED BY <1>1, <1>2, <1>3 DEF lose

LEMMA ViewStep ==
    ASSUME ViewInv, ViewNext \/ UNCHANGED viewVars
    PROVE  ViewInv' /\ (Next \/ Restart \/ UNCHANGED vars)
<1>1. CASE UNCHANGED viewVars
  <2>1. PageAfter /\ UNCHANGED <<vars, events>> /\ events \in 0 .. MaxEvents
    BY <1>1 DEF viewVars, page, PageAfter, ViewInv, PageInv, ViewTypeOK
  <2>. QED BY <2>1, PageKeeps
<1>2. CASE Idle
  BY <1>1, <1>2 DEF Idle
<1>. QED BY <1>1, <1>2, ClickKeeps, VisitKeeps, ProcessKeeps, SettleKeeps DEF ViewNext

LEMMA ViewStart == ViewInit => ViewInv
<1>. SUFFICES ASSUME ViewInit PROVE ViewInv
  OBVIOUS
<1>1. IInv
  BY InitIInv DEF ViewInit
<1>2. SeedsAgree
  BY SeedHistoryAssumption DEF ViewInit, Init, SeedsAgree, Held, Seeds
<1>3. next_id <= MaxId + 1
  BY SeedHistoryAssumption, ViewAssumption DEF ViewInit, Init
<1>4. /\ IsFiniteSet(With({}, "get_friends", None))
      /\ \A r \in With({}, "get_friends", None) : WellFormed(r)
  BY FS_EmptySet, WithKeeps DEF Fetches
<1>5. requests \subseteq Request
  BY <1>4 DEF ViewInit, WellFormed
<1>6. ViewTypeOK
  <2>1. chat \in Seq(Message)
    BY DEF ViewInit
  <2>2. events \in 0 .. MaxEvents
    BY ViewAssumption DEF ViewInit
  <2>3. friend \subseteq Names /\ currentTarget \in Names \cup {None} /\ loading \in BOOLEAN
    BY DEF ViewInit
  <2>. QED BY <1>5, <2>1, <2>2, <2>3 DEF ViewTypeOK
<1>7. PageInv
  BY <1>4, <1>6, NothingShown DEF ViewInit, PageInv
<1>. QED BY <1>1, <1>2, <1>3, <1>7 DEF ViewInv, StoreInv

\* The inductive invariant holds throughout.
LEMMA ViewInvariance == ViewSpec => []ViewInv
<1>1. ViewInv /\ [ViewNext]_viewVars => ViewInv'
  BY ViewStep
<1>. QED BY ViewStart, <1>1, PTL DEF ViewSpec

-----------------------------------------------------------------------------
(* The theorems.                                                            *)

\* Every reachable state of the page is well typed.
THEOREM PageIsTyped == ViewSpec => []ViewTypeOK
<1>1. ViewInv => ViewTypeOK
  BY DEF ViewInv, PageInv
<1>. QED BY <1>1, ViewInvariance, PTL

\* The page never mixes two conversations, nor the order of one.
THEOREM PageShowsOneConversation == ViewSpec => []OneConversationShown
<1>1. ViewInv => OneConversationShown
  BY DEF ViewInv, PageInv, Shows, OneConversationShown
<1>. QED BY <1>1, ViewInvariance, PTL

\* The page and its server are an instance of ChatServer: whichever answers are
\* late, its requests to unsend are for messages of its own user.
THEOREM PagesMakeServerRequests == ViewSpec => ServerSpec
<1>1. ViewInit => Init
  BY DEF ViewInit
<1>2. ViewInv /\ [ViewNext]_viewVars => [Next \/ Restart]_vars
  BY ViewStep
<1>. QED BY <1>1, <1>2, ViewInvariance, PTL DEF ViewSpec, ServerSpec, Spec

\* Hence every message keeps its identity under every page, and no conversation
\* has a gap.
THEOREM PagesKeepConversations == ViewSpec => [](OneMessagePerId /\ NoGaps)
BY PagesMakeServerRequests, MessagesKeepTheirIdentity, ConversationsHaveNoGaps, PTL
   DEF ServerSpec

\* A click that unsends leaves everybody else's messages where they are.
THEOREM PageUnsendsItsOwn == ViewSpec => OnlyMineUnsent
<1> DEFINE Spared ==
         \A r \in requests : r.op = "del_messages" /\ r.status \in Pending /\ update(r) =>
             \A u, v \in Names : \A m \in Held(u, v) : m.from # me => m \in Held(u, v)'
<1>1. ASSUME ViewInv,
             NEW r \in requests, r.op = "del_messages", update(r),
             NEW u \in Names, NEW v \in Names, NEW m \in Held(u, v), m.from # me
      PROVE  m \in Held(u, v)'
  <2>1. del_messages(me, r.target, r.id)
    BY <1>1 DEF update
  <2>2. /\ me \in Names /\ r.target \in Names
        /\ r.id \in Nat /\ MayUnsend(me, r.target, r.id)
    BY <1>1, UnsendIsAllowed, SeedHistoryAssumption
  <2>3. CASE history' = history
    BY <1>1, <2>3 DEF Held
  <2>4. CASE OwnUnsend(me, r.target, r.id) /\ history' = BothRemove(me, r.target, r.id)
    <3>1. Removed(me, r.target, r.id)
      BY <1>1, <2>2, <2>4, BothRemoveRemoves DEF OwnUnsend, ViewInv, StoreInv, IInv
    <3>2. m.id # r.id
      BY <1>1, <2>4 DEF OwnUnsend
    <3>3. Held(u, v)' = {n \in Held(u, v) : n.id # r.id} \/ history'[u][v] = history[u][v]
      BY <3>1 DEF Removed
    <3>. QED BY <1>1, <3>2, <3>3 DEF Held
  <2>5. \/ OwnUnsend(me, r.target, r.id)
        \/ \E status \in Statuses : Refuse("del_messages", me, status)
    BY <1>1, <2>1, <2>2, UnsendCases DEF ViewInv, StoreInv
  <2>. QED BY <2>1, <2>3, <2>4, <2>5 DEF del_messages, NoHistory, Refuse, store
<1>2. ViewInv => Spared
  BY <1>1
<1>3. ViewInv /\ [ViewNext]_viewVars => [Spared]_viewVars
  BY <1>2
<1>4. ViewSpec => [][Spared]_viewVars
  BY <1>3, ViewInvariance, PTL DEF ViewSpec
<1>. QED BY <1>4 DEF OnlyMineUnsent
===============================================================================
