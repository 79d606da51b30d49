------------------------- MODULE CrowConnectionProofs -------------------------
(***************************************************************************)
(* CrowConnection keeps an inductive invariant, from which its four safety  *)
(* properties follow.  Its parts:                                           *)
(*                                                                          *)
(*   Sound     per connection one read at most is under way - pending,      *)
(*             ready, or the handler that runs - and the flags say so; of   *)
(*             a client that waits for its answers one write too, and one   *)
(*             that is owed an answer has nothing else;                     *)
(*   Owned     an entry of the timer queue is that of its owner's key;      *)
(*   Told      a client knows what it was told, and what is on its way to   *)
(*             it follows on from there;                                    *)
(*   LoopOK, UpToDate, Caused                                               *)
(*             what the loops over ress have dealt with and have left.      *)
(*                                                                          *)
(* The methods nest, so there is one lemma for each: Good, the first three  *)
(* for the handler that runs and the connections that are owed an answer,   *)
(* is preserved by it, whatever else is called before and after.            *)
(***************************************************************************)
EXTENDS CrowConnection, SequenceTheorems, TLAPS

\* The members of a sequence.
Elems(seq) == {seq[i] : i \in DOMAIN seq}

\* A read that begins with a request whose answer is still to come.
Asks(h) == h.what = "read" /\ h.ok /\ Head(h.load).route # "part"

\* The handler that is not finished: that of by, in one of the loops.
Busy(s) == s.loop.by

\* The connections that a response is still to be sent to: those kept in ress,
\* as far as the loop has not passed them, and that of the handler in the loop.
Debts(s) ==
    CASE s.loop.doing = "send" -> Elems(s.loop.left) \cup {s.loop.by}
      [] s.loop.doing = "poll" -> Elems(s.loop.left) \cup Elems(s.loop.kept) \cup {s.loop.by}
      [] OTHER -> Elems(s.held)

-----------------------------------------------------------------------------
\* What is true of the connection k, whose members are c and whose pending
\* writes are wr, while the handler of b runs, the connections of D wait for
\* a response, and the clients of z have not waited for theirs.

\* Nothing is left of one that is not live, but writes of a hasty one.
Gone(k, z, c, reads, wr, ready, b) ==
    c.state # "live" =>
        /\ k \notin reads /\ wr = <<>> /\ b # k
        /\ \A j \in DOMAIN ready : ready[j].who = k => k \in z /\ ready[j].what = "write"

\* One that is not made yet.
Unmade(k, z, c, w, D) == c.state = "free" => ~c.resume /\ k \notin w /\ k \notin D /\ k \notin z

\* A read that is pending, or whose handler runs, is the only one.
OneRead(k, c, reads, ready, b) ==
    /\ k \in reads \/ b = k =>
        /\ c.reading /\ ~c.resume
        /\ \A j \in DOMAIN ready : ready[j].who = k => ready[j].what = "write"
    /\ ~(k \in reads /\ b = k)

\* So is one whose handler is ready.
OneReader(k, c, ready) ==
    \A j \in DOMAIN ready : ready[j].who = k =>
        /\ ready[j].what # "tick"
        /\ ready[j].what = "read" =>
            /\ c.reading /\ ~c.resume
            /\ \A i \in DOMAIN ready : ready[i].who = k /\ ready[i].what \in {"start", "read"} => i = j

\* One that is to start has nothing else.
Starts(k, z, c, wr, ready, w) ==
    \A j \in DOMAIN ready : ready[j].who = k /\ ready[j].what = "start" =>
        /\ ~c.resume /\ wr = <<>> /\ k \notin w /\ k \notin z
        /\ \A i \in DOMAIN ready : ready[i].who = k => i = j

\* There is one write at most, and is_writing says so.
OneWriter(k, z, c, wr, ready) ==
    k \notin z => \A j \in DOMAIN ready : ready[j].who = k /\ ready[j].what = "write" =>
        /\ c.writing /\ wr = <<>>
        /\ \A i \in DOMAIN ready : ready[i].who = k /\ ready[i].what = "write" => i = j

\* And a pending one is that of a client that waits for it.
OneWrite(k, z, c, wr, w, D) ==
    wr # <<>> /\ k \notin z => Len(wr) = 1 /\ c.writing /\ k \in w /\ k \notin D

\* Its client waits, and nothing of it is under way.
Indebted(k, z, c, reads, ready, w, D) ==
    k \in D /\ k \notin z /\ c.state = "live" =>
        k \in w /\ k \notin reads /\ \A j \in DOMAIN ready : ready[j].who # k

\* A request comes after the write that answered the last one.
Asking(k, z, wr, ready, w, D) ==
    k \notin z => \A j \in DOMAIN ready : ready[j].who = k /\ Asks(ready[j]) =>
        /\ wr = <<>> /\ k \in w /\ k \notin D
        /\ \A i \in DOMAIN ready : ready[i].who = k /\ ready[i].what = "write" => i < j

\* All of that, for one connection.
Fine(k, z, c, reads, wr, ready, w, b, D) ==
    /\ Gone(k, z, c, reads, wr, ready, b)
    /\ Unmade(k, z, c, w, D)
    /\ OneRead(k, c, reads, ready, b)
    /\ OneReader(k, c, ready)
    /\ Starts(k, z, c, wr, ready, w)
    /\ OneWriter(k, z, c, wr, ready)
    /\ OneWrite(k, z, c, wr, w, D)
    /\ Indebted(k, z, c, reads, ready, w, D)
    /\ Asking(k, z, wr, ready, w, D)

\* And for all of them.
Sound(s, w, b, D) ==
    \A k \in Conns : Fine(k, s.hasty, s.conn[k], s.reads, s.wire[k], s.ready, w, b, D)

-----------------------------------------------------------------------------
\* The deadlines: an entry is that of its owner's key, and a key no other's entry.
Owned(s) ==
    /\ \A i \in DOMAIN s.q.dq : LET k == s.q.dq[i].who IN
        k # Nobody => s.conn[k].state = "live" /\ s.conn[k].key = s.q.step + i - 1
    /\ \A k \in Conns : Index(s.q, s.conn[k].key) \in DOMAIN s.q.dq =>
        s.q.dq[Index(s.q, s.conn[k].key)].who = k
    /\ \A k \in Conns : s.conn[k].key < s.q.step + Len(s.q.dq)

\* What a handler says of what its client knows: a client that waits for its
\* answers has sent one thing.
Says(h, l, z) ==
    /\ h.what # "tick" => h.who \in Conns
    /\ h.what = "read" /\ h.ok => h.load # <<>> /\ (h.who \notin z => Len(h.load) = 1)
    /\ Asks(h) /\ h.who \notin z => Head(h.load).last = l[h.who]

\* What the clients know, and what is on its way to them.
Told(s, l) ==
    /\ l \in [Conns -> Nat] /\ \A k \in Conns : l[k] <= s.msgs
    /\ \A k \in Conns : \A i \in DOMAIN s.wire[k] : s.wire[k][i].is = "msgs" =>
        /\ k \notin s.hasty => s.wire[k][i].from = l[k]
        /\ s.wire[k][i].upto <= s.msgs
    /\ \A j \in DOMAIN s.ready : Says(s.ready[j], l, s.hasty)

-----------------------------------------------------------------------------
\* No response is in a sequence twice, but those of the clients of z.
Distinct(seq, z) == \A i, j \in DOMAIN seq : seq[i] = seq[j] /\ seq[i] \notin z => i = j

\* What a loop has left and kept is of ress, without its own.
LoopOK(s) ==
    /\ Distinct(s.held, s.hasty) /\ Distinct(s.loop.left, s.hasty) /\ Distinct(s.loop.kept, s.hasty)
    /\ s.loop.doing \in {"nothing", "tick"} => s.loop.by = Nobody /\ s.rest = <<>>
    /\ s.loop.doing \in {"nothing", "tick", "feed"} => s.loop.left = <<>> /\ s.loop.kept = <<>>
    /\ s.loop.doing = "feed" => s.loop.by \in s.hasty /\ s.rest # <<>>
    /\ s.loop.doing \in {"send", "poll"} =>
        /\ s.loop.by \in Conns
        /\ s.loop.by \notin s.hasty => s.loop.by \notin Elems(s.held) /\ s.rest = <<>>
        /\ Elems(s.loop.left) \cup Elems(s.loop.kept) \subseteq Elems(s.held)
        /\ Elems(s.loop.left) \cap Elems(s.loop.kept) \subseteq s.hasty
    /\ s.loop.doing = "send" => s.msgs > 0
    /\ s.loop.doing = "poll" /\ s.loop.by \notin s.hasty =>
        s.conn[s.loop.by].after /\ s.conn[s.loop.by].open

\* Those in ress know all messages, but the one that is being sent.
UpToDate(s, l) ==
    \A k \in Debts(s) \ s.hasty : s.conn[k].state = "live" =>
        CASE s.loop.doing = "send" -> k # s.loop.by => l[k] = s.msgs - 1
          [] OTHER -> l[k] = s.msgs

\* One in ress that is gone was to be closed, or did not wait.
Caused(s) ==
    \A i \in DOMAIN s.held : LET k == s.held[i] IN
        s.conn[k].state = "live" \/ s.conn[k].closing \/ k \in s.hasty

\* All of it, while the handler of b runs and D wait.
Good(s, w, l, b, D) ==
    /\ s \in States /\ w \subseteq Conns
    /\ Sound(s, w, b, D)
    /\ Owned(s)
    /\ Told(s, l)

\* The invariant, of any states of the thread and of the clients.
CI(s, w, l) ==
    /\ Good(s, w, l, Busy(s), Debts(s))
    /\ LoopOK(s)
    /\ UpToDate(s, l)
    /\ Caused(s)

\* The invariant.
CInv == CI(st, waiting, last) /\ asks \in Nat

-----------------------------------------------------------------------------
\* The pending and the ready operations do not change.
SameIO(s, t) == t.reads = s.reads /\ t.wire = s.wire /\ t.ready = s.ready
\* Nor does anything but the connections and their operations.
SameRest(s, t) ==
    /\ t.held = s.held /\ t.msgs = s.msgs /\ t.loop = s.loop
    /\ t.rest = s.rest /\ t.hasty = s.hasty /\ t.thrown = s.thrown /\ t.broken = s.broken

\* The fields of a state of the thread are what States says.
LEMMA StateFields ==
    ASSUME NEW s \in States
    PROVE  /\ s.conn \in [Conns -> ConnRecord] /\ s.q \in Queues(Conns)
           /\ s.reads \subseteq Conns /\ s.wire \in [Conns -> Seq(Answer)]
           /\ s.ready \in Seq(Handler) /\ s.held \in Seq(Conns) /\ s.msgs \in Nat
           /\ s.loop \in Loop /\ s.rest \in Seq(Request) /\ s.hasty \subseteq Conns
           /\ s.thrown \subseteq Conns
           /\ s.broken \in BOOLEAN
BY DEF States

\* Cancelling an entry leaves a queue.
LEMMA CancelledType ==
    ASSUME NEW q \in Queues(Conns), NEW key \in Nat \cup {NoKey}
    PROVE  Cancelled(q, key) \in Queues(Conns)
<1> DEFINE i == Index(q, key)
<1>1. CASE ~(key # NoKey /\ i \in DOMAIN q.dq)
  BY <1>1 DEF Cancelled
<1>2. CASE key # NoKey /\ i \in DOMAIN q.dq
  <2> DEFINE E == [age : 0 .. TICK, who : Conns \cup {Nobody}]
  <2>1. q.dq \in Seq(E) /\ q.step \in Nat
    BY DEF Queues
  <2> HIDE DEF E, i
  <2>2. q.dq[i] \in E
    BY <1>2, <2>1
  <2>3. [q.dq[i] EXCEPT !.who = Nobody] \in E
    BY <2>2 DEF E
  <2>5. Cancelled(q, key) = [q EXCEPT !.dq = [q.dq EXCEPT ![i] = [q.dq[i] EXCEPT !.who = Nobody]]]
    BY <1>2 DEF Cancelled, i
  <2>4. [q.dq EXCEPT ![i] = [q.dq[i] EXCEPT !.who = Nobody]] \in Seq(E)
    BY <1>2, <2>1, <2>3, ExceptSeq
  <2> QED BY <2>1, <2>4, <2>5 DEF Queues, E
<1> QED BY <1>1, <1>2

\* cancel_deadline_timer changes the queue and the key of k.
LEMMA CancelFacts ==
    ASSUME NEW s \in States, NEW k \in Conns, NEW t, t = cancel_deadline_timer(s, k)
    PROVE  /\ t \in States
           /\ t.conn = [s.conn EXCEPT ![k] = [s.conn[k] EXCEPT !.key = NoKey]]
           /\ t.q = Cancelled(s.q, s.conn[k].key)
           /\ SameIO(s, t) /\ SameRest(s, t)
<1>1. s.conn[k] \in ConnRecord /\ s.conn \in [Conns -> ConnRecord] /\ s.conn[k].key \in Nat \cup {NoKey}
  BY StateFields DEF ConnRecord
<1>2. Cancelled(s.q, s.conn[k].key) \in Queues(Conns)
  BY <1>1, StateFields, CancelledType
<1>3. [s.conn EXCEPT ![k] = [s.conn[k] EXCEPT !.key = NoKey]] \in [Conns -> ConnRecord]
  BY <1>1 DEF ConnRecord
<1>4. t \in States
  BY <1>1, <1>2, <1>3 DEF States, cancel_deadline_timer
<1> QED BY <1>4 DEF States, cancel_deadline_timer, SameIO, SameRest

\* do_read on an open socket makes a read pending, on a closed one a handler ready.
LEMMA DoReadFacts ==
    ASSUME NEW s \in States, NEW k \in Conns, NEW t, t = do_read(s, k)
    PROVE  /\ t \in States
           /\ t.conn = [s.conn EXCEPT ![k] = [s.conn[k] EXCEPT !.reading = TRUE]]
           /\ t.q = s.q /\ t.wire = s.wire /\ SameRest(s, t)
           /\ s.conn[k].open => t.reads = s.reads \cup {k} /\ t.ready = s.ready
           /\ ~s.conn[k].open => /\ t.reads = s.reads
                                 /\ t.ready = Append(s.ready, [who |-> k, what |-> "read", ok |-> FALSE, load |-> <<>>])
<1>1. s.conn[k] \in ConnRecord /\ s.conn \in [Conns -> ConnRecord]
  BY StateFields DEF ConnRecord
<1>3. [s.conn EXCEPT ![k] = [s.conn[k] EXCEPT !.reading = TRUE]] \in [Conns -> ConnRecord]
  BY <1>1 DEF ConnRecord
<1>5. [who |-> k, what |-> "read", ok |-> FALSE, load |-> <<>>] \in Handler
  BY DEF Handler
<1>6. CASE s.conn[k].open
  BY <1>1, <1>3, <1>6 DEF States, do_read, SameRest
<1>7. CASE ~s.conn[k].open
  <2> DEFINE h == [who |-> k, what |-> "read", ok |-> FALSE, load |-> <<>>]
  <2>1. Append(s.ready, h) \in Seq(Handler)
    BY <1>5, StateFields
  <2>2. t = [[s EXCEPT !.conn[k].reading = TRUE] EXCEPT !.ready = Append(@, h)]
    BY <1>7 DEF do_read, Ready
  <2> HIDE DEF h
  <2>3. t \in States /\ t.conn = [s.conn EXCEPT ![k] = [s.conn[k] EXCEPT !.reading = TRUE]]
    BY <1>1, <1>3, <2>1, <2>2 DEF States
  <2>4. t.q = s.q /\ t.wire = s.wire /\ SameRest(s, t) /\ t.reads = s.reads /\ t.ready = Append(s.ready, h)
    BY <2>2 DEF States, SameRest
  <2> QED BY <1>7, <2>3, <2>4 DEF h
<1> QED BY <1>6, <1>7

\* The handler of an operation that failed.
Failed(k, what) == [who |-> k, what |-> what, ok |-> FALSE, load |-> <<>>]

\* A handler of an operation that failed is a handler.
LEMMA FailedType ==
    ASSUME NEW k \in Conns
    PROVE  Failed(k, "read") \in Handler /\ Failed(k, "write") \in Handler
BY DEF Failed, Handler

\* What do_write does.
Wrote(s, t, k, a) ==
    /\ t \in States
    /\ t.conn = [s.conn EXCEPT ![k] = [s.conn[k] EXCEPT !.writing = TRUE]]
    /\ t.q = s.q /\ t.reads = s.reads /\ SameRest(s, t)
    /\ s.conn[k].open => /\ t.wire = [s.wire EXCEPT ![k] = Append(s.wire[k], a)]
                         /\ t.ready = s.ready
    /\ ~s.conn[k].open => t.wire = s.wire /\ t.ready = Append(s.ready, Failed(k, "write"))

\* do_write on an open socket adds to what is pending, on a closed one to what is ready.
LEMMA DoWriteFacts ==
    ASSUME NEW s \in States, NEW k \in Conns, NEW a \in Answer, NEW t, t = do_write(s, k, a)
    PROVE  Wrote(s, t, k, a)
<1>1. s.conn[k] \in ConnRecord /\ s.conn \in [Conns -> ConnRecord]
  BY StateFields
<1>3. [s.conn EXCEPT ![k] = [s.conn[k] EXCEPT !.writing = TRUE]] \in [Conns -> ConnRecord]
  BY <1>1 DEF ConnRecord
<1>6. CASE s.conn[k].open
  <2>1. Append(s.wire[k], a) \in Seq(Answer)
    BY StateFields
  <2>2. t = [[s EXCEPT !.conn[k].writing = TRUE] EXCEPT !.wire[k] = Append(@, a)]
    BY <1>6 DEF do_write
  <2>3. [s.wire EXCEPT ![k] = Append(s.wire[k], a)] \in [Conns -> Seq(Answer)]
    BY <2>1, StateFields
  <2>4. t \in States /\ t.conn = [s.conn EXCEPT ![k] = [s.conn[k] EXCEPT !.writing = TRUE]]
    BY <1>1, <1>3, <2>3, <2>2 DEF States
  <2>5. t.q = s.q /\ t.reads = s.reads /\ SameRest(s, t) /\ t.ready = s.ready
        /\ t.wire = [s.wire EXCEPT ![k] = Append(s.wire[k], a)]
    BY <2>2 DEF States, SameRest
  <2> QED BY <1>6, <2>4, <2>5 DEF Wrote
<1>7. CASE ~s.conn[k].open
  <2> DEFINE h == Failed(k, "write")
  <2>1. Append(s.ready, h) \in Seq(Handler)
    BY FailedType, StateFields
  <2>2. t = [[s EXCEPT !.conn[k].writing = TRUE] EXCEPT !.ready = Append(@, h)]
    BY <1>7 DEF do_write, Ready, Failed
  <2> HIDE DEF h
  <2>3. t \in States /\ t.conn = [s.conn EXCEPT ![k] = [s.conn[k] EXCEPT !.writing = TRUE]]
    BY <1>1, <1>3, <2>1, <2>2 DEF States
  <2>4. t.q = s.q /\ t.wire = s.wire /\ SameRest(s, t) /\ t.reads = s.reads /\ t.ready = Append(s.ready, h)
    BY <2>2 DEF States, SameRest
  <2> QED BY <1>7, <2>3, <2>4 DEF h, Wrote
<1> QED BY <1>6, <1>7

\* A function over the positions of a sequence of one element is such a sequence.
LEMMA OneLong ==
    ASSUME NEW T, NEW u \in Seq(T), u # <<>>, Len(u) <= 1, NEW w
    PROVE  [i \in DOMAIN u |-> w] = <<w>> /\ Len(u) = 1
<1>1. Len(u) \in Nat \ {0}
  BY EmptySeq
<1>2. Len(u) = 1
  <2>1. PICK n : n = Len(u)
    OBVIOUS
  <2>2. n \in Nat /\ n # 0
    BY <1>1, <2>1
  <2>3. n <= 1
    BY <2>1
  <2> QED BY <2>1, <2>2, <2>3
<1>3. DOMAIN u = 1 .. 1
  BY <1>2
<1> QED BY <1>2, <1>3

\* Appending a sequence of at most two elements is appending them one by one.
LEMMA Appended ==
    ASSUME NEW T, NEW y \in Seq(T), NEW r \in T, NEW w \in T
    PROVE  /\ y \o (<<r>> \o <<>>) = Append(y, r)
           /\ y \o (<<r>> \o <<w>>) = Append(Append(y, r), w)
           /\ y \o (<<>> \o <<w>>) = Append(y, w)
           /\ y \o (<<>> \o <<>>) = y
           /\ <<r>> \o <<>> \in Seq(T) /\ <<r>> \o <<w>> \in Seq(T)
           /\ <<>> \o <<w>> \in Seq(T) /\ <<>> \o <<>> \in Seq(T)
<1>1. <<r>> \in Seq(T) /\ <<w>> \in Seq(T) /\ <<>> \in Seq(T)
  OBVIOUS
<1>2. <<r>> \o <<>> = <<r>> /\ <<>> \o <<w>> = <<w>> /\ <<>> \o <<>> = <<>> /\ y \o <<>> = y
  BY <1>1, ConcatEmptySeq
<1>3. <<r>> \o <<w>> \in Seq(T)
  BY <1>1, ConcatProperties
<1>4. \A v \in Seq(T) : \A e \in T : v \o <<e>> = Append(v, e) /\ Append(v, e) \in Seq(T)
  OBVIOUS
<1>5. y \o (<<r>> \o <<w>>) = (y \o <<r>>) \o <<w>>
  BY <1>1, ConcatAssociative
<1>6. y \o (<<r>> \o <<w>>) = Append(Append(y, r), w)
  BY <1>4, <1>5
<1> QED BY <1>1, <1>2, <1>3, <1>4, <1>6

\* Closing a socket makes ready what was pending on it: a read and one write at most.
LEMMA AbortedIs ==
    ASSUME NEW s \in States, NEW k \in Conns, Len(s.wire[k]) <= 1
    PROVE  /\ Aborted(s, k) \in Seq(Handler)
           /\ s.ready \o Aborted(s, k) =
                IF k \in s.reads
                THEN IF s.wire[k] = <<>> THEN Append(s.ready, Failed(k, "read"))
                     ELSE Append(Append(s.ready, Failed(k, "read")), Failed(k, "write"))
                ELSE IF s.wire[k] = <<>> THEN s.ready
                     ELSE Append(s.ready, Failed(k, "write"))
<1>1. PICK r \in Handler : r = Failed(k, "read")
  BY FailedType
<1>2. PICK w \in Handler : w = Failed(k, "write")
  BY FailedType
<1>3. PICK y \in Seq(Handler) : y = s.ready
  BY StateFields
<1>4. PICK u \in Seq(Answer) : u = s.wire[k]
  BY StateFields
<1>5. PICK x : x = [i \in DOMAIN u |-> w]
  OBVIOUS
<1>6. Aborted(s, k) = (IF k \in s.reads THEN <<r>> ELSE <<>>) \o x
  BY <1>1, <1>2, <1>4, <1>5 DEF Aborted, Failed
<1>7. u = <<>> => x = <<>>
  BY <1>5
<1>8. u # <<>> => x = <<w>>
  BY <1>4, <1>5, OneLong
<1>9. /\ y \o (<<r>> \o <<>>) = Append(y, r)
      /\ y \o (<<r>> \o <<w>>) = Append(Append(y, r), w)
      /\ y \o (<<>> \o <<w>>) = Append(y, w)
      /\ y \o (<<>> \o <<>>) = y
      /\ <<r>> \o <<>> \in Seq(Handler) /\ <<r>> \o <<w>> \in Seq(Handler)
      /\ <<>> \o <<w>> \in Seq(Handler) /\ <<>> \o <<>> \in Seq(Handler)
  BY Appended, Zenon
<1> QED BY <1>1, <1>2, <1>3, <1>4, <1>6, <1>7, <1>8, <1>9, Zenon

\* In general a read, and then the writes.
LEMMA AbortedAre ==
    ASSUME NEW s \in States, NEW k \in Conns, NEW y, y = s.ready \o Aborted(s, k), NEW n, n = Len(s.ready)
    PROVE  /\ Aborted(s, k) \in Seq(Handler) /\ y \in Seq(Handler)
           /\ n \in Nat /\ DOMAIN s.ready = 1 .. n /\ 1 .. n \subseteq DOMAIN y
           /\ \A j \in 1 .. n : y[j] = s.ready[j]
           /\ \A j \in DOMAIN y : j \notin 1 .. n =>
                \/ y[j] = Failed(k, "read") /\ k \in s.reads /\ j = n + 1
                \/ y[j] = Failed(k, "write")
<1>1. PICK r \in Handler : r = Failed(k, "read")
  BY FailedType
<1>2. PICK w \in Handler : w = Failed(k, "write")
  BY FailedType
<1>3. PICK z \in Seq(Handler) : z = s.ready
  BY StateFields
<1>4. PICK u \in Seq(Answer) : u = s.wire[k]
  BY StateFields
<1>5. PICK x : x = [i \in DOMAIN u |-> w]
  OBVIOUS
<1>6. PICK m \in Nat : m = Len(u) /\ DOMAIN u = 1 .. m
  BY <1>4, LenProperties
<1>7. x \in Seq(Handler) /\ Len(x) = m /\ \A i \in 1 .. m : x[i] = w
  BY <1>5, <1>6, IsASeq
<1>8. PICK f \in Seq(Handler) : /\ f = IF k \in s.reads THEN <<r>> ELSE <<>>
                                /\ Len(f) = (IF k \in s.reads THEN 1 ELSE 0) /\ (k \in s.reads => f[1] = r)
  <2>1. PICK f : f = <<r>>
    OBVIOUS
  <2>2. f \in Seq(Handler) /\ Len(f) = 1 /\ f[1] = r
    BY <2>1
  <2>3. PICK e : e = <<>>
    OBVIOUS
  <2>4. e \in Seq(Handler) /\ Len(e) = 0
    BY <2>3
  <2>5. PICK g : g = IF k \in s.reads THEN f ELSE e
    OBVIOUS
  <2>6. g \in Seq(Handler) /\ Len(g) = (IF k \in s.reads THEN 1 ELSE 0) /\ (k \in s.reads => g[1] = r)
    BY <2>2, <2>4, <2>5
  <2> QED BY <2>1, <2>3, <2>5, <2>6
<1>9. PICK a \in Seq(Handler) : a = f \o x
  BY <1>7, <1>8, ConcatProperties
<1>10. Aborted(s, k) = a
  BY <1>1, <1>2, <1>4, <1>5, <1>8, <1>9 DEF Aborted, Failed
<1>11. /\ Len(a) = Len(f) + m
       /\ \A i \in 1 .. Len(a) : a[i] = IF i <= Len(f) THEN f[i] ELSE x[i - Len(f)]
  BY <1>7, <1>8, <1>9, ConcatProperties
<1>12. \A i \in 1 .. Len(a) : a[i] = w \/ (a[i] = r /\ k \in s.reads /\ i = 1)
  <2> SUFFICES ASSUME NEW i \in 1 .. Len(a) PROVE a[i] = w \/ (a[i] = r /\ k \in s.reads /\ i = 1)
    OBVIOUS
  <2>1. CASE i <= Len(f)
    BY <2>1, <1>6, <1>8, <1>11
  <2>2. CASE i > Len(f)
    <3>1. i - Len(f) \in 1 .. m /\ a[i] = x[i - Len(f)]
      BY <2>2, <1>6, <1>8, <1>11
    <3> QED BY <3>1, <1>7
  <2> QED BY <2>1, <2>2, <1>8
<1>13. /\ y \in Seq(Handler) /\ Len(y) = n + Len(a) /\ n \in Nat /\ Len(a) \in Nat
       /\ \A j \in 1 .. Len(y) : y[j] = IF j <= n THEN z[j] ELSE a[j - n]
  <2>1. y = z \o a /\ n = Len(z)
    BY <1>3, <1>10
  <2>2. /\ z \o a \in Seq(Handler) /\ Len(z \o a) = Len(z) + Len(a)
        /\ \A j \in 1 .. Len(z) + Len(a) : (z \o a)[j] = IF j <= Len(z) THEN z[j] ELSE a[j - Len(z)]
    BY ConcatProperties
  <2> QED BY <2>1, <2>2, LenProperties
<1>14. DOMAIN y = 1 .. Len(y) /\ DOMAIN z = 1 .. n
  BY <1>3, <1>13, LenProperties
<1>15. ASSUME NEW j \in DOMAIN y, j \notin 1 .. n
       PROVE  (y[j] = r /\ k \in s.reads /\ j = n + 1) \/ y[j] = w
  <2>1. j - n \in 1 .. Len(a) /\ y[j] = a[j - n]
    BY <1>13, <1>14, <1>15
  <2> QED BY <2>1, <1>12, <1>13, <1>14, <1>15
<1>16. 1 .. n \subseteq DOMAIN y /\ \A j \in 1 .. n : y[j] = z[j]
  BY <1>13, <1>14
<1> QED BY <1>1, <1>2, <1>3, <1>9, <1>10, <1>13, <1>14, <1>15, <1>16

\* What CloseAdaptor does.
Closed(s, t, k) ==
    /\ t \in States
    /\ t.conn = [s.conn EXCEPT ![k] = [s.conn[k] EXCEPT !.open = FALSE]]
    /\ t.q = s.q /\ t.reads = s.reads \ {k} /\ t.wire = [s.wire EXCEPT ![k] = <<>>]
    /\ SameRest(s, t) /\ t.ready = s.ready \o Aborted(s, k)

\* CloseAdaptor does that and no more.
LEMMA CloseFacts ==
    ASSUME NEW s \in States, NEW k \in Conns, NEW t, t = CloseAdaptor(s, k)
    PROVE  Closed(s, t, k)
<1>1. s.conn[k] \in ConnRecord /\ s.conn \in [Conns -> ConnRecord]
      /\ s.wire \in [Conns -> Seq(Answer)] /\ s.ready \in Seq(Handler)
  BY StateFields
<1>3. [s.conn EXCEPT ![k] = [s.conn[k] EXCEPT !.open = FALSE]] \in [Conns -> ConnRecord]
  BY <1>1 DEF ConnRecord
<1>4. PICK a \in Seq(Handler) : a = Aborted(s, k)
  BY AbortedAre
<1>5. s.ready \o a \in Seq(Handler) /\ [s.wire EXCEPT ![k] = <<>>] \in [Conns -> Seq(Answer)]
  BY <1>1, <1>4
<1>6. PICK c \in [Conns -> ConnRecord] : c = [s.conn EXCEPT ![k] = [s.conn[k] EXCEPT !.open = FALSE]]
  BY <1>3
<1>7. PICK w \in [Conns -> Seq(Answer)] : w = [s.wire EXCEPT ![k] = <<>>]
  BY <1>5
<1>8. PICK y \in Seq(Handler) : y = s.ready \o a
  BY <1>5
<1>9. PICK r \in SUBSET Conns : r = s.reads \ {k}
  BY StateFields
<1>10. t = [s EXCEPT !.conn = c, !.reads = r, !.wire = w, !.ready = y]
  <2>1. t = [s EXCEPT !.conn[k].open = FALSE, !.reads = @ \ {k}, !.wire[k] = <<>>, !.ready = @ \o Aborted(s, k)]
    BY DEF CloseAdaptor
  <2>2. DOMAIN s = {"conn", "q", "reads", "wire", "ready", "held", "msgs", "loop", "rest", "hasty", "thrown", "broken"}
    BY DEF States
  <2> QED BY <1>4, <1>6, <1>7, <1>8, <1>9, <2>1, <2>2
<1>11. /\ t \in States /\ t.conn = c /\ t.reads = r /\ t.wire = w /\ t.ready = y /\ t.q = s.q
       /\ SameRest(s, t)
  BY <1>10 DEF States, SameRest
<1> QED BY <1>4, <1>6, <1>7, <1>8, <1>9, <1>11 DEF Closed

\* Adding an entry leaves a queue, and gives a key.
LEMMA AddedType ==
    ASSUME NEW q \in Queues(Conns), NEW k \in Conns
    PROVE  Added(q, k) \in Queues(Conns) /\ NewKey(q) \in Nat
<1> DEFINE E == [age : 0 .. TICK, who : Conns \cup {Nobody}]
<1>1. q.dq \in Seq(E) /\ q.step \in Nat
  BY DEF Queues
<1>2. [age |-> 0, who |-> k] \in E
  BY TimerAssumption
<1>3. PICK e \in E : e = [age |-> 0, who |-> k]
  BY <1>2
<1> HIDE DEF E
<1>4. PICK d \in Seq(E) : d = Append(q.dq, e)
  BY <1>1, AppendProperties
<1>5. Added(q, k) = [q EXCEPT !.dq = d]
  BY <1>3, <1>4 DEF Added
<1>6. q \in [step : Nat, dq : Seq(E)]
  BY DEF E, Queues
<1>7. [q EXCEPT !.dq = d] \in [step : Nat, dq : Seq(E)]
  BY <1>6
<1>8. NewKey(q) \in Nat
  BY <1>1 DEF NewKey
<1> QED BY <1>5, <1>7, <1>8 DEF E, Queues

\* start_deadline cancels the deadline of k and adds another.
LEMMA StartDeadlineFacts ==
    ASSUME NEW s \in States, NEW k \in Conns, NEW t, t = start_deadline(s, k),
           NEW c, c = Cancelled(s.q, s.conn[k].key)
    PROVE  /\ t \in States
           /\ t.conn = [s.conn EXCEPT ![k] = [s.conn[k] EXCEPT !.key = NewKey(c)]]
           /\ t.q = Added(c, k)
           /\ SameIO(s, t) /\ SameRest(s, t)
<1>1. PICK u \in States : u = cancel_deadline_timer(s, k)
  BY CancelFacts
<1>2. /\ u.conn = [s.conn EXCEPT ![k] = [s.conn[k] EXCEPT !.key = NoKey]]
      /\ u.q = c /\ SameIO(s, u) /\ SameRest(s, u)
  BY <1>1, CancelFacts
<1>3. Added(c, k) \in Queues(Conns) /\ NewKey(c) \in Nat
  BY <1>2, StateFields, AddedType
<1>4. u.conn[k] \in ConnRecord /\ u.conn \in [Conns -> ConnRecord] /\ s.conn[k] \in ConnRecord /\ s.conn \in [Conns -> ConnRecord]
  BY StateFields
<1>5. [u.conn EXCEPT ![k] = [u.conn[k] EXCEPT !.key = NewKey(c)]] \in [Conns -> ConnRecord]
  BY <1>3, <1>4 DEF ConnRecord
<1>6. t = [u EXCEPT !.q = Added(u.q, k), !.conn[k].key = NewKey(u.q)]
  BY <1>1 DEF start_deadline
<1>10. PICK d \in [Conns -> ConnRecord] : d = [u.conn EXCEPT ![k] = [u.conn[k] EXCEPT !.key = NewKey(c)]]
  BY <1>5
<1>11. PICK p \in Queues(Conns) : p = Added(c, k)
  BY <1>3
<1>12. t = [u EXCEPT !.q = p, !.conn = d]
  <2>1. DOMAIN u = {"conn", "q", "reads", "wire", "ready", "held", "msgs", "loop", "rest", "hasty", "thrown", "broken"}
    BY DEF States
  <2> QED BY <1>2, <1>6, <1>10, <1>11, <2>1
<1>13. t \in States /\ t.conn = d /\ t.q = p /\ SameIO(u, t) /\ SameRest(u, t)
  BY <1>12 DEF States, SameIO, SameRest
<1>7. t.conn = [u.conn EXCEPT ![k] = [u.conn[k] EXCEPT !.key = NewKey(c)]]
  BY <1>10, <1>13
<1>8. t.q = Added(c, k) /\ SameIO(u, t) /\ SameRest(u, t)
  BY <1>11, <1>13
<1>9. t.conn = [s.conn EXCEPT ![k] = [s.conn[k] EXCEPT !.key = NewKey(c)]]
  BY <1>2, <1>4, <1>7 DEF ConnRecord
<1> QED BY <1>2, <1>8, <1>9, <1>13 DEF SameIO, SameRest

-----------------------------------------------------------------------------
\* What keeps its place and its state.
Keeps(s, t) ==
    /\ SameRest(s, t)
    /\ \A k \in Conns : /\ t.conn[k].state = s.conn[k].state
                        /\ s.conn[k].closing => t.conn[k].closing

\* The fields of a queue of deadlines.
LEMMA QueueTyped ==
    ASSUME NEW q \in Queues(Conns)
    PROVE  /\ q.step \in Nat /\ Len(q.dq) \in Nat /\ DOMAIN q.dq = 1 .. Len(q.dq)
           /\ q.dq \in Seq([age : 0 .. TICK, who : Conns \cup {Nobody}])
           /\ \A i \in DOMAIN q.dq : q.dq[i].who \in Conns \cup {Nobody}
<1> DEFINE E == [age : 0 .. TICK, who : Conns \cup {Nobody}]
<1>1. q.step \in Nat /\ q.dq \in Seq(E)
  BY DEF Queues
<1> HIDE DEF E
<1>2. Len(q.dq) \in Nat /\ DOMAIN q.dq = 1 .. Len(q.dq)
  BY <1>1
<1>3. \A i \in DOMAIN q.dq : q.dq[i] \in E
  BY <1>1
<1>4. \A i \in DOMAIN q.dq : q.dq[i].who \in Conns \cup {Nobody}
  BY <1>3 DEF E
<1> QED BY <1>1, <1>2, <1>4 DEF E

\* The flags that tell what is under way do not change.
SameUse(s, t) ==
    \A k \in Conns : /\ t.conn[k].state = s.conn[k].state
                     /\ t.conn[k].reading = s.conn[k].reading
                     /\ t.conn[k].writing = s.conn[k].writing
                     /\ t.conn[k].resume => s.conn[k].resume

\* What is under way stays sound when only flags change that it does not depend on.
LEMMA SameSound ==
    ASSUME NEW s, NEW t, NEW w, NEW b, NEW D, NEW E \in SUBSET D, Sound(s, w, b, D), SameIO(s, t), SameUse(s, t),
           t.hasty = s.hasty
    PROVE  Sound(t, w, b, E)
<1> SUFFICES ASSUME NEW k \in Conns PROVE Fine(k, s.hasty, t.conn[k], t.reads, t.wire[k], t.ready, w, b, E)
  BY DEF Sound
<1> DEFINE c == s.conn[k]
<1> DEFINE d == t.conn[k]
<1>1. Fine(k, s.hasty, c, s.reads, s.wire[k], s.ready, w, b, D)
  BY DEF Sound
<1>2. t.reads = s.reads /\ t.wire = s.wire /\ t.ready = s.ready
  BY DEF SameIO
<1>3. d.state = c.state /\ d.reading = c.reading /\ d.writing = c.writing /\ (d.resume => c.resume)
  BY DEF SameUse
<1> HIDE DEF c, d
<1>4. Fine(k, s.hasty, d, s.reads, s.wire[k], s.ready, w, b, E)
  BY <1>1, <1>3 DEF Fine, Gone, Unmade, OneRead, OneReader, Starts, OneWriter, OneWrite, Indebted, Asking
<1> QED BY <1>2, <1>4 DEF d

\* So do the deadlines, when neither they nor the keys change.
LEMMA SameOwned ==
    ASSUME NEW s, NEW t, Owned(s), t.q = s.q,
           \A k \in Conns : t.conn[k].key = s.conn[k].key /\ t.conn[k].state = s.conn[k].state,
           s \in States
    PROVE  Owned(t)
<1>1. \A i \in DOMAIN s.q.dq : s.q.dq[i].who # Nobody => s.q.dq[i].who \in Conns
  BY StateFields, QueueTyped
<1> QED BY <1>1 DEF Owned

\* A new value of k that says the same of what is under way.
SameFlags(c, d) ==
    /\ d.state = c.state /\ d.open = c.open /\ d.reading = c.reading /\ d.writing = c.writing
    /\ d.key = c.key /\ (d.resume => c.resume) /\ (c.closing => d.closing)

\* For all connections.
AllSame(s, t) == \A k \in Conns : SameFlags(s.conn[k], t.conn[k])

\* And everything, when only flags change that nothing depends on.
LEMMA SameGood ==
    ASSUME NEW s, NEW t \in States, NEW w, NEW l, NEW b, NEW D, Good(s, w, l, b, D),
           SameIO(s, t), t.q = s.q, t.msgs = s.msgs, t.hasty = s.hasty, AllSame(s, t)
    PROVE  Good(t, w, l, b, D)
<1>1. Sound(t, w, b, D)
  <2>1. Sound(s, w, b, D)
    BY DEF Good
  <2>2. SameUse(s, t)
    BY DEF AllSame, SameFlags, SameUse
  <2>3. PICK E \in SUBSET D : E = D
    OBVIOUS
  <2>4. Sound(t, w, b, E)
    BY <2>1, <2>2, SameSound
  <2> QED BY <2>3, <2>4
<1>2. Owned(t)
  BY SameOwned DEF Good, AllSame, SameFlags
<1>4. Told(t, l)
  BY DEF Good, Told, SameIO
<1> QED BY <1>1, <1>2, <1>4 DEF Good

-----------------------------------------------------------------------------
\* Cancelling takes the function of one entry.
LEMMA CancelIs ==
    ASSUME NEW q \in Queues(Conns), NEW key \in Nat \cup {NoKey}, NEW c, c = Cancelled(q, key)
    PROVE  /\ c.step = q.step /\ Len(c.dq) = Len(q.dq)
           /\ \A i \in DOMAIN q.dq :
                c.dq[i].who = IF key # NoKey /\ i = Index(q, key) THEN Nobody ELSE q.dq[i].who
<1> DEFINE j == Index(q, key)
<1>1. CASE ~(key # NoKey /\ j \in DOMAIN q.dq)
  <2>1. c = q
    BY <1>1 DEF Cancelled
  <2> QED BY <1>1, <2>1
<1>2. CASE key # NoKey /\ j \in DOMAIN q.dq
  <2> DEFINE E == [age : 0 .. TICK, who : Conns \cup {Nobody}]
  <2>1. q.dq \in Seq(E)
    BY QueueTyped
  <2>2. PICK d : d = [q.dq EXCEPT ![j] = [q.dq[j] EXCEPT !.who = Nobody]]
    OBVIOUS
  <2>3. c = [q EXCEPT !.dq = d]
    BY <1>2, <2>2 DEF Cancelled
  <2>4. c.step = q.step /\ c.dq = d
    BY <2>3 DEF Queues
  <2>5. q.dq[j] \in E
    BY <1>2, <2>1, ElementOfSeq, QueueTyped
  <2>6. PICK e \in E : e = [q.dq[j] EXCEPT !.who = Nobody] /\ e.who = Nobody
    <3>1. PICK f \in E : f = q.dq[j]
      BY <2>5
    <3>2. [f EXCEPT !.who = Nobody] \in E /\ [f EXCEPT !.who = Nobody].who = Nobody
      OBVIOUS
    <3> QED BY <3>1, <3>2
  <2> HIDE DEF E, j
  <2>7. Len(d) = Len(q.dq) /\ \A i \in 1 .. Len(q.dq) : d[i] = IF i = j THEN e ELSE q.dq[i]
    BY <1>2, <2>1, <2>2, <2>6, ExceptSeq, QueueTyped
  <2> QED BY <1>2, <2>4, <2>6, <2>7, QueueTyped DEF j
<1> QED BY <1>1, <1>2

\* Adding puts an entry behind the others.
LEMMA AddIs ==
    ASSUME NEW q \in Queues(Conns), NEW k \in Conns, NEW c, c = Added(q, k)
    PROVE  /\ c.step = q.step /\ Len(c.dq) = Len(q.dq) + 1 /\ c.dq[Len(q.dq) + 1].who = k
           /\ \A i \in DOMAIN q.dq : c.dq[i] = q.dq[i]
<1>1. PICK e \in [age : 0 .. TICK, who : Conns \cup {Nobody}] : e = [age |-> 0, who |-> k] /\ e.who = k
  <2>1. [age |-> 0, who |-> k] \in [age : 0 .. TICK, who : Conns \cup {Nobody}]
    BY TimerAssumption
  <2>2. [age |-> 0, who |-> k].who = k
    OBVIOUS
  <2> QED BY <2>1, <2>2
<1>2. c.step = q.step /\ c.dq = Append(q.dq, e)
  BY <1>1 DEF Added, Queues
<1>3. /\ Len(Append(q.dq, e)) = Len(q.dq) + 1 /\ Append(q.dq, e)[Len(q.dq) + 1] = e
      /\ \A i \in 1 .. Len(q.dq) : Append(q.dq, e)[i] = q.dq[i]
  BY QueueTyped, AppendProperties
<1> QED BY <1>1, <1>2, <1>3, QueueTyped

\* The deadlines and the states of all connections but k are the same.
OthersKept(s, t, k) ==
    \A j \in Conns : j # k => t.conn[j].key = s.conn[j].key /\ t.conn[j].state = s.conn[j].state

\* k has no deadline.
NoDeadline(q, k) == \A i \in DOMAIN q.dq : q.dq[i].who # k

\* When k cancels its deadline none of its entries is left.
LEMMA CancelOwned ==
    ASSUME NEW s \in States, NEW t \in States, NEW k \in Conns, Owned(s),
           t.conn[k].key = NoKey, t.q = Cancelled(s.q, s.conn[k].key),
           OthersKept(s, t, k)
    PROVE  Owned(t) /\ NoDeadline(t.q, k)
<1>0. \A j \in Conns : j # k => t.conn[j].key = s.conn[j].key /\ t.conn[j].state = s.conn[j].state
  BY DEF OthersKept
<1>1. /\ s.q \in Queues(Conns) /\ t.q \in Queues(Conns)
      /\ \A j \in Conns : s.conn[j].key \in Nat \cup {NoKey} /\ t.conn[j].key \in Nat \cup {NoKey}
  BY StateFields DEF ConnRecord
<1>2. /\ t.q.step = s.q.step /\ Len(t.q.dq) = Len(s.q.dq)
      /\ \A i \in DOMAIN s.q.dq :
            t.q.dq[i].who = IF s.conn[k].key # NoKey /\ i = Index(s.q, s.conn[k].key) THEN Nobody ELSE s.q.dq[i].who
  <2>1. PICK p \in Queues(Conns) : p = s.q
    BY <1>1
  <2>2. PICK key \in Nat \cup {NoKey} : key = s.conn[k].key
    BY <1>1
  <2>3. PICK c : c = Cancelled(p, key)
    OBVIOUS
  <2>4. /\ c.step = p.step /\ Len(c.dq) = Len(p.dq)
        /\ \A i \in DOMAIN p.dq :
              c.dq[i].who = IF key # NoKey /\ i = Index(p, key) THEN Nobody ELSE p.dq[i].who
    BY <2>3, CancelIs
  <2> QED BY <2>1, <2>2, <2>3, <2>4
<1>3. DOMAIN t.q.dq = DOMAIN s.q.dq /\ DOMAIN s.q.dq = 1 .. Len(s.q.dq)
      /\ Len(s.q.dq) \in Nat /\ s.q.step \in Nat
      /\ \A i \in DOMAIN s.q.dq : s.q.dq[i].who \in Conns \cup {Nobody}
  BY <1>1, <1>2, QueueTyped
<1>4. ASSUME NEW i \in DOMAIN t.q.dq, t.q.dq[i].who # Nobody
      PROVE  LET j == t.q.dq[i].who IN j # k /\ t.conn[j].state = "live" /\ t.conn[j].key = t.q.step + i - 1
  <2> DEFINE j == t.q.dq[i].who
  <2>1. j = s.q.dq[i].who /\ j \in Conns /\ ~(s.conn[k].key # NoKey /\ i = Index(s.q, s.conn[k].key))
    BY <1>2, <1>3, <1>4
  <2>2. s.conn[j].state = "live" /\ s.conn[j].key = s.q.step + i - 1
    BY <1>3, <1>4, <2>1 DEF Owned
  <2>3. s.conn[j].key # NoKey /\ i = Index(s.q, s.conn[j].key)
    BY <2>2, <1>3, <1>4 DEF NoKey, Index
  <2>4. j # k
    BY <2>1, <2>3
  <2> QED BY <2>1, <2>2, <2>4, <1>2, <1>0
<1>5. ASSUME NEW j \in Conns, Index(t.q, t.conn[j].key) \in DOMAIN t.q.dq
      PROVE  t.q.dq[Index(t.q, t.conn[j].key)].who = j
  <2>1. Index(t.q, NoKey) \notin DOMAIN t.q.dq
    BY <1>2, <1>3 DEF Index, NoKey
  <2>2. j # k /\ t.conn[j].key = s.conn[j].key
    BY <1>5, <2>1, <1>0
  <2>3. PICK i \in DOMAIN s.q.dq : i = Index(s.q, s.conn[j].key) /\ i = Index(t.q, t.conn[j].key)
    BY <1>2, <1>3, <1>5, <2>2 DEF Index
  <2>4. s.q.dq[i].who = j
    BY <2>3 DEF Owned
  <2>5. ~(s.conn[k].key # NoKey /\ i = Index(s.q, s.conn[k].key))
    BY <2>2, <2>4, <1>3 DEF Owned
  <2> QED BY <1>2, <2>3, <2>4, <2>5
<1>6. \A j \in Conns : t.conn[j].key < t.q.step + Len(t.q.dq)
  <2> SUFFICES ASSUME NEW j \in Conns PROVE t.conn[j].key < t.q.step + Len(t.q.dq)
    OBVIOUS
  <2>1. CASE j = k
    BY <2>1, <1>2, <1>3 DEF NoKey
  <2>2. CASE j # k
    BY <2>2, <1>2, <1>0 DEF Owned
  <2> QED BY <2>1, <2>2
<1> QED BY <1>4, <1>5, <1>6, ConnAssumption DEF Owned, NoDeadline

\* Then it may add one, and its key is that of the new entry.
LEMMA AddOwned ==
    ASSUME NEW s \in States, NEW t \in States, NEW k \in Conns, Owned(s),
           NoDeadline(s.q, k),
           t.conn[k].key = NewKey(s.q), t.q = Added(s.q, k), t.conn[k].state = "live",
           OthersKept(s, t, k)
    PROVE  Owned(t)
<1>0. /\ \A j \in Conns : j # k => t.conn[j].key = s.conn[j].key /\ t.conn[j].state = s.conn[j].state
      /\ \A i \in DOMAIN s.q.dq : s.q.dq[i].who # k
  BY DEF OthersKept, NoDeadline
<1>1. /\ s.q \in Queues(Conns) /\ t.q \in Queues(Conns)
      /\ \A j \in Conns : s.conn[j].key \in Int /\ t.conn[j].key \in Int
  BY StateFields DEF ConnRecord, NoKey
<1>2. /\ t.q.step = s.q.step /\ Len(t.q.dq) = Len(s.q.dq) + 1 /\ t.q.dq[Len(s.q.dq) + 1].who = k
      /\ \A i \in DOMAIN s.q.dq : t.q.dq[i] = s.q.dq[i]
  BY <1>1, AddIs
<1>3. /\ DOMAIN t.q.dq = 1 .. (Len(s.q.dq) + 1) /\ DOMAIN s.q.dq = 1 .. Len(s.q.dq)
      /\ Len(s.q.dq) \in Nat /\ s.q.step \in Nat
      /\ \A i \in DOMAIN s.q.dq : s.q.dq[i].who \in Conns \cup {Nobody}
  BY <1>1, <1>2, QueueTyped
<1>4. ASSUME NEW i \in DOMAIN t.q.dq, t.q.dq[i].who # Nobody
      PROVE  LET j == t.q.dq[i].who IN t.conn[j].state = "live" /\ t.conn[j].key = t.q.step + i - 1
  <2>1. CASE i = Len(s.q.dq) + 1
    BY <2>1, <1>2, <1>3 DEF NewKey
  <2>2. CASE i \in DOMAIN s.q.dq
    <3>1. PICK j \in Conns : j = s.q.dq[i].who /\ j = t.q.dq[i].who /\ j # k /\ j # Nobody
      BY <2>2, <1>2, <1>3, <1>4, <1>0
    <3>2. s.conn[j].state = "live" /\ s.conn[j].key = s.q.step + i - 1
      BY <2>2, <3>1 DEF Owned
    <3> QED BY <1>2, <3>1, <3>2, <1>0
  <2> QED BY <1>3, <2>1, <2>2
<1>5. ASSUME NEW j \in Conns, Index(t.q, t.conn[j].key) \in DOMAIN t.q.dq
      PROVE  t.q.dq[Index(t.q, t.conn[j].key)].who = j
  <2>1. CASE j = k
    <3>1. Index(t.q, t.conn[k].key) = Len(s.q.dq) + 1
      BY <1>2, <1>3 DEF NewKey, Index
    <3> QED BY <2>1, <3>1, <1>2
  <2>2. CASE j # k
    <3>1. s.conn[j].key < s.q.step + Len(s.q.dq)
      BY DEF Owned
    <3>2. Index(t.q, t.conn[j].key) = Index(s.q, s.conn[j].key) /\ Index(s.q, s.conn[j].key) \in Int
      BY <2>2, <1>1, <1>2, <1>3, <1>0 DEF Index
    <3>3. Index(s.q, s.conn[j].key) \in DOMAIN s.q.dq
      BY <3>1, <3>2, <1>5, <1>3, <1>1 DEF Index
    <3> QED BY <3>2, <3>3, <1>2 DEF Owned
  <2> QED BY <2>1, <2>2
<1>6. \A j \in Conns : t.conn[j].key < t.q.step + Len(t.q.dq)
  <2> SUFFICES ASSUME NEW j \in Conns PROVE t.conn[j].key < t.q.step + Len(t.q.dq)
    OBVIOUS
  <2>1. CASE j = k
    BY <2>1, <1>2, <1>3 DEF NewKey
  <2>2. CASE j # k
    BY <2>2, <1>1, <1>2, <1>3, <1>0 DEF Owned
  <2> QED BY <2>1, <2>2
<1> QED BY <1>4, <1>5, <1>6 DEF Owned

-----------------------------------------------------------------------------
\* The elements of a sequence to which h was appended.
LEMMA AppendIs ==
    ASSUME NEW T, NEW r \in Seq(T), NEW h \in T, NEW y, y = Append(r, h), NEW n, n = Len(r)
    PROVE  /\ n \in Nat /\ DOMAIN r = 1 .. n /\ DOMAIN y = 1 .. (n + 1) /\ y[n + 1] = h
           /\ \A j \in 1 .. n : y[j] = r[j]
           /\ y \in Seq(T)
BY AppendProperties

\* The clients know what they should when a handler becomes ready that says so too.
LEMMA ToldAppend ==
    ASSUME NEW s, NEW t, NEW l, Told(s, l), s.ready \in Seq(Handler), t.wire = s.wire, t.msgs = s.msgs, t.hasty = s.hasty,
           NEW h \in Handler, t.ready = Append(s.ready, h), Says(h, l, s.hasty)
    PROVE  Told(t, l)
<1>1. PICK y : y = t.ready
  OBVIOUS
<1>2. PICK n : n = Len(s.ready)
  OBVIOUS
<1>3. /\ n \in Nat /\ DOMAIN s.ready = 1 .. n /\ DOMAIN y = 1 .. (n + 1) /\ y[n + 1] = h
      /\ \A j \in 1 .. n : y[j] = s.ready[j]
  BY <1>1, <1>2, AppendIs
<1>4. \A j \in DOMAIN s.ready : Says(s.ready[j], l, s.hasty)
  BY DEF Told
<1>5. \A j \in DOMAIN y : y[j] = h \/ (j \in DOMAIN s.ready /\ y[j] = s.ready[j])
  BY <1>3
<1>6. \A j \in DOMAIN y : Says(y[j], l, s.hasty)
  BY <1>4, <1>5
<1> QED BY <1>1, <1>6 DEF Told

\* A handler of another connection is ready.
LEMMA OtherAppend ==
    ASSUME NEW k \in Conns, NEW z, NEW c, NEW reads, NEW reads2, NEW wr, NEW r \in Seq(Handler), NEW w, NEW b, NEW D, NEW E,
           NEW h \in Handler, h.who # k, k \in reads <=> k \in reads2, k \in D <=> k \in E,
           Fine(k, z, c, reads, wr, r, w, b, D)
    PROVE  Fine(k, z, c, reads2, wr, Append(r, h), w, b, E)
<1>1. PICK y : y = Append(r, h)
  OBVIOUS
<1>2. PICK n : n = Len(r)
  OBVIOUS
<1>3. /\ n \in Nat /\ DOMAIN r = 1 .. n /\ DOMAIN y = 1 .. (n + 1) /\ y[n + 1] = h
      /\ \A j \in 1 .. n : y[j] = r[j]
  BY <1>1, <1>2, AppendIs
<1>4. \A j \in DOMAIN y : y[j].who = k => j \in DOMAIN r /\ y[j] = r[j]
  BY <1>3
<1>5. Fine(k, z, c, reads2, wr, y, w, b, E)
  BY <1>4 DEF Fine, Gone, Unmade, OneRead, OneReader, Starts, OneWriter, OneWrite, Indebted, Asking
<1> QED BY <1>1, <1>5

\* A read of k becomes pending.
LEMMA FineRead ==
    ASSUME NEW k \in Conns, NEW z, NEW c, NEW d, NEW reads, NEW wr, NEW r, NEW w, NEW b, NEW D,
           Fine(k, z, c, reads, wr, r, w, b, D),
           c.state = "live", b # k, k \notin reads, (k \in D => k \in z), ~c.resume,
           \A j \in DOMAIN r : r[j].who = k => r[j].what = "write",
           d.state = c.state, d.reading, d.writing = c.writing, ~d.resume
    PROVE  Fine(k, z, d, reads \cup {k}, wr, r, w, b, D)
BY DEF Fine, Gone, Unmade, OneRead, OneReader, Starts, OneWriter, OneWrite, Indebted, Asking

\* A read of k fails at once.
LEMMA FineReadFails ==
    ASSUME NEW k \in Conns, NEW z, NEW c, NEW d, NEW reads, NEW wr, NEW r \in Seq(Handler), NEW w, NEW b, NEW D,
           Fine(k, z, c, reads, wr, r, w, b, D),
           c.state = "live", b # k, (k \in D => k \in z), ~c.resume,
           \A j \in DOMAIN r : r[j].who = k => r[j].what = "write",
           d.state = c.state, d.reading, d.writing = c.writing, ~d.resume
    PROVE  Fine(k, z, d, reads \ {k}, wr, Append(r, Failed(k, "read")), w, b, D)
<1>1. PICK h \in Handler : h = Failed(k, "read") /\ h.who = k /\ h.what = "read" /\ ~Asks(h)
  BY FailedType DEF Failed, Asks
<1>2. PICK y : y = Append(r, h)
  OBVIOUS
<1>3. PICK n : n = Len(r)
  OBVIOUS
<1>4. /\ n \in Nat /\ DOMAIN r = 1 .. n /\ DOMAIN y = 1 .. (n + 1) /\ y[n + 1] = h
      /\ \A j \in 1 .. n : y[j] = r[j]
  BY <1>2, <1>3, AppendIs
<1>5. \A j \in DOMAIN y : y[j].who = k => (j \in DOMAIN r /\ y[j] = r[j] /\ y[j].what = "write") \/ j = n + 1
  BY <1>4
<1>6. Fine(k, z, d, reads \ {k}, wr, y, w, b, D)
  <2>1. Gone(k, z, d, reads \ {k}, wr, y, b) /\ Unmade(k, z, d, w, D)
    BY DEF Fine, Gone, Unmade
  <2>2. OneRead(k, d, reads \ {k}, y, b)
    BY DEF OneRead
  <2>3. OneReader(k, d, y)
    BY <1>1, <1>4, <1>5 DEF OneReader
  <2>4. Starts(k, z, d, wr, y, w)
    BY <1>1, <1>4, <1>5 DEF Starts
  <2>5. OneWriter(k, z, d, wr, y)
    BY <1>1, <1>4, <1>5 DEF Fine, OneWriter
  <2>6. OneWrite(k, z, d, wr, w, D)
    BY DEF Fine, OneWrite
  <2>7. Indebted(k, z, d, reads \ {k}, y, w, D)
    BY DEF Indebted
  <2>8. Asking(k, z, wr, y, w, D)
    BY <1>1, <1>4, <1>5 DEF Asking, Asks
  <2> QED BY <2>1, <2>2, <2>3, <2>4, <2>5, <2>6, <2>7, <2>8 DEF Fine
<1> QED BY <1>1, <1>2, <1>6

\* A write of k, which did not wait, fails.
LEMMA HastyWriteFails ==
    ASSUME NEW k \in Conns, NEW z, NEW c, NEW d, NEW reads, NEW wr, NEW v, NEW r \in Seq(Handler), NEW w, NEW b, NEW D, NEW E,
           Fine(k, z, c, reads, wr, r, w, b, D), k \in z, c.state = "live" \/ v = <<>>,
           d.state = c.state, d.reading = c.reading, d.resume = c.resume
    PROVE  Fine(k, z, d, reads, v, Append(r, Failed(k, "write")), w, b, E)
<1>1. PICK h \in Handler : h = Failed(k, "write") /\ h.who = k /\ h.what = "write"
  BY FailedType DEF Failed
<1>2. PICK y : y = Append(r, h)
  OBVIOUS
<1>3. PICK n : n = Len(r)
  OBVIOUS
<1>4. /\ n \in Nat /\ DOMAIN r = 1 .. n /\ DOMAIN y = 1 .. (n + 1) /\ y[n + 1] = h
      /\ \A j \in 1 .. n : y[j] = r[j]
  BY <1>2, <1>3, AppendIs
<1>5. \A j \in DOMAIN y : y[j].who = k => (j \in DOMAIN r /\ y[j] = r[j]) \/ (j = n + 1 /\ y[j].what = "write")
  BY <1>1, <1>4
<1>6. Fine(k, z, d, reads, v, y, w, b, E)
  <2>1. Gone(k, z, d, reads, v, y, b) /\ Unmade(k, z, d, w, E)
    BY <1>5 DEF Fine, Gone, Unmade
  <2>2. OneRead(k, d, reads, y, b)
    BY <1>5 DEF Fine, OneRead
  <2>3. OneReader(k, d, y)
    BY <1>4, <1>5 DEF Fine, OneReader
  <2>4. Starts(k, z, d, v, y, w)
    BY <1>4, <1>5 DEF Fine, Starts
  <2>5. OneWriter(k, z, d, v, y) /\ OneWrite(k, z, d, v, w, E) /\ Indebted(k, z, d, reads, y, w, E) /\ Asking(k, z, v, y, w, E)
    BY DEF OneWriter, OneWrite, Indebted, Asking
  <2> QED BY <2>1, <2>2, <2>3, <2>4, <2>5 DEF Fine
<1> QED BY <1>1, <1>2, <1>6

\* A write of k, which was in debt, becomes pending.
LEMMA FineWrite ==
    ASSUME NEW k \in Conns, NEW z, NEW c, NEW d, NEW reads, NEW wr, NEW v, NEW r, NEW w, NEW b, NEW D,
           Fine(k, z, c, reads, wr, r, w, b, D), (k \in D \/ k \in z),
           c.state = "live", v # <<>>, (Len(v) = 1 \/ k \in z),
           d.state = c.state, d.reading = c.reading, d.writing, d.resume = c.resume
    PROVE  Fine(k, z, d, reads, v, r, w, b, D \ {k})
<1>1. k \notin z => k \in w /\ (\A j \in DOMAIN r : r[j].who = k => r[j].what # "write") /\ wr = <<>>
  BY DEF Fine, Indebted, OneWrite
<1>2. k \notin z => \A j \in DOMAIN r : r[j].who = k => ~Asks(r[j])
  BY DEF Fine, Asking
<1>3. \A j \in DOMAIN r : r[j].who = k => r[j].what # "start"
  BY <1>1 DEF Fine, Starts
<1> QED BY <1>1, <1>2, <1>3 DEF Fine, Gone, Unmade, OneRead, OneReader, Starts, OneWriter, OneWrite, Indebted, Asking

\* It fails at once.
LEMMA FineWriteFails ==
    ASSUME NEW k \in Conns, NEW z, NEW c, NEW d, NEW reads, NEW wr, NEW r \in Seq(Handler), NEW w, NEW b, NEW D,
           Fine(k, z, c, reads, wr, r, w, b, D), (k \in D \/ k \in z),
           c.state = "live",
           d.state = c.state, d.reading = c.reading, d.writing, d.resume = c.resume
    PROVE  Fine(k, z, d, reads, wr, Append(r, Failed(k, "write")), w, b, D \ {k})
<1>0. CASE k \in z
  BY <1>0, HastyWriteFails
<1> SUFFICES ASSUME k \notin z PROVE Fine(k, z, d, reads, wr, Append(r, Failed(k, "write")), w, b, D \ {k})
  BY <1>0
<1>1. PICK h \in Handler : h = Failed(k, "write") /\ h.who = k /\ h.what = "write" /\ ~Asks(h)
  BY FailedType DEF Failed, Asks
<1>2. PICK y : y = Append(r, h)
  OBVIOUS
<1>3. PICK n : n = Len(r)
  OBVIOUS
<1>4. /\ n \in Nat /\ DOMAIN r = 1 .. n /\ DOMAIN y = 1 .. (n + 1) /\ y[n + 1] = h
      /\ \A j \in 1 .. n : y[j] = r[j]
  BY <1>2, <1>3, AppendIs
<1>5. \A j \in DOMAIN y : y[j].who = k => (j \in DOMAIN r /\ y[j] = r[j] /\ y[j].what # "write") \/ j = n + 1
  BY <1>4 DEF Fine, Indebted
<1>6. k \in w /\ wr = <<>> /\ \A j \in DOMAIN r : r[j].who = k => ~Asks(r[j]) /\ r[j].what # "start"
  BY DEF Fine, Indebted, OneWrite, Asking, Starts
<1>7. Fine(k, z, d, reads, wr, y, w, b, D \ {k})
  <2>1. Gone(k, z, d, reads, wr, y, b) /\ Unmade(k, z, d, w, D \ {k})
    BY DEF Fine, Gone, Unmade
  <2>2. OneRead(k, d, reads, y, b)
    BY <1>1, <1>4, <1>5 DEF Fine, OneRead
  <2>3. OneReader(k, d, y)
    BY <1>1, <1>4, <1>5 DEF Fine, OneReader
  <2>4. Starts(k, z, d, wr, y, w)
    BY <1>1, <1>4, <1>5, <1>6 DEF Starts
  <2>5. OneWriter(k, z, d, wr, y)
    BY <1>1, <1>4, <1>5, <1>6 DEF OneWriter
  <2>6. OneWrite(k, z, d, wr, w, D \ {k})
    BY <1>6 DEF OneWrite
  <2>7. Indebted(k, z, d, reads, y, w, D \ {k})
    BY DEF Indebted
  <2>8. Asking(k, z, wr, y, w, D \ {k})
    BY <1>1, <1>4, <1>5, <1>6 DEF Asking
  <2> QED BY <2>1, <2>2, <2>3, <2>4, <2>5, <2>6, <2>7, <2>8 DEF Fine
<1> QED BY <1>1, <1>2, <1>7

\* The pending read of k is aborted.
LEMMA FineReadAborts ==
    ASSUME NEW k \in Conns, NEW z, NEW c, NEW d, NEW reads, NEW wr, NEW r \in Seq(Handler), NEW w, NEW b, NEW D,
           Fine(k, z, c, reads, wr, r, w, b, D), k \in reads,
           d.state = c.state, d.reading = c.reading, d.writing = c.writing, d.resume = c.resume
    PROVE  Fine(k, z, d, reads \ {k}, wr, Append(r, Failed(k, "read")), w, b, D)
<1>1. /\ b # k /\ c.state = "live" /\ c.reading /\ ~c.resume /\ (k \in D => k \in z)
      /\ \A j \in DOMAIN r : r[j].who = k => r[j].what = "write"
  BY DEF Fine, OneRead, Gone, Indebted
<1>2. Fine(k, z, c, reads \ {k}, wr, r, w, b, D)
  BY <1>1 DEF Fine, Gone, Unmade, OneRead, OneReader, Starts, OneWriter, OneWrite, Indebted, Asking
<1>3. PICK rd : rd = reads \ {k}
  OBVIOUS
<1>4. Fine(k, z, d, rd \ {k}, wr, Append(r, Failed(k, "read")), w, b, D)
  BY <1>1, <1>2, <1>3, FineReadFails
<1>5. rd \ {k} = rd
  BY <1>3
<1> QED BY <1>3, <1>4, <1>5

\* The pending write of k is aborted.
LEMMA FineWriteAborts ==
    ASSUME NEW k \in Conns, NEW z, NEW c, NEW d, NEW reads, NEW wr, NEW r \in Seq(Handler), NEW w, NEW b, NEW D,
           Fine(k, z, c, reads, wr, r, w, b, D), wr # <<>>,
           d.state = c.state, d.reading = c.reading, d.writing = c.writing, d.resume = c.resume
    PROVE  Fine(k, z, d, reads, <<>>, Append(r, Failed(k, "write")), w, b, D)
<1>0. CASE k \in z
  BY <1>0, HastyWriteFails
<1> SUFFICES ASSUME k \notin z PROVE Fine(k, z, d, reads, <<>>, Append(r, Failed(k, "write")), w, b, D)
  BY <1>0
<1>1. PICK h \in Handler : h = Failed(k, "write") /\ h.who = k /\ h.what = "write" /\ ~Asks(h)
  BY FailedType DEF Failed, Asks
<1>2. PICK y : y = Append(r, h)
  OBVIOUS
<1>3. PICK n : n = Len(r)
  OBVIOUS
<1>4. /\ n \in Nat /\ DOMAIN r = 1 .. n /\ DOMAIN y = 1 .. (n + 1) /\ y[n + 1] = h
      /\ \A j \in 1 .. n : y[j] = r[j]
  BY <1>2, <1>3, AppendIs
<1>5. \A j \in DOMAIN r : r[j].who = k => r[j].what # "write" /\ r[j].what # "start" /\ ~Asks(r[j])
  BY DEF Fine, OneWriter, Starts, Asking
<1>6. \A j \in DOMAIN y : y[j].who = k => (j \in DOMAIN r /\ y[j] = r[j]) \/ j = n + 1
  BY <1>4
<1>7. c.writing /\ k \in w /\ k \notin D /\ c.state = "live"
  BY DEF Fine, OneWrite, Gone
<1>8. Fine(k, z, d, reads, <<>>, y, w, b, D)
  <2>1. Gone(k, z, d, reads, <<>>, y, b) /\ Unmade(k, z, d, w, D)
    BY <1>7 DEF Gone, Unmade
  <2>2. OneRead(k, d, reads, y, b)
    BY <1>1, <1>4, <1>6 DEF Fine, OneRead
  <2>3. OneReader(k, d, y)
    BY <1>1, <1>4, <1>6 DEF Fine, OneReader
  <2>4. Starts(k, z, d, <<>>, y, w)
    BY <1>1, <1>4, <1>5, <1>6 DEF Starts
  <2>5. OneWriter(k, z, d, <<>>, y)
    BY <1>1, <1>4, <1>5, <1>6, <1>7 DEF OneWriter
  <2>6. OneWrite(k, z, d, <<>>, w, D)
    BY DEF OneWrite
  <2>7. Indebted(k, z, d, reads, y, w, D)
    BY <1>7 DEF Indebted
  <2>8. Asking(k, z, <<>>, y, w, D)
    BY <1>1, <1>4, <1>5, <1>6 DEF Asking
  <2> QED BY <2>1, <2>2, <2>3, <2>4, <2>5, <2>6, <2>7, <2>8 DEF Fine
<1> QED BY <1>1, <1>2, <1>8

\* Another connection is not concerned.
LEMMA OtherFine ==
    ASSUME NEW k \in Conns, NEW z, NEW c, NEW reads, NEW reads2, NEW wr, NEW r, NEW w, NEW b, NEW D, NEW E,
           k \in reads <=> k \in reads2, k \in D <=> k \in E,
           Fine(k, z, c, reads, wr, r, w, b, D)
    PROVE  Fine(k, z, c, reads2, wr, r, w, b, E)
BY DEF Fine, Gone, Unmade, OneRead, OneReader, Starts, OneWriter, OneWrite, Indebted, Asking

-----------------------------------------------------------------------------
\* The methods of a connection, one by one.

\* All fields but the key.
Alike(s, t) ==
    \A k \in Conns :
        /\ t.conn[k].state = s.conn[k].state /\ t.conn[k].open = s.conn[k].open
        /\ t.conn[k].reading = s.conn[k].reading /\ t.conn[k].writing = s.conn[k].writing
        /\ t.conn[k].closing = s.conn[k].closing /\ t.conn[k].after = s.conn[k].after
        /\ t.conn[k].resume = s.conn[k].resume /\ t.conn[k].completed = s.conn[k].completed
        /\ t.conn[k].onEnd = s.conn[k].onEnd

\* All connections but k are still open, or not, and have their after-handlers to
\* call, or not.
Untouched(s, t, k) ==
    \A j \in Conns : j # k => t.conn[j].after = s.conn[j].after /\ t.conn[j].open = s.conn[j].open

\* Everything stays, when only deadlines change and are owned.
LEMMA AlikeGood ==
    ASSUME NEW s, NEW t \in States, NEW w, NEW l, NEW b, NEW D, Good(s, w, l, b, D),
           SameIO(s, t), SameRest(s, t), Alike(s, t), Owned(t)
    PROVE  Good(t, w, l, b, D) /\ Keeps(s, t)
<1>1. Sound(t, w, b, D)
  <2>1. Sound(s, w, b, D) /\ SameUse(s, t)
    BY DEF Good, Alike, SameUse
  <2>2. D \in SUBSET D
    OBVIOUS
  <2>3. t.hasty = s.hasty
    BY DEF SameRest
  <2> QED BY <2>1, <2>2, <2>3, SameSound
<1>4. Told(t, l)
  BY DEF Good, Told, SameIO, SameRest
<1> QED BY <1>1, <1>4 DEF Good, Keeps, Alike

\* Setting a key changes no flag.
LEMMA KeyAlike ==
    ASSUME NEW s \in States, NEW t \in States, NEW k \in Conns, NEW key,
           t.conn = [s.conn EXCEPT ![k] = [s.conn[k] EXCEPT !.key = key]]
    PROVE  /\ Alike(s, t) /\ t.conn[k].key = key /\ OthersKept(s, t, k)
<1>1. s.conn \in [Conns -> ConnRecord] /\ s.conn[k] \in ConnRecord
  BY StateFields
<1>2. \A j \in Conns : t.conn[j] = IF j = k THEN [s.conn[k] EXCEPT !.key = key] ELSE s.conn[j]
  BY <1>1
<1>3. PICK c \in ConnRecord : c = s.conn[k]
  BY <1>1
<1>4. PICK d : d = [c EXCEPT !.key = key]
  OBVIOUS
<1>5. /\ d.state = c.state /\ d.open = c.open /\ d.reading = c.reading /\ d.writing = c.writing
      /\ d.closing = c.closing /\ d.after = c.after /\ d.resume = c.resume
      /\ d.completed = c.completed /\ d.onEnd = c.onEnd /\ d.key = key
  BY <1>4 DEF ConnRecord
<1> QED BY <1>2, <1>3, <1>4, <1>5 DEF Alike, OthersKept

\* cancel_deadline_timer keeps everything, and leaves k without a deadline.
LEMMA GoodCancel ==
    ASSUME NEW s, NEW w, NEW l, NEW b, NEW D, Good(s, w, l, b, D), NEW k \in Conns,
           NEW t, t = cancel_deadline_timer(s, k)
    PROVE  /\ Good(t, w, l, b, D) /\ Keeps(s, t) /\ SameIO(s, t) /\ Alike(s, t)
           /\ t.conn[k].key = NoKey /\ NoDeadline(t.q, k)
<1>1. s \in States
  BY DEF Good
<1>2. /\ t \in States
      /\ t.conn = [s.conn EXCEPT ![k] = [s.conn[k] EXCEPT !.key = NoKey]]
      /\ t.q = Cancelled(s.q, s.conn[k].key) /\ SameIO(s, t) /\ SameRest(s, t)
  BY <1>1, CancelFacts
<1>3. /\ Alike(s, t) /\ t.conn[k].key = NoKey /\ OthersKept(s, t, k)
  BY <1>1, <1>2, KeyAlike
<1>4. Owned(t) /\ NoDeadline(t.q, k)
  <2>1. Owned(s)
    BY DEF Good
  <2> QED BY <1>1, <1>2, <1>3, <2>1, CancelOwned
<1> QED BY <1>2, <1>3, <1>4, AlikeGood

\* start_deadline keeps everything, for a live connection.
LEMMA GoodStart ==
    ASSUME NEW s, NEW w, NEW l, NEW b, NEW D, Good(s, w, l, b, D), NEW k \in Conns,
           s.conn[k].state = "live", NEW t, t = start_deadline(s, k)
    PROVE  Good(t, w, l, b, D) /\ Keeps(s, t) /\ SameIO(s, t) /\ Alike(s, t)
<1>1. s \in States
  BY DEF Good
<1>2. PICK u : u = cancel_deadline_timer(s, k)
  OBVIOUS
<1>3. /\ Good(u, w, l, b, D) /\ Keeps(s, u) /\ SameIO(s, u) /\ Alike(s, u)
      /\ NoDeadline(u.q, k)
  BY <1>2, GoodCancel
<1>4. u \in States /\ u.conn[k].state = "live"
  BY <1>3 DEF Good, Alike
<1>5. t = [u EXCEPT !.q = Added(u.q, k), !.conn[k].key = NewKey(u.q)]
  BY <1>2 DEF start_deadline
<1>6. PICK c : c = Cancelled(s.q, s.conn[k].key)
  OBVIOUS
<1>7. u.q = c
  BY <1>1, <1>2, <1>6, CancelFacts
<1>8. /\ t \in States
      /\ t.conn = [s.conn EXCEPT ![k] = [s.conn[k] EXCEPT !.key = NewKey(c)]]
      /\ t.q = Added(c, k) /\ SameIO(s, t) /\ SameRest(s, t)
  BY <1>1, <1>6, StartDeadlineFacts
<1>9. /\ Alike(s, t) /\ t.conn[k].key = NewKey(c) /\ OthersKept(s, t, k)
  BY <1>1, <1>8, KeyAlike
<1>10. OthersKept(s, u, k)
  <2>1. u.conn = [s.conn EXCEPT ![k] = [s.conn[k] EXCEPT !.key = NoKey]]
    BY <1>1, <1>2, CancelFacts
  <2> QED BY <2>1, <1>1, <1>4, KeyAlike
<1>11. Owned(t)
  <2>1. Owned(u) /\ t.conn[k].state = "live"
    BY <1>3, <1>9 DEF Good, Alike
  <2>2. t.conn[k].key = NewKey(u.q) /\ t.q = Added(u.q, k)
    BY <1>7, <1>8, <1>9
  <2>3. OthersKept(u, t, k)
    BY <1>9, <1>10 DEF OthersKept
  <2> QED BY <1>3, <1>4, <1>8, <2>1, <2>2, <2>3, AddOwned
<1> QED BY <1>8, <1>9, <1>11, AlikeGood

\* All members of the connections but one, which has a new value.
Only(s, t, k, d) == t.conn[k] = d /\ \A j \in Conns : j # k => t.conn[j] = s.conn[j]

\* Replacing the record of k leaves the others alone.
LEMMA FlagAlike ==
    ASSUME NEW s \in States, NEW t \in States, NEW k \in Conns, NEW d,
           t.conn = [s.conn EXCEPT ![k] = d]
    PROVE  Only(s, t, k, d)
<1>1. s.conn \in [Conns -> ConnRecord]
  BY StateFields
<1> QED BY <1>1 DEF Only

\* Neither the queue nor the keys change.
OwnedLike(s, t) ==
    /\ t.q = s.q
    /\ \A k \in Conns : t.conn[k].key = s.conn[k].key /\ t.conn[k].state = s.conn[k].state

\* The deadlines are owned when neither keys nor entries change.
LEMMA LikeOwned ==
    ASSUME NEW s \in States, NEW t, Owned(s), OwnedLike(s, t)
    PROVE  Owned(t)
BY SameOwned DEF OwnedLike

\* No read of k is under way.
NoRead(s, k) == k \notin s.reads /\ \A j \in DOMAIN s.ready : s.ready[j].who = k => s.ready[j].what = "write"

\* do_read keeps everything, for a live connection that has no read.
LEMMA GoodRead ==
    ASSUME NEW s, NEW w, NEW l, NEW b, NEW D, Good(s, w, l, b, D), NEW k \in Conns,
           s.conn[k].state = "live", b # k, (k \in D => k \in s.hasty), NoRead(s, k), ~s.conn[k].resume,
           NEW t, t = do_read(s, k)
    PROVE  Good(t, w, l, b, D) /\ Keeps(s, t) /\ Untouched(s, t, k)
<1>1. s \in States /\ s.ready \in Seq(Handler) /\ s.conn[k] \in ConnRecord
  BY StateFields DEF Good
<1>2. PICK d : d = [s.conn[k] EXCEPT !.reading = TRUE]
  OBVIOUS
<1>3. /\ t \in States /\ t.conn = [s.conn EXCEPT ![k] = d]
      /\ t.q = s.q /\ t.wire = s.wire /\ SameRest(s, t)
      /\ s.conn[k].open => t.reads = s.reads \cup {k} /\ t.ready = s.ready
      /\ ~s.conn[k].open => t.reads = s.reads /\ t.ready = Append(s.ready, Failed(k, "read"))
  BY <1>1, <1>2, DoReadFacts DEF Failed
<1>z. t.hasty = s.hasty
  BY <1>3 DEF SameRest
<1>4. t.conn[k] = d /\ \A j \in Conns : j # k => t.conn[j] = s.conn[j]
  <2>1. t \in States /\ t.conn = [s.conn EXCEPT ![k] = d]
    BY <1>3
  <2>2. Only(s, t, k, d)
    BY <1>1, <2>1, FlagAlike
  <2> QED BY <2>2 DEF Only
<1>5. /\ d.state = s.conn[k].state /\ d.reading /\ d.writing = s.conn[k].writing /\ d.resume = s.conn[k].resume
      /\ d.closing = s.conn[k].closing /\ d.open = s.conn[k].open /\ d.key = s.conn[k].key
  BY <1>1, <1>2 DEF ConnRecord
<1>6. k \notin s.reads /\ \A j \in DOMAIN s.ready : s.ready[j].who = k => s.ready[j].what = "write"
  BY DEF NoRead
<1>7. \A j \in Conns : Fine(j, s.hasty, s.conn[j], s.reads, s.wire[j], s.ready, w, b, D)
  BY DEF Good, Sound
<1>8. Owned(t)
  <2>1. OwnedLike(s, t) /\ Owned(s)
    BY <1>3, <1>4, <1>5 DEF OwnedLike, Good
  <2> QED BY <1>1, <2>1, LikeOwned
<1>9. Keeps(s, t)
  BY <1>3, <1>4, <1>5 DEF Keeps
<1>12. Untouched(s, t, k)
  BY <1>4 DEF Untouched
<1>10. CASE s.conn[k].open
  <2>1. Fine(k, s.hasty, d, s.reads \cup {k}, s.wire[k], s.ready, w, b, D)
    BY <1>5, <1>6, <1>7, FineRead
  <2>2. ASSUME NEW j \in Conns, j # k PROVE Fine(j, s.hasty, s.conn[j], s.reads \cup {k}, s.wire[j], s.ready, w, b, D)
    <3>1. j \in s.reads <=> j \in s.reads \cup {k}
      BY <2>2
    <3> QED BY <1>7, <3>1, OtherFine
  <2>3. Sound(t, w, b, D)
    BY <1>3, <1>z, <1>4, <1>10, <2>1, <2>2 DEF Sound
  <2>5. Told(t, l)
    BY <1>3, <1>10 DEF Good, Told, SameRest
  <2> QED BY <1>3, <1>8, <1>9, <1>12, <2>3, <2>5 DEF Good
<1>11. CASE ~s.conn[k].open
  <2>0. s.reads \ {k} = s.reads /\ Failed(k, "read") \in Handler /\ Failed(k, "read").who = k /\ ~Failed(k, "read").ok
    BY <1>6, FailedType DEF Failed, Asks
  <2>1. Fine(k, s.hasty, d, s.reads, s.wire[k], Append(s.ready, Failed(k, "read")), w, b, D)
    BY <1>1, <1>5, <1>6, <1>7, <2>0, FineReadFails
  <2>2. ASSUME NEW j \in Conns, j # k
        PROVE  Fine(j, s.hasty, s.conn[j], s.reads, s.wire[j], Append(s.ready, Failed(k, "read")), w, b, D)
    BY <1>1, <1>7, <2>0, <2>2, OtherAppend
  <2>3. Sound(t, w, b, D)
    BY <1>3, <1>z, <1>4, <1>11, <2>1, <2>2 DEF Sound
  <2>6. PICK y : y = t.ready
    OBVIOUS
  <2>7. PICK h \in Handler : h = Failed(k, "read") /\ h.who = k /\ ~h.ok
    BY <2>0
  <2>8. PICK n : n = Len(s.ready)
    OBVIOUS
  <2>9. /\ n \in Nat /\ DOMAIN s.ready = 1 .. n /\ DOMAIN y = 1 .. (n + 1) /\ y[n + 1] = h
        /\ \A j \in 1 .. n : y[j] = s.ready[j]
    <3>1. y = Append(s.ready, h) /\ s.ready \in Seq(Handler)
      BY <1>1, <1>3, <1>11, <2>6, <2>7
    <3> QED BY <3>1, <2>8, AppendIs
  <2>5. Told(t, l)
    <3>1. Told(s, l) /\ t.wire = s.wire /\ t.msgs = s.msgs /\ t.ready = Append(s.ready, h)
          /\ t.hasty = s.hasty
      BY <1>3, <1>z, <1>11, <2>7 DEF Good, SameRest
    <3>2. Says(h, l, s.hasty)
      BY <2>7 DEF Says, Asks
    <3> QED BY <1>1, <3>1, <3>2, ToldAppend
  <2> QED BY <1>3, <1>8, <1>9, <1>12, <2>3, <2>5 DEF Good
<1> QED BY <1>10, <1>11

\* What may be sent to k.
Suits(a, k, s, l) == a \in Answer /\ (a.is = "msgs" => (k \notin s.hasty => a.from = l[k]) /\ a.upto <= s.msgs)

\* What its call leaves behind.
Sent(s, t, k) ==
    /\ t.conn[k] = [s.conn[k] EXCEPT !.writing = TRUE] /\ t.reads = s.reads
    /\ \A j \in DOMAIN t.ready : t.ready[j].who = k /\ t.ready[j].what # "write" =>
            j \in DOMAIN s.ready /\ t.ready[j] = s.ready[j]

\* do_write pays what k is owed.
LEMMA GoodWrite ==
    ASSUME NEW s, NEW w, NEW l, NEW b, NEW D, Good(s, w, l, b, D), NEW k \in Conns, k \in D \/ k \in s.hasty,
           s.conn[k].state = "live", NEW a, Suits(a, k, s, l),
           NEW t, t = do_write(s, k, a)
    PROVE  Good(t, w, l, b, D \ {k}) /\ Keeps(s, t) /\ Untouched(s, t, k) /\ Sent(s, t, k)
<1>1. s \in States /\ s.ready \in Seq(Handler) /\ s.conn[k] \in ConnRecord /\ s.wire \in [Conns -> Seq(Answer)]
  BY StateFields DEF Good
<1>2. PICK d : d = [s.conn[k] EXCEPT !.writing = TRUE]
  OBVIOUS
<1>3. /\ t \in States /\ t.conn = [s.conn EXCEPT ![k] = d]
      /\ t.q = s.q /\ t.reads = s.reads /\ SameRest(s, t)
      /\ s.conn[k].open => t.wire = [s.wire EXCEPT ![k] = Append(s.wire[k], a)] /\ t.ready = s.ready
      /\ ~s.conn[k].open => t.wire = s.wire /\ t.ready = Append(s.ready, Failed(k, "write"))
  <2>1. PICK e \in Answer : e = a
    BY DEF Suits
  <2>2. t = do_write(s, k, e)
    BY <2>1
  <2>3. /\ t \in States
        /\ t.conn = [s.conn EXCEPT ![k] = [s.conn[k] EXCEPT !.writing = TRUE]]
        /\ t.q = s.q /\ t.reads = s.reads /\ SameRest(s, t)
        /\ s.conn[k].open => t.wire = [s.wire EXCEPT ![k] = Append(s.wire[k], e)] /\ t.ready = s.ready
        /\ ~s.conn[k].open => t.wire = s.wire /\ t.ready = Append(s.ready, Failed(k, "write"))
    <3>1. s \in States
      BY <1>1
    <3>2. Wrote(s, t, k, e)
      BY <2>2, <3>1, DoWriteFacts
    <3> QED BY <3>2 DEF Wrote
  <2> QED BY <1>2, <2>1, <2>3
<1>z. t.hasty = s.hasty
  BY <1>3 DEF SameRest
<1>4. t.conn[k] = d /\ \A j \in Conns : j # k => t.conn[j] = s.conn[j]
  <2>1. t \in States /\ t.conn = [s.conn EXCEPT ![k] = d]
    BY <1>3
  <2>2. Only(s, t, k, d)
    BY <1>1, <2>1, FlagAlike
  <2> QED BY <2>2 DEF Only
<1>5. /\ d.state = s.conn[k].state /\ d.reading = s.conn[k].reading /\ d.writing /\ d.resume = s.conn[k].resume
      /\ d.closing = s.conn[k].closing /\ d.open = s.conn[k].open /\ d.key = s.conn[k].key
  BY <1>1, <1>2 DEF ConnRecord
<1>7. \A j \in Conns : Fine(j, s.hasty, s.conn[j], s.reads, s.wire[j], s.ready, w, b, D)
  BY DEF Good, Sound
<1>6. k \notin s.hasty => s.wire[k] = <<>>
  BY <1>7 DEF Fine, OneWrite
<1>8. Owned(t)
  <2>1. OwnedLike(s, t) /\ Owned(s)
    BY <1>3, <1>4, <1>5 DEF OwnedLike, Good
  <2> QED BY <1>1, <2>1, LikeOwned
<1>9. Keeps(s, t)
  BY <1>3, <1>4, <1>5 DEF Keeps
<1>12. Untouched(s, t, k)
  BY <1>4 DEF Untouched
<1>10. CASE s.conn[k].open
  <2>0. PICK v : /\ v # <<>> /\ (Len(v) = 1 \/ k \in s.hasty) /\ v = Append(s.wire[k], a)
                 /\ \A i \in DOMAIN v : v[i] = a \/ (i \in DOMAIN s.wire[k] /\ v[i] = s.wire[k][i] /\ k \in s.hasty)
    <3>1. PICK v : v = Append(s.wire[k], a)
      OBVIOUS
    <3>2. PICK n : n = Len(s.wire[k])
      OBVIOUS
    <3>3. a \in Answer /\ s.wire[k] \in Seq(Answer)
      BY <1>1 DEF Suits
    <3>4. /\ n \in Nat /\ DOMAIN s.wire[k] = 1 .. n /\ DOMAIN v = 1 .. (n + 1) /\ v[n + 1] = a
          /\ \A i \in 1 .. n : v[i] = s.wire[k][i]
          /\ v \in Seq(Answer)
      BY <3>1, <3>2, <3>3, AppendIs
    <3>5. Len(v) = n + 1
      BY <3>4
    <3>6. k \notin s.hasty => n = 0
      BY <1>6, <3>2
    <3>7. v # <<>>
      BY <3>4
    <3>8. Len(v) = 1 \/ k \in s.hasty
      BY <3>4, <3>5, <3>6
    <3>9. \A i \in DOMAIN v : v[i] = a \/ (i \in DOMAIN s.wire[k] /\ v[i] = s.wire[k][i] /\ k \in s.hasty)
      BY <3>4, <3>6
    <3> QED BY <3>1, <3>7, <3>8, <3>9
  <2>1. Fine(k, s.hasty, d, s.reads, v, s.ready, w, b, D \ {k})
    BY <1>5, <1>7, <2>0, FineWrite
  <2>2. ASSUME NEW j \in Conns, j # k PROVE Fine(j, s.hasty, s.conn[j], s.reads, s.wire[j], s.ready, w, b, D \ {k})
    <3>1. j \in D <=> j \in D \ {k}
      BY <2>2
    <3> QED BY <1>7, <3>1, OtherFine
  <2>6. t.wire[k] = v /\ (\A j \in Conns : j # k => t.wire[j] = s.wire[j]) /\ t.ready = s.ready
    BY <1>1, <1>3, <1>10, <2>0
  <2>3. Sound(t, w, b, D \ {k})
    BY <1>3, <1>z, <1>4, <2>6, <2>1, <2>2 DEF Sound
  <2>5. Told(t, l)
    <3>1. Told(s, l) /\ t.msgs = s.msgs
      BY <1>3 DEF Good, SameRest
    <3>2. \A i \in DOMAIN t.wire[k] :
            t.wire[k][i] = a \/ (i \in DOMAIN s.wire[k] /\ t.wire[k][i] = s.wire[k][i] /\ k \in s.hasty)
      BY <2>0, <2>6
    <3>3. a.is = "msgs" => (k \notin s.hasty => a.from = l[k]) /\ a.upto <= s.msgs
      BY DEF Suits
    <3>4. \A i \in DOMAIN t.wire[k] : t.wire[k][i].is = "msgs" =>
            (k \notin t.hasty => t.wire[k][i].from = l[k]) /\ t.wire[k][i].upto <= t.msgs
      BY <1>z, <3>1, <3>2, <3>3 DEF Told
    <3> QED BY <1>z, <2>6, <3>1, <3>4 DEF Told
  <2>7. Good(t, w, l, b, D \ {k})
    BY <1>3, <1>8, <2>3, <2>5 DEF Good
  <2> QED BY <1>2, <1>3, <1>4, <1>9, <1>12, <2>6, <2>7 DEF Sent
<1>11. CASE ~s.conn[k].open
  <2>0. Failed(k, "write") \in Handler /\ Failed(k, "write").who = k /\ ~Failed(k, "write").ok
        /\ Failed(k, "write").what = "write"
    BY FailedType DEF Failed, Asks
  <2>1. Fine(k, s.hasty, d, s.reads, s.wire[k], Append(s.ready, Failed(k, "write")), w, b, D \ {k})
    BY <1>1, <1>5, <1>7, FineWriteFails
  <2>2. ASSUME NEW j \in Conns, j # k
        PROVE  Fine(j, s.hasty, s.conn[j], s.reads, s.wire[j], Append(s.ready, Failed(k, "write")), w, b, D \ {k})
    <3>1. j \in D <=> j \in D \ {k}
      BY <2>2
    <3> QED BY <1>1, <1>7, <2>0, <2>2, <3>1, OtherAppend
  <2>3. Sound(t, w, b, D \ {k})
    BY <1>3, <1>z, <1>4, <1>11, <2>1, <2>2 DEF Sound
  <2>6. PICK y : y = t.ready
    OBVIOUS
  <2>7. PICK h \in Handler : h = Failed(k, "write") /\ h.who = k /\ ~h.ok /\ h.what = "write"
    BY <2>0
  <2>8. PICK n : n = Len(s.ready)
    OBVIOUS
  <2>9. /\ n \in Nat /\ DOMAIN s.ready = 1 .. n /\ DOMAIN y = 1 .. (n + 1) /\ y[n + 1] = h
        /\ \A j \in 1 .. n : y[j] = s.ready[j]
    <3>1. y = Append(s.ready, h) /\ s.ready \in Seq(Handler)
      BY <1>1, <1>3, <1>11, <2>6, <2>7
    <3> QED BY <3>1, <2>8, AppendIs
  <2>5. Told(t, l)
    <3>1. Told(s, l) /\ t.wire = s.wire /\ t.msgs = s.msgs /\ t.ready = Append(s.ready, h)
          /\ t.hasty = s.hasty
      BY <1>3, <1>z, <1>11, <2>7 DEF Good, SameRest
    <3>2. Says(h, l, s.hasty)
      BY <2>7 DEF Says, Asks
    <3> QED BY <1>1, <3>1, <3>2, ToldAppend
  <2>10. Good(t, w, l, b, D \ {k})
    BY <1>3, <1>8, <2>3, <2>5 DEF Good
  <2>11. \A j \in DOMAIN t.ready : t.ready[j].who = k /\ t.ready[j].what # "write" =>
                 j \in DOMAIN s.ready /\ t.ready[j] = s.ready[j]
    BY <2>6, <2>7, <2>9
  <2> QED BY <1>2, <1>3, <1>4, <1>9, <1>12, <2>10, <2>11 DEF Sent
<1> QED BY <1>10, <1>11

\* The handlers of what is aborted are ready behind the others.
Behind(k, r, y) ==
    /\ DOMAIN r \subseteq DOMAIN y /\ \A j \in DOMAIN r : y[j] = r[j]
    /\ \A j \in DOMAIN y \ DOMAIN r : y[j].who = k /\ ~y[j].ok /\ y[j].what \in {"read", "write"}

\* One such handler.
LEMMA BehindAppend ==
    ASSUME NEW k, NEW r \in Seq(Handler), NEW h \in Handler, h.who = k, ~h.ok, h.what \in {"read", "write"}
    PROVE  Behind(k, r, Append(r, h)) /\ Append(r, h) \in Seq(Handler)
<1>1. PICK y : y = Append(r, h)
  OBVIOUS
<1>2. PICK n : n = Len(r)
  OBVIOUS
<1>3. /\ n \in Nat /\ DOMAIN r = 1 .. n /\ DOMAIN y = 1 .. (n + 1) /\ y[n + 1] = h
      /\ \A j \in 1 .. n : y[j] = r[j]
      /\ y \in Seq(Handler)
  BY <1>1, <1>2, AppendIs
<1>4. Behind(k, r, y)
  BY <1>3 DEF Behind
<1> QED BY <1>1, <1>3, <1>4

\* Handlers of m that become ready do not concern k.
LEMMA OtherBehind ==
    ASSUME NEW k \in Conns, NEW z, NEW c, NEW reads, NEW reads2, NEW wr, NEW r, NEW y, NEW w, NEW b, NEW D,
           NEW m, Behind(m, r, y), m # k, k \in reads <=> k \in reads2,
           Fine(k, z, c, reads, wr, r, w, b, D)
    PROVE  Fine(k, z, c, reads2, wr, y, w, b, D)
<1>4. \A j \in DOMAIN y : y[j].who = k => j \in DOMAIN r /\ y[j] = r[j]
  BY DEF Behind
<1> QED BY <1>4 DEF Fine, Gone, Unmade, OneRead, OneReader, Starts, OneWriter, OneWrite, Indebted, Asking

\* The pending operations of a hasty client are aborted.
LEMMA HastyAborts ==
    ASSUME NEW k \in Conns, NEW z, NEW c, NEW d, NEW reads, NEW wr, NEW r, NEW y, NEW n \in Nat, NEW w, NEW b, NEW D,
           Fine(k, z, c, reads, wr, r, w, b, D), k \in z,
           d.state = c.state, d.reading = c.reading, d.resume = c.resume,
           DOMAIN r = 1 .. n, 1 .. n \subseteq DOMAIN y, \A j \in 1 .. n : y[j] = r[j],
           \A j \in DOMAIN y : j \notin 1 .. n =>
                \/ y[j] = Failed(k, "read") /\ k \in reads /\ j = n + 1
                \/ y[j] = Failed(k, "write")
    PROVE  Fine(k, z, d, reads \ {k}, <<>>, y, w, b, D)
<1>1. \A j \in DOMAIN y : y[j].who = k =>
        \/ j \in DOMAIN r /\ y[j] = r[j]
        \/ y[j].what = "write"
        \/ y[j].what = "read" /\ k \in reads /\ j = n + 1
  BY DEF Failed
<1>2. k \in reads => c.state = "live" /\ b # k /\ c.reading /\ ~c.resume /\ \A j \in DOMAIN r : r[j].who = k => r[j].what = "write"
  BY DEF Fine, Gone, OneRead
<1>3. Gone(k, z, d, reads \ {k}, <<>>, y, b) /\ Unmade(k, z, d, w, D)
  BY <1>1, <1>2 DEF Fine, Gone, Unmade
<1>4. OneRead(k, d, reads \ {k}, y, b)
  BY <1>1, <1>2 DEF Fine, OneRead
<1>5. OneReader(k, d, y)
  <2> SUFFICES ASSUME NEW j \in DOMAIN y, y[j].who = k
               PROVE  /\ y[j].what # "tick"
                      /\ y[j].what = "read" =>
                            /\ d.reading /\ ~d.resume
                            /\ \A i \in DOMAIN y : y[i].who = k /\ y[i].what \in {"start", "read"} => i = j
    BY DEF OneReader
  <2>1. CASE k \in reads
    BY <2>1, <1>1, <1>2
  <2>2. CASE k \notin reads
    BY <2>2, <1>1 DEF Fine, OneReader
  <2> QED BY <2>1, <2>2
<1>6. Starts(k, z, d, <<>>, y, w)
  BY <1>1 DEF Fine, Starts
<1>7. OneWriter(k, z, d, <<>>, y) /\ OneWrite(k, z, d, <<>>, w, D) /\ Indebted(k, z, d, reads \ {k}, y, w, D)
      /\ Asking(k, z, <<>>, y, w, D)
  BY DEF OneWriter, OneWrite, Indebted, Asking
<1> QED BY <1>3, <1>4, <1>5, <1>6, <1>7 DEF Fine

\* CloseAdaptor keeps everything.
LEMMA GoodClose ==
    ASSUME NEW s, NEW w, NEW l, NEW b, NEW D, Good(s, w, l, b, D), NEW k \in Conns,
           NEW t, t = CloseAdaptor(s, k)
    PROVE  /\ Good(t, w, l, b, D) /\ Keeps(s, t) /\ Untouched(s, t, k)
           /\ t.conn[k] = [s.conn[k] EXCEPT !.open = FALSE]
           /\ t.wire[k] = <<>> /\ k \notin t.reads
           /\ s.wire[k] = <<>> /\ k \notin s.reads => t.ready = s.ready
           /\ NoRead(s, k) => NoRead(t, k)
<1>1. s \in States /\ s.ready \in Seq(Handler) /\ s.conn[k] \in ConnRecord /\ s.wire \in [Conns -> Seq(Answer)]
  BY StateFields DEF Good
<1>2. PICK d : d = [s.conn[k] EXCEPT !.open = FALSE]
  OBVIOUS
<1>7. \A j \in Conns : Fine(j, s.hasty, s.conn[j], s.reads, s.wire[j], s.ready, w, b, D)
  BY DEF Good, Sound
<1>0. ASSUME k \notin s.hasty \/ s.wire[k] = <<>> PROVE Len(s.wire[k]) <= 1
  <2>1. Fine(k, s.hasty, s.conn[k], s.reads, s.wire[k], s.ready, w, b, D)
    BY <1>7
  <2>2. s.wire[k] # <<>> => Len(s.wire[k]) = 1
    BY <2>1, <1>0 DEF Fine, OneWrite
  <2>3. s.wire[k] = <<>> => Len(s.wire[k]) = 0
    BY EmptySeq
  <2>4. PICK n : n = Len(s.wire[k])
    OBVIOUS
  <2>5. n = 0 \/ n = 1
    BY <2>2, <2>3, <2>4
  <2>6. n <= 1
    BY <2>5
  <2> QED BY <2>4, <2>6
<1>3. /\ t \in States /\ t.conn = [s.conn EXCEPT ![k] = d]
      /\ t.q = s.q /\ t.reads = s.reads \ {k} /\ t.wire = [s.wire EXCEPT ![k] = <<>>]
      /\ SameRest(s, t) /\ t.ready = s.ready \o Aborted(s, k)
  <2>1. s \in States
    BY <1>1
  <2>2. /\ t \in States
        /\ t.conn = [s.conn EXCEPT ![k] = [s.conn[k] EXCEPT !.open = FALSE]]
        /\ t.q = s.q /\ t.reads = s.reads \ {k} /\ t.wire = [s.wire EXCEPT ![k] = <<>>]
        /\ SameRest(s, t) /\ t.ready = s.ready \o Aborted(s, k)
    <3>1. Closed(s, t, k)
      BY <2>1, CloseFacts
    <3> QED BY <3>1 DEF Closed
  <2> QED BY <1>2, <2>2
<1>z. t.hasty = s.hasty
  BY <1>3 DEF SameRest
<1>4. t.conn[k] = d /\ \A j \in Conns : j # k => t.conn[j] = s.conn[j]
  <2>1. t \in States /\ t.conn = [s.conn EXCEPT ![k] = d]
    BY <1>3
  <2>2. Only(s, t, k, d)
    BY <1>1, <2>1, FlagAlike
  <2> QED BY <2>2 DEF Only
<1>5. /\ d.state = s.conn[k].state /\ d.reading = s.conn[k].reading /\ d.writing = s.conn[k].writing /\ d.resume = s.conn[k].resume
      /\ d.closing = s.conn[k].closing /\ ~d.open /\ d.key = s.conn[k].key
  BY <1>1, <1>2 DEF ConnRecord
<1>6. t.wire[k] = <<>> /\ \A j \in Conns : j # k => t.wire[j] = s.wire[j]
  BY <1>1, <1>3
<1>8. Owned(t)
  <2>1. OwnedLike(s, t) /\ Owned(s)
    BY <1>3, <1>4, <1>5 DEF OwnedLike, Good
  <2> QED BY <1>1, <2>1, LikeOwned
<1>9. Keeps(s, t)
  BY <1>3, <1>4, <1>5 DEF Keeps
<1>10. PICK r \in Handler : r = Failed(k, "read") /\ r.who = k /\ ~r.ok /\ r.what = "read"
  BY FailedType DEF Failed, Asks
<1>11. PICK v \in Handler : v = Failed(k, "write") /\ v.who = k /\ ~v.ok /\ v.what = "write"
  BY FailedType DEF Failed, Asks
<1>30. PICK n : n = Len(s.ready)
  OBVIOUS
<1>31. /\ t.ready \in Seq(Handler) /\ n \in Nat /\ DOMAIN s.ready = 1 .. n /\ 1 .. n \subseteq DOMAIN t.ready
       /\ \A i \in 1 .. n : t.ready[i] = s.ready[i]
       /\ \A i \in DOMAIN t.ready : i \notin 1 .. n =>
                \/ t.ready[i] = Failed(k, "read") /\ k \in s.reads /\ i = n + 1
                \/ t.ready[i] = Failed(k, "write")
  <2>1. PICK y : y = s.ready \o Aborted(s, k)
    OBVIOUS
  <2>2. /\ y \in Seq(Handler)
        /\ n \in Nat /\ DOMAIN s.ready = 1 .. n /\ 1 .. n \subseteq DOMAIN y
        /\ \A i \in 1 .. n : y[i] = s.ready[i]
        /\ \A i \in DOMAIN y : i \notin 1 .. n =>
                \/ y[i] = Failed(k, "read") /\ k \in s.reads /\ i = n + 1
                \/ y[i] = Failed(k, "write")
    BY <1>1, <1>30, <2>1, AbortedAre
  <2>3. t.ready = y
    BY <1>3, <2>1
  <2> QED BY <2>2, <2>3
<1>32. Behind(k, s.ready, t.ready)
  BY <1>31, <1>10, <1>11 DEF Behind
<1>12. PICK y : /\ y = IF k \in s.reads THEN Append(s.ready, r) ELSE s.ready
  OBVIOUS
<1>13. ASSUME k \notin s.hasty \/ s.wire[k] = <<>>
      PROVE  t.ready = IF s.wire[k] = <<>> THEN y ELSE Append(y, v)
  <2>1. s.ready \o Aborted(s, k) =
                IF k \in s.reads
                THEN IF s.wire[k] = <<>> THEN Append(s.ready, Failed(k, "read"))
                     ELSE Append(Append(s.ready, Failed(k, "read")), Failed(k, "write"))
                ELSE IF s.wire[k] = <<>> THEN s.ready
                     ELSE Append(s.ready, Failed(k, "write"))
    BY <1>0, <1>1, <1>13, AbortedIs
  <2> QED BY <1>3, <1>10, <1>11, <1>12, <2>1
<1>14. PICK e : e = [s.conn[k] EXCEPT !.open = FALSE] /\ e = d
  BY <1>2
<1>15. Behind(k, s.ready, y) /\ y \in Seq(Handler) /\ Fine(k, s.hasty, d, s.reads \ {k}, s.wire[k], y, w, b, D)
  <2>1. CASE k \in s.reads
    <3>1. Fine(k, s.hasty, d, s.reads \ {k}, s.wire[k], Append(s.ready, r), w, b, D)
      BY <1>1, <1>5, <1>7, <1>10, <2>1, FineReadAborts
    <3>2. Behind(k, s.ready, Append(s.ready, r)) /\ Append(s.ready, r) \in Seq(Handler)
      BY <1>1, <1>10, BehindAppend
    <3> QED BY <1>12, <2>1, <3>1, <3>2
  <2>2. CASE k \notin s.reads
    <3>1. s.reads \ {k} = s.reads /\ y = s.ready
      BY <1>12, <2>2
    <3>2. Fine(k, s.hasty, s.conn[k], s.reads, s.wire[k], s.ready, w, b, D)
      BY <1>7
    <3>3. Fine(k, s.hasty, d, s.reads, s.wire[k], s.ready, w, b, D)
      BY <3>2, <1>5 DEF Fine, Gone, Unmade, OneRead, OneReader, Starts, OneWriter, OneWrite, Indebted, Asking
    <3>4. Behind(k, s.ready, s.ready)
      BY DEF Behind
    <3> QED BY <1>1, <3>1, <3>3, <3>4
  <2> QED BY <2>1, <2>2
<1>16. Fine(k, s.hasty, d, s.reads \ {k}, <<>>, t.ready, w, b, D)
  <2>0. CASE k \in s.hasty
    <3>1. PICK y2 : y2 = t.ready
      OBVIOUS
    <3>2. PICK m \in Nat : m = n
      BY <1>31
    <3>3. /\ DOMAIN s.ready = 1 .. m /\ 1 .. m \subseteq DOMAIN y2
          /\ \A i \in 1 .. m : y2[i] = s.ready[i]
          /\ \A i \in DOMAIN y2 : i \notin 1 .. m =>
                \/ y2[i] = Failed(k, "read") /\ k \in s.reads /\ i = m + 1
                \/ y2[i] = Failed(k, "write")
      BY <1>31, <3>1, <3>2
    <3>4. Fine(k, s.hasty, s.conn[k], s.reads, s.wire[k], s.ready, w, b, D)
      BY <1>7
    <3>5. d.state = s.conn[k].state /\ d.reading = s.conn[k].reading /\ d.resume = s.conn[k].resume
      BY <1>5
    <3>6. Fine(k, s.hasty, d, s.reads \ {k}, <<>>, y2, w, b, D)
      BY <2>0, <3>3, <3>4, <3>5, HastyAborts
    <3> QED BY <3>1, <3>6
  <2>1. CASE k \notin s.hasty /\ s.wire[k] = <<>>
    BY <2>1, <1>13, <1>15
  <2>2. CASE k \notin s.hasty /\ s.wire[k] # <<>>
    <3>1. Fine(k, s.hasty, d, s.reads \ {k}, <<>>, Append(y, v), w, b, D)
      BY <2>2, <1>11, <1>15, FineWriteAborts
    <3> QED BY <2>2, <3>1, <1>13
  <2> QED BY <2>0, <2>1, <2>2
<1>17. Sound(t, w, b, D)
  <2>1. ASSUME NEW j \in Conns, j # k PROVE Fine(j, s.hasty, s.conn[j], s.reads \ {k}, s.wire[j], t.ready, w, b, D)
    <3>1. j \in s.reads <=> j \in s.reads \ {k}
      BY <2>1
    <3> QED BY <1>7, <1>32, <2>1, <3>1, OtherBehind
  <2> QED BY <1>3, <1>z, <1>4, <1>6, <1>16, <2>1 DEF Sound
<1>19. Told(t, l)
  <2>1. Told(s, l) /\ t.msgs = s.msgs
    BY <1>3 DEF Good, SameRest
  <2>2. \A i \in DOMAIN t.ready :
            (t.ready[i].who = k /\ ~t.ready[i].ok) \/ (i \in DOMAIN s.ready /\ t.ready[i] = s.ready[i])
    BY <1>32 DEF Behind
  <2>3. DOMAIN t.wire[k] = {}
    BY <1>6
  <2>4. ASSUME NEW i \in DOMAIN t.ready PROVE Says(t.ready[i], l, s.hasty)
    <3>1. CASE t.ready[i].who = k /\ ~t.ready[i].ok
      BY <3>1 DEF Says, Asks
    <3>2. CASE i \in DOMAIN s.ready /\ t.ready[i] = s.ready[i]
      BY <3>2, <2>1 DEF Told
    <3> QED BY <2>2, <3>1, <3>2
  <2> QED BY <1>6, <1>z, <2>1, <2>3, <2>4 DEF Told
<1>20. s.wire[k] = <<>> /\ k \notin s.reads => t.ready = s.ready
  BY <1>12, <1>13
<1>21. Good(t, w, l, b, D)
  BY <1>3, <1>8, <1>17, <1>19 DEF Good
<1>22. k \notin t.reads
  BY <1>3
<1>23. ASSUME NoRead(s, k) PROVE NoRead(t, k)
  <2>1. \A i \in DOMAIN t.ready : t.ready[i].who = k => t.ready[i].what = "write"
    BY <1>23, <1>11, <1>31 DEF NoRead
  <2> QED BY <2>1, <1>22 DEF NoRead
<1>24. Untouched(s, t, k)
  BY <1>4 DEF Untouched
<1> QED BY <1>2, <1>4, <1>6, <1>9, <1>20, <1>21, <1>22, <1>23, <1>24

-----------------------------------------------------------------------------
\* One connection gets a new value.
Sets(s, t, k, d) == t = [s EXCEPT !.conn[k] = d]

\* Replacing the record of k changes nothing else.
LEMMA SetFacts ==
    ASSUME NEW s \in States, NEW k \in Conns, NEW d \in ConnRecord, NEW t, Sets(s, t, k, d)
    PROVE  t \in States /\ Only(s, t, k, d) /\ t.q = s.q /\ SameIO(s, t) /\ SameRest(s, t)
<1>1. PICK c \in [Conns -> ConnRecord] : c = [s.conn EXCEPT ![k] = d]
  BY StateFields
<1>2. t = [s EXCEPT !.conn = c]
  BY <1>1 DEF Sets
<1>3. t \in States /\ t.conn = c /\ t.q = s.q /\ SameIO(s, t) /\ SameRest(s, t)
  BY <1>2 DEF States, SameIO, SameRest
<1>4. t.conn = [s.conn EXCEPT ![k] = d]
  BY <1>1, <1>3
<1>5. Only(s, t, k, d)
  BY <1>3, <1>4, FlagAlike
<1> QED BY <1>3, <1>5

\* Its handler is over.
LEMMA GoodUnbusy ==
    ASSUME NEW s, NEW w, NEW l, NEW k \in Conns, NEW D, Good(s, w, l, k, D)
    PROVE  Good(s, w, l, Nobody, D)
<1>1. \A j \in Conns : Nobody # j
  BY ConnAssumption
<1>2. Sound(s, w, Nobody, D)
  <2> SUFFICES ASSUME NEW j \in Conns PROVE Fine(j, s.hasty, s.conn[j], s.reads, s.wire[j], s.ready, w, Nobody, D)
    BY DEF Sound
  <2>1. Fine(j, s.hasty, s.conn[j], s.reads, s.wire[j], s.ready, w, k, D)
    BY DEF Good, Sound
  <2> QED BY <1>1, <2>1 DEF Fine, Gone, OneRead
<1> QED BY <1>2 DEF Good

\* Members of k change that matter only if a read is under way, which is not.
SameBut(c, d) ==
    /\ d.state = c.state /\ d.open = c.open /\ d.writing = c.writing
    /\ d.key = c.key /\ d.closing = c.closing

\* Flags of k may change when it has no read.
LEMMA GoodFlags ==
    ASSUME NEW s, NEW w, NEW l, NEW D, Good(s, w, l, Nobody, D), NEW k \in Conns, NoRead(s, k),
           s.conn[k].state = "live",
           NEW d \in ConnRecord, SameBut(s.conn[k], d), NEW t, Sets(s, t, k, d)
    PROVE  Good(t, w, l, Nobody, D) /\ Keeps(s, t) /\ Untouched(s, t, k) /\ NoRead(t, k) /\ t.conn[k] = d
<1>0. /\ d.state = s.conn[k].state /\ d.open = s.conn[k].open /\ d.writing = s.conn[k].writing
      /\ d.key = s.conn[k].key /\ d.closing = s.conn[k].closing
  BY DEF SameBut
<1>1. s \in States
  BY DEF Good
<1>2. t \in States /\ Only(s, t, k, d) /\ t.q = s.q /\ SameIO(s, t) /\ SameRest(s, t)
  BY <1>1, SetFacts
<1>3. t.conn[k] = d /\ (\A j \in Conns : j # k => t.conn[j] = s.conn[j])
      /\ t.reads = s.reads /\ t.wire = s.wire /\ t.ready = s.ready
  BY <1>2 DEF Only, SameIO
<1>4. Owned(t)
  <2>1. OwnedLike(s, t) /\ Owned(s)
    BY <1>0, <1>2, <1>3 DEF OwnedLike, Good
  <2> QED BY <1>1, <2>1, LikeOwned
<1>5. Sound(t, w, Nobody, D)
  <2> SUFFICES ASSUME NEW j \in Conns PROVE Fine(j, s.hasty, t.conn[j], s.reads, s.wire[j], s.ready, w, Nobody, D)
    BY <1>2, <1>3 DEF Sound, SameRest
  <2>1. Fine(j, s.hasty, s.conn[j], s.reads, s.wire[j], s.ready, w, Nobody, D)
    BY DEF Good, Sound
  <2>2. CASE j # k
    BY <1>3, <2>1, <2>2
  <2>3. CASE j = k
    <3>1. k \notin s.reads /\ \A i \in DOMAIN s.ready : s.ready[i].who = k => s.ready[i].what = "write"
      BY DEF NoRead
    <3>2. Fine(k, s.hasty, d, s.reads, s.wire[k], s.ready, w, Nobody, D)
      <4>1. Nobody # k
        BY ConnAssumption
      <4>2. Fine(k, s.hasty, s.conn[k], s.reads, s.wire[k], s.ready, w, Nobody, D)
        BY <2>1, <2>3
      <4> QED BY <1>0, <3>1, <4>1, <4>2 DEF Fine, Gone, Unmade, OneRead, OneReader, Starts, OneWriter, OneWrite, Indebted, Asking
    <3> QED BY <1>3, <2>3, <3>2
  <2> QED BY <2>2, <2>3
<1>7. Told(t, l)
  BY <1>2, <1>3 DEF Good, Told, SameRest
<1>8. Keeps(s, t) /\ Untouched(s, t, k)
  BY <1>0, <1>2, <1>3 DEF Keeps, Untouched
<1>9. NoRead(t, k)
  BY <1>3 DEF NoRead
<1> QED BY <1>2, <1>3, <1>4, <1>5, <1>7, <1>8, <1>9 DEF Good

-----------------------------------------------------------------------------
\* As Keeps, but k may have been deleted.
Loses(s, t, k) ==
    /\ SameRest(s, t) /\ Untouched(s, t, k)
    /\ \A j \in Conns : /\ s.conn[j].closing => t.conn[j].closing
                        /\ t.conn[j].state = s.conn[j].state \/ (j = k /\ t.conn[j].state = "deleted")

\* The destructor leaves nothing behind of k, when nothing of it is under way.
LEMMA GoodDelete ==
    ASSUME NEW s, NEW w, NEW l, NEW D, Good(s, w, l, Nobody, D), NEW k \in Conns, NoRead(s, k),
           s.conn[k].state = "live", ~s.conn[k].writing,
           NEW t, t = Deleted(s, k)
    PROVE  Good(t, w, l, Nobody, D) /\ Loses(s, t, k)
<1>0. Nobody # k
  BY ConnAssumption
<1>1. s \in States
  BY DEF Good
<1>2. PICK u : u = cancel_deadline_timer(s, k)
  OBVIOUS
<1>3. PICK v : v = CloseAdaptor(u, k)
  OBVIOUS
<1>4. /\ Good(u, w, l, Nobody, D) /\ Keeps(s, u) /\ SameIO(s, u) /\ Alike(s, u) /\ u.conn[k].key = NoKey
  BY <1>2, GoodCancel
<1>5. NoRead(u, k) /\ u.conn[k].state = "live" /\ ~u.conn[k].writing
  BY <1>4 DEF NoRead, SameIO, Alike
<1>6. /\ Good(v, w, l, Nobody, D) /\ Keeps(u, v) /\ Untouched(u, v, k)
      /\ v.conn[k] = [u.conn[k] EXCEPT !.open = FALSE] /\ v.wire[k] = <<>> /\ k \notin v.reads
      /\ (u.wire[k] = <<>> /\ k \notin u.reads => v.ready = u.ready) /\ NoRead(v, k)
  BY <1>0, <1>3, <1>4, <1>5, GoodClose
<1>7. v \in States /\ v.conn[k] \in ConnRecord /\ u.conn[k] \in ConnRecord
  BY <1>4, <1>6, StateFields DEF Good
<1>8. v.conn[k].state = "live" /\ ~v.conn[k].writing /\ v.conn[k].key = NoKey /\ v.conn[k].closing = s.conn[k].closing
  BY <1>4, <1>5, <1>6, <1>7 DEF ConnRecord, Alike
<1>9. PICK d \in ConnRecord : /\ d = [v.conn[k] EXCEPT !.state = "deleted", !.onEnd = "null"]
                              /\ d.state = "deleted" /\ d.key = NoKey /\ d.closing = s.conn[k].closing
  <2>1. PICK c \in ConnRecord : c = v.conn[k]
    BY <1>7
  <2>2. PICK d : d = [c EXCEPT !.state = "deleted", !.onEnd = "null"]
    OBVIOUS
  <2>3. d \in ConnRecord /\ d.state = "deleted" /\ d.key = c.key /\ d.closing = c.closing
    BY <2>2 DEF ConnRecord
  <2> QED BY <1>8, <2>1, <2>2, <2>3
<1>10. Sets(v, t, k, d)
  <2>1. t = [v EXCEPT !.conn[k].state = "deleted", !.conn[k].onEnd = "null"]
    BY <1>2, <1>3 DEF Deleted
  <2>2. v.conn \in [Conns -> ConnRecord]
    BY <1>7, StateFields
  <2> QED BY <2>1, <2>2, <1>7, <1>9 DEF States, Sets
<1>11. t \in States /\ Only(v, t, k, d) /\ t.q = v.q /\ SameIO(v, t) /\ SameRest(v, t)
  BY <1>7, <1>10, SetFacts
<1>12. t.conn[k] = d /\ (\A j \in Conns : j # k => t.conn[j] = v.conn[j])
      /\ t.reads = v.reads /\ t.wire = v.wire /\ t.ready = v.ready
  BY <1>11 DEF Only, SameIO
<1>13. \A j \in Conns : Fine(j, v.hasty, v.conn[j], v.reads, v.wire[j], v.ready, w, Nobody, D)
  BY <1>6 DEF Good, Sound
<1>14. \A j \in DOMAIN v.ready : v.ready[j].who = k => v.ready[j].what = "write" /\ k \in v.hasty
  <2>1. \A j \in DOMAIN v.ready : v.ready[j].who = k => v.ready[j].what = "write"
    BY <1>6 DEF NoRead
  <2>2. Fine(k, v.hasty, v.conn[k], v.reads, v.wire[k], v.ready, w, Nobody, D)
    BY <1>13
  <2> QED BY <1>8, <2>1, <2>2 DEF Fine, OneWriter
<1>15. Sound(t, w, Nobody, D)
  <2> SUFFICES ASSUME NEW j \in Conns PROVE Fine(j, v.hasty, t.conn[j], v.reads, v.wire[j], v.ready, w, Nobody, D)
    BY <1>11, <1>12 DEF Sound, SameRest
  <2>1. CASE j # k
    BY <1>12, <1>13, <2>1
  <2>2. CASE j = k
    <3>1. Fine(k, v.hasty, d, v.reads, v.wire[k], v.ready, w, Nobody, D)
      BY <1>0, <1>6, <1>9, <1>14 DEF Fine, Gone, Unmade, OneRead, OneReader, Starts, OneWriter, OneWrite, Indebted, Asking
    <3> QED BY <1>12, <2>2, <3>1
  <2> QED BY <2>1, <2>2
<1>17. Told(t, l)
  BY <1>6, <1>11, <1>12 DEF Good, Told, SameRest
<1>18. Owned(t)
  <2>1. Owned(v) /\ t.q = v.q /\ v.q \in Queues(Conns)
    BY <1>6, <1>7, <1>11, StateFields DEF Good
  <2>2. v.q.step \in Nat /\ DOMAIN v.q.dq = 1 .. Len(v.q.dq) /\ Len(v.q.dq) \in Nat
        /\ \A i \in DOMAIN v.q.dq : v.q.dq[i].who \in Conns \cup {Nobody}
    BY <2>1, QueueTyped
  <2>3. ASSUME NEW i \in DOMAIN v.q.dq PROVE v.q.dq[i].who # k
    <3>1. v.q.dq[i].who = k => v.conn[k].key = v.q.step + i - 1
      BY <2>1, <1>0 DEF Owned
    <3>2. v.q.step + i - 1 # NoKey
      BY <2>2 DEF NoKey
    <3> QED BY <3>1, <3>2, <1>8
  <2>4. \A j \in Conns : t.conn[j].key = v.conn[j].key
    BY <1>8, <1>9, <1>12
  <2>5. \A j \in Conns : j # k => t.conn[j].state = v.conn[j].state
    BY <1>12
  <2>6. ASSUME NEW i \in DOMAIN t.q.dq, t.q.dq[i].who # Nobody
        PROVE  LET j == t.q.dq[i].who IN t.conn[j].state = "live" /\ t.conn[j].key = t.q.step + i - 1
    <3>1. PICK j \in Conns : j = v.q.dq[i].who /\ j = t.q.dq[i].who /\ j # k /\ j # Nobody
      BY <2>1, <2>2, <2>3, <2>6
    <3>2. v.conn[j].state = "live" /\ v.conn[j].key = v.q.step + i - 1
      BY <2>1, <3>1 DEF Owned
    <3> QED BY <2>1, <2>4, <2>5, <3>1, <3>2
  <2>7. ASSUME NEW j \in Conns, Index(t.q, t.conn[j].key) \in DOMAIN t.q.dq
        PROVE  t.q.dq[Index(t.q, t.conn[j].key)].who = j
    <3>1. Index(v.q, v.conn[j].key) \in DOMAIN v.q.dq
      BY <2>1, <2>4, <2>7
    <3>2. v.q.dq[Index(v.q, v.conn[j].key)].who = j
      BY <2>1, <3>1 DEF Owned
    <3> QED BY <2>1, <2>4, <3>2
  <2>8. \A j \in Conns : t.conn[j].key < t.q.step + Len(t.q.dq)
    BY <2>1, <2>4 DEF Owned
  <2> QED BY <2>6, <2>7, <2>8 DEF Owned
<1>19. Loses(s, t, k)
  <2>1. SameRest(s, t)
    BY <1>4, <1>6, <1>11 DEF Keeps, SameRest
  <2>2. Untouched(s, t, k)
    BY <1>4, <1>6, <1>12 DEF Untouched, Alike
  <2>3. ASSUME NEW j \in Conns
        PROVE  /\ s.conn[j].closing => t.conn[j].closing
               /\ t.conn[j].state = s.conn[j].state \/ (j = k /\ t.conn[j].state = "deleted")
    <3>1. /\ u.conn[j].closing = s.conn[j].closing /\ u.conn[j].state = s.conn[j].state
          /\ v.conn[j].state = u.conn[j].state /\ (u.conn[j].closing => v.conn[j].closing)
      BY <1>4, <1>6 DEF Keeps, Alike
    <3>2. CASE j = k
      BY <3>2, <1>9, <1>12
    <3>3. CASE j # k
      BY <3>1, <3>3, <1>12
    <3> QED BY <3>2, <3>3
  <2> QED BY <2>1, <2>2, <2>3 DEF Loses
<1> QED BY <1>11, <1>15, <1>17, <1>18, <1>19, <1>6 DEF Good

\* check_destroy deletes k only then.
LEMMA GoodCheckDestroy ==
    ASSUME NEW s, NEW w, NEW l, NEW D, Good(s, w, l, Nobody, D), NEW k \in Conns,
           ~s.conn[k].reading => NoRead(s, k),
           s.conn[k].state = "live",
           NEW t, t = check_destroy(s, k)
    PROVE  Good(t, w, l, Nobody, D) /\ Loses(s, t, k)
<1>1. CASE ~s.conn[k].reading /\ ~s.conn[k].writing
  <2>1. t = Deleted(s, k)
    BY <1>1 DEF check_destroy
  <2> QED BY <1>1, <2>1, GoodDelete
<1>2. CASE ~(~s.conn[k].reading /\ ~s.conn[k].writing)
  <2>1. t = s
    BY <1>2 DEF check_destroy
  <2> QED BY <2>1 DEF Loses, SameRest, Untouched
<1> QED BY <1>1, <1>2

-----------------------------------------------------------------------------
\* A connection may cease to be owed an answer.
LEMMA GoodFewer ==
    ASSUME NEW s, NEW w, NEW l, NEW b, NEW D, Good(s, w, l, b, D), NEW k
    PROVE  Good(s, w, l, b, D \ {k})
<1>1. PICK E : E = D \ {k} /\ E \subseteq D
  OBVIOUS
<1>2. Sound(s, w, b, E)
  <2>1. SameIO(s, s) /\ SameUse(s, s)
    BY DEF SameIO, SameUse
  <2>2. E \in SUBSET D /\ Sound(s, w, b, D) /\ s.hasty = s.hasty
    BY <1>1 DEF Good
  <2> QED BY <2>1, <2>2, SameSound
<1> QED BY <1>1, <1>2 DEF Good

\* Flags that nothing depends on may change.
LEMMA GoodSet ==
    ASSUME NEW s, NEW w, NEW l, NEW b, NEW D, Good(s, w, l, b, D), NEW k \in Conns,
           NEW d \in ConnRecord, SameFlags(s.conn[k], d), NEW t, Sets(s, t, k, d)
    PROVE  Good(t, w, l, b, D) /\ Keeps(s, t) /\ Untouched(s, t, k) /\ SameIO(s, t) /\ t.conn[k] = d
<1>1. s \in States
  BY DEF Good
<1>2. t \in States /\ Only(s, t, k, d) /\ t.q = s.q /\ SameIO(s, t) /\ SameRest(s, t)
  BY <1>1, SetFacts
<1>3. t.conn[k] = d /\ \A j \in Conns : j # k => t.conn[j] = s.conn[j]
  BY <1>2 DEF Only
<1>4. AllSame(s, t)
  BY <1>3 DEF SameFlags, AllSame
<1>5. Keeps(s, t) /\ Untouched(s, t, k)
  BY <1>2, <1>3, <1>4 DEF Keeps, Untouched, SameFlags, AllSame
<1>6. Good(t, w, l, b, D)
  <2>1. t.msgs = s.msgs /\ t.hasty = s.hasty
    BY <1>2 DEF SameRest
  <2>4. SameIO(s, t) /\ t.q = s.q /\ t \in States
    BY <1>2
  <2> QED BY <1>4, <2>1, <2>4, SameGood
<1> QED BY <1>2, <1>3, <1>5, <1>6

\* Two steps that keep the connections.
LEMMA KeepsTwice ==
    ASSUME NEW s, NEW t, NEW u, Keeps(s, t), Keeps(t, u)
    PROVE  Keeps(s, u)
BY DEF Keeps, SameRest

\* Two steps that touch only k.
LEMMA UntouchedTwice ==
    ASSUME NEW s, NEW t, NEW u, NEW k, Untouched(s, t, k), Untouched(t, u, k)
    PROVE  Untouched(s, u, k)
BY DEF Untouched

\* complete_request pays what k is owed, and reads on if it has to.
LEMMA GoodComplete ==
    ASSUME NEW s, NEW w, NEW l, NEW b, NEW D, Good(s, w, l, b, D), NEW k \in Conns, k \in D \/ k \in s.hasty,
           s.conn[k].state = "live", NEW a, Suits(a, k, s, l),
           NEW t, t = complete_request(s, k, a)
    PROVE  Good(t, w, l, b, D \ {k}) /\ Keeps(s, t) /\ Untouched(s, t, k)
<1>1. s \in States /\ s.conn[k] \in ConnRecord /\ s.conn \in [Conns -> ConnRecord]
  BY StateFields DEF Good
<1>2. s.conn[k].resume => NoRead(s, k) /\ b # k
  <2>1. Fine(k, s.hasty, s.conn[k], s.reads, s.wire[k], s.ready, w, b, D)
    BY DEF Good, Sound
  <2>2. \A j \in DOMAIN s.ready : s.ready[j].what \in {"start", "read", "write", "tick"}
    <3>1. s.ready \in Seq(Handler)
      BY <1>1, StateFields
    <3>2. \A j \in DOMAIN s.ready : s.ready[j] \in Handler
      BY <3>1
    <3> QED BY <3>2 DEF Handler
  <2> QED BY <2>1, <2>2 DEF NoRead, Fine, OneRead, OneReader, Starts
<1>3. PICK d \in ConnRecord : /\ d = [s.conn[k] EXCEPT !.after = FALSE, !.onEnd = "null"]
                              /\ SameFlags(s.conn[k], d) /\ d.resume = s.conn[k].resume
  <2>1. PICK c \in ConnRecord : c = s.conn[k]
    BY <1>1
  <2>2. PICK d : d = [c EXCEPT !.after = FALSE, !.onEnd = "null"]
    OBVIOUS
  <2>3. d \in ConnRecord /\ SameFlags(c, d) /\ d.resume = c.resume
    BY <2>2 DEF ConnRecord, SameFlags
  <2> QED BY <2>1, <2>2, <2>3
<1>4. PICK u : Sets(s, u, k, d)
  BY DEF Sets
<1>5. u = [s EXCEPT !.conn[k].after = FALSE, !.conn[k].onEnd = "null"]
  BY <1>1, <1>3, <1>4 DEF States, Sets
<1>6. /\ Good(u, w, l, b, D) /\ Good(u, w, l, b, D \ {k})
      /\ Keeps(s, u) /\ Untouched(s, u, k) /\ SameIO(s, u) /\ u.conn[k] = d
  <2>1. Good(u, w, l, b, D) /\ Keeps(s, u) /\ Untouched(s, u, k) /\ SameIO(s, u) /\ u.conn[k] = d
    BY <1>3, <1>4, GoodSet
  <2> QED BY <2>1, GoodFewer
<1>7. CASE ~s.conn[k].open
  <2>1. t = u
    BY <1>5, <1>7 DEF complete_request
  <2> QED BY <1>6, <2>1
<1>8. CASE s.conn[k].open
  <2>1. PICK e \in ConnRecord : e = [d EXCEPT !.resume = FALSE] /\ SameFlags(d, e) /\ ~e.resume
    <3>1. PICK e : e = [d EXCEPT !.resume = FALSE]
      OBVIOUS
    <3>2. e \in ConnRecord /\ SameFlags(d, e) /\ ~e.resume
      BY <3>1 DEF ConnRecord, SameFlags
    <3> QED BY <3>1, <3>2
  <2>2. PICK v : Sets(u, v, k, e)
    BY DEF Sets
  <2>3. v = [u EXCEPT !.conn[k].resume = FALSE]
    <3>1. u \in States /\ u.conn \in [Conns -> ConnRecord]
      BY <1>6, StateFields DEF Good
    <3> QED BY <1>6, <2>1, <2>2, <3>1 DEF States, Sets
  <2>4. Good(v, w, l, b, D) /\ Keeps(u, v) /\ Untouched(u, v, k) /\ SameIO(u, v) /\ v.conn[k] = e
    <3>1. SameFlags(u.conn[k], e) /\ Good(u, w, l, b, D)
      BY <1>6, <2>1
    <3> QED BY <2>1, <2>2, <3>1, GoodSet
  <2>5. PICK x : x = do_write(v, k, a)
    OBVIOUS
  <2>6. v.conn[k].state = "live" /\ v.conn[k].open /\ Suits(a, k, v, l) /\ (s.conn[k].resume => NoRead(v, k))
          /\ v.hasty = s.hasty
    <3>1. e.state = "live" /\ e.open
      BY <1>3, <1>8, <2>1 DEF SameFlags
    <3>2. v.msgs = s.msgs /\ v.hasty = s.hasty
      BY <1>6, <2>4 DEF Keeps, SameRest
    <3>3. s.conn[k].resume => NoRead(v, k)
      BY <1>2, <1>6, <2>4 DEF NoRead, SameIO
    <3> QED BY <2>4, <3>1, <3>2, <3>3 DEF Suits
  <2>7. Good(x, w, l, b, D \ {k}) /\ Keeps(v, x) /\ Untouched(v, x, k) /\ Sent(v, x, k)
    BY <2>4, <2>5, <2>6, GoodWrite
  <2>8. Keeps(s, x) /\ Untouched(s, x, k)
    BY <1>6, <2>4, <2>7, KeepsTwice, UntouchedTwice
  <2>9. CASE ~s.conn[k].resume
    <3>1. t = x
      BY <1>5, <1>8, <2>3, <2>5, <2>9 DEF complete_request
    <3> QED BY <2>7, <2>8, <3>1
  <2>10. CASE s.conn[k].resume
    <3>1. PICK y : y = start_deadline(x, k)
      OBVIOUS
    <3>2. t = do_read(y, k)
      BY <1>5, <1>8, <2>3, <2>5, <2>10, <3>1 DEF complete_request
    <3>3. x.conn[k].state = "live" /\ x.conn[k].open /\ ~x.conn[k].resume /\ NoRead(x, k)
      <4>1. PICK f \in ConnRecord : f = e
        BY <2>1
      <4>2. f.state = "live" /\ f.open /\ ~f.resume
        BY <4>1, <2>1, <2>4, <2>6
      <4>3. x.conn[k] = [f EXCEPT !.writing = TRUE]
        BY <2>4, <2>7, <4>1 DEF Sent
      <4>4. x.conn[k].state = "live" /\ x.conn[k].open /\ ~x.conn[k].resume
        BY <4>2, <4>3 DEF ConnRecord
      <4>5. NoRead(x, k)
        BY <2>6, <2>7, <2>10 DEF NoRead, Sent
      <4> QED BY <4>4, <4>5
    <3>4. Good(y, w, l, b, D \ {k}) /\ Keeps(x, y) /\ SameIO(x, y) /\ Alike(x, y)
      BY <2>7, <3>1, <3>3, GoodStart
    <3>5. y.conn[k].state = "live" /\ y.conn[k].open /\ ~y.conn[k].resume /\ NoRead(y, k) /\ Untouched(x, y, k)
      BY <3>3, <3>4 DEF Alike, SameIO, NoRead, Untouched
    <3>6. b # k /\ k \notin D \ {k}
      BY <1>2, <2>10
    <3>7. Good(t, w, l, b, D \ {k}) /\ Keeps(y, t) /\ Untouched(y, t, k)
      BY <3>2, <3>4, <3>5, <3>6, GoodRead
    <3> QED BY <2>8, <3>4, <3>5, <3>7, KeepsTwice, UntouchedTwice
  <2> QED BY <2>9, <2>10
<1> QED BY <1>7, <1>8

\* So does end, which may find the response completed or without a handler.
LEMMA GoodEnd ==
    ASSUME NEW s, NEW w, NEW l, NEW b, NEW D, Good(s, w, l, b, D), NEW k \in Conns, k \in D \/ k \in s.hasty,
           s.conn[k].state = "live", NEW a, Suits(a, k, s, l),
           NEW t, t = end(s, k, a)
    PROVE  Good(t, w, l, b, D \ {k}) /\ Keeps(s, t) /\ Untouched(s, t, k)
<1>1. s \in States /\ s.conn[k] \in ConnRecord /\ s.conn \in [Conns -> ConnRecord]
  BY StateFields DEF Good
<1>2. PICK c \in ConnRecord : c = s.conn[k]
  BY <1>1
<1>3. PICK d \in ConnRecord : d = [c EXCEPT !.completed = TRUE] /\ SameFlags(c, d)
  <2>1. PICK d : d = [c EXCEPT !.completed = TRUE]
    OBVIOUS
  <2>2. d \in ConnRecord /\ SameFlags(c, d)
    BY <2>1 DEF ConnRecord, SameFlags
  <2> QED BY <2>1, <2>2
<1>4. PICK u : Sets(s, u, k, d)
  BY DEF Sets
<1>5. u = [s EXCEPT !.conn[k].completed = TRUE]
  BY <1>1, <1>2, <1>3, <1>4 DEF States, Sets
<1>7. /\ Good(u, w, l, b, D) /\ Good(u, w, l, b, D \ {k})
      /\ Keeps(s, u) /\ Untouched(s, u, k) /\ SameIO(s, u) /\ u.conn[k] = d
  <2>1. Good(u, w, l, b, D) /\ Keeps(s, u) /\ Untouched(s, u, k) /\ SameIO(s, u) /\ u.conn[k] = d
    BY <1>2, <1>3, <1>4, GoodSet
  <2> QED BY <2>1, GoodFewer
<1>8. CASE s.conn[k].completed
  <2>1. t = s
    BY <1>8 DEF end
  <2>2. SameFlags(c, c) /\ Sets(s, s, k, c)
    BY <1>1, <1>2 DEF SameFlags, States, Sets
  <2>3. Good(s, w, l, b, D \ {k}) /\ Keeps(s, s) /\ Untouched(s, s, k)
    BY <1>2, <2>2, GoodSet, GoodFewer
  <2> QED BY <2>1, <2>3
<1>9. CASE ~s.conn[k].completed /\ s.conn[k].onEnd = "complete"
  <2>1. t = complete_request(u, k, a)
    BY <1>5, <1>9 DEF end
  <2>2. u.conn[k].state = "live" /\ Suits(a, k, u, l) /\ u.hasty = s.hasty
    BY <1>2, <1>3, <1>7 DEF SameFlags, Suits, Keeps, SameRest
  <2>3. Good(t, w, l, b, D \ {k}) /\ Keeps(u, t) /\ Untouched(u, t, k)
    BY <1>7, <2>1, <2>2, GoodComplete
  <2> QED BY <1>7, <2>3, KeepsTwice, UntouchedTwice
<1>10. CASE ~s.conn[k].completed /\ s.conn[k].onEnd # "complete"
  <2>1. t = u
    BY <1>5, <1>10 DEF end
  <2> QED BY <1>7, <2>1
<1> QED BY <1>8, <1>9, <1>10

-----------------------------------------------------------------------------
\* A step that keeps the connections, and one that may lose k.
LEMMA KeepsLoses ==
    ASSUME NEW s, NEW t, NEW u, NEW k, Keeps(s, t), Untouched(s, t, k), Loses(t, u, k)
    PROVE  Loses(s, u, k)
BY DEF Keeps, Loses, SameRest, Untouched

\* One that keeps them loses none.
LEMMA KeepsIsLoses ==
    ASSUME NEW s, NEW t, NEW k, Keeps(s, t), Untouched(s, t, k)
    PROVE  Loses(s, t, k)
BY DEF Keeps, Loses

\* One that changes no flag touches none.
LEMMA AlikeUntouched ==
    ASSUME NEW s, NEW t, NEW k, Alike(s, t)
    PROVE  Untouched(s, t, k)
BY DEF Alike, Untouched

\* The connection whose handler runs is live, and that handler is its only read.
LEMMA BusyFacts ==
    ASSUME NEW s, NEW w, NEW l, NEW k \in Conns, NEW D, Good(s, w, l, k, D)
    PROVE  /\ s.conn[k].state = "live" /\ s.conn[k].reading /\ ~s.conn[k].resume /\ NoRead(s, k)
<1>1. Fine(k, s.hasty, s.conn[k], s.reads, s.wire[k], s.ready, w, k, D)
  BY DEF Good, Sound
<1>2. s.conn[k].state = "live"
  BY <1>1 DEF Fine, Gone
<1>3. s.conn[k].reading /\ ~s.conn[k].resume /\ NoRead(s, k)
  BY <1>1 DEF Fine, OneRead, NoRead
<1> QED BY <1>2, <1>3

\* The deadline of k is cancelled and its read is over.
ReadOver(s, k) == [cancel_deadline_timer(s, k) EXCEPT !.conn[k].reading = FALSE]

\* When the read is over k has none.
LEMMA GoodReadOver ==
    ASSUME NEW s, NEW w, NEW l, NEW k \in Conns, NEW D, Good(s, w, l, k, D),
           NEW t, t = ReadOver(s, k)
    PROVE  /\ Good(t, w, l, Nobody, D) /\ Keeps(s, t) /\ Untouched(s, t, k) /\ NoRead(t, k)
           /\ t.conn[k].state = "live"
<1>1. PICK u : u = cancel_deadline_timer(s, k)
  OBVIOUS
<1>2. Good(s, w, l, Nobody, D) /\ s.conn[k].state = "live" /\ NoRead(s, k)
  BY BusyFacts, GoodUnbusy
<1>3. Good(u, w, l, Nobody, D) /\ Keeps(s, u) /\ SameIO(s, u) /\ Alike(s, u)
  BY <1>1, <1>2, GoodCancel
<1>4. u.conn[k].state = "live" /\ NoRead(u, k) /\ Untouched(s, u, k)
  BY <1>2, <1>3, AlikeUntouched DEF Alike, NoRead, SameIO
<1>5. u \in States /\ u.conn[k] \in ConnRecord /\ u.conn \in [Conns -> ConnRecord]
  BY <1>3, StateFields DEF Good
<1>6. PICK d \in ConnRecord : d = [u.conn[k] EXCEPT !.reading = FALSE] /\ SameBut(u.conn[k], d)
  <2>1. PICK c \in ConnRecord : c = u.conn[k]
    BY <1>5
  <2>2. PICK d : d = [c EXCEPT !.reading = FALSE]
    OBVIOUS
  <2>3. d \in ConnRecord /\ SameBut(c, d)
    BY <2>2 DEF ConnRecord, SameBut
  <2> QED BY <2>1, <2>2, <2>3
<1>7. Sets(u, t, k, d)
  <2>1. t = [u EXCEPT !.conn[k].reading = FALSE]
    BY <1>1 DEF ReadOver
  <2> QED BY <2>1, <1>5, <1>6 DEF States, Sets
<1>8. Good(t, w, l, Nobody, D) /\ Keeps(u, t) /\ Untouched(u, t, k) /\ NoRead(t, k) /\ t.conn[k] = d
  <2>1. SameBut(u.conn[k], d) /\ Good(u, w, l, Nobody, D) /\ NoRead(u, k) /\ u.conn[k].state = "live"
    BY <1>3, <1>4, <1>6
  <2> QED BY <1>7, <2>1, GoodFlags
<1>9. t.conn[k].state = "live"
  BY <1>4, <1>6, <1>8 DEF SameBut
<1> QED BY <1>3, <1>4, <1>8, <1>9, KeepsTwice, UntouchedTwice

\* after_feed: k reads on, waits for its response, or is destroyed.
LEMMA GoodAfter ==
    ASSUME NEW s, NEW w, NEW l, NEW k \in Conns, NEW D, Good(s, w, l, k, D),
           k \in D => s.conn[k].after \/ k \in s.hasty, NEW ok \in BOOLEAN,
           NEW t, t = after_feed(s, k, ok)
    PROVE  /\ Good(t, w, l, Nobody, D) /\ Loses(s, t, k)
           /\ t.conn[k].state = "live" \/ s.conn[k].closing \/ ~s.conn[k].open \/ ~ok
<1>0. Nobody # k
  BY ConnAssumption
<1>1. PICK u : u = ReadOver(s, k)
  OBVIOUS
<1>2. /\ Good(u, w, l, Nobody, D) /\ Keeps(s, u) /\ Untouched(s, u, k) /\ NoRead(u, k)
      /\ u.conn[k].state = "live"
  BY <1>1, GoodReadOver
<1>3. /\ s.conn[k].state = "live" /\ s.conn[k].reading /\ ~s.conn[k].resume /\ NoRead(s, k)
  BY BusyFacts
<1>4. Good(s, w, l, Nobody, D)
  BY GoodUnbusy
<1>5. s \in States /\ s.conn[k] \in ConnRecord /\ s.conn \in [Conns -> ConnRecord]
  BY StateFields DEF Good
<1>6. CASE ~ok \/ ~s.conn[k].open
  <2>1. PICK v : v = CloseAdaptor(u, k)
    OBVIOUS
  <2>2. t = check_destroy(v, k)
    BY <1>1, <1>6, <2>1 DEF after_feed, ReadOver
  <2>3. /\ Good(v, w, l, Nobody, D) /\ Keeps(u, v) /\ Untouched(u, v, k)
        /\ v.conn[k] = [u.conn[k] EXCEPT !.open = FALSE]
        /\ v.wire[k] = <<>> /\ k \notin v.reads
        /\ (u.wire[k] = <<>> /\ k \notin u.reads => v.ready = u.ready)
        /\ (NoRead(u, k) => NoRead(v, k))
    BY <1>0, <1>2, <2>1, GoodClose
  <2>4. v.conn[k].state = "live" /\ NoRead(v, k)
    BY <1>2, <2>3 DEF Keeps
  <2>5. Good(t, w, l, Nobody, D) /\ Loses(v, t, k)
    BY <2>2, <2>3, <2>4, GoodCheckDestroy
  <2>6. Loses(s, t, k)
    BY <1>2, <2>3, <2>5, KeepsTwice, UntouchedTwice, KeepsLoses
  <2> QED BY <1>3, <1>6, <2>5, <2>6
<1>7. CASE ok /\ s.conn[k].open /\ s.conn[k].closing
  <2>1. t = check_destroy(u, k)
    BY <1>1, <1>7 DEF after_feed, ReadOver
  <2>2. Good(t, w, l, Nobody, D) /\ Loses(u, t, k)
    BY <1>2, <2>1, GoodCheckDestroy
  <2> QED BY <1>2, <1>7, <2>2, KeepsLoses
<1>8. CASE ok /\ s.conn[k].open /\ ~s.conn[k].closing /\ ~s.conn[k].after
  <2>1. PICK v : v = start_deadline(s, k)
    OBVIOUS
  <2>2. t = do_read(v, k)
    BY <1>8, <2>1 DEF after_feed
  <2>3. Good(v, w, l, Nobody, D) /\ Keeps(s, v) /\ SameIO(s, v) /\ Alike(s, v)
    BY <1>3, <1>4, <2>1, GoodStart
  <2>4. v.conn[k].state = "live" /\ v.conn[k].open /\ ~v.conn[k].resume /\ NoRead(v, k) /\ Untouched(s, v, k)
    BY <1>3, <1>8, <2>3, AlikeUntouched DEF Alike, SameIO, NoRead
  <2>5. k \in D => k \in v.hasty
    BY <1>8, <2>3 DEF Keeps, SameRest
  <2>6. Good(t, w, l, Nobody, D) /\ Keeps(v, t) /\ Untouched(v, t, k)
    BY <1>0, <2>2, <2>3, <2>4, <2>5, GoodRead
  <2>7. Loses(s, t, k)
    BY <2>3, <2>4, <2>6, KeepsTwice, UntouchedTwice, KeepsIsLoses
  <2>8. t.conn[k].state = "live"
    BY <2>4, <2>6 DEF Keeps
  <2> QED BY <2>6, <2>7, <2>8
<1>9. CASE ok /\ s.conn[k].open /\ ~s.conn[k].closing /\ s.conn[k].after
  <2>1. t = [s EXCEPT !.conn[k].resume = TRUE]
    BY <1>9 DEF after_feed
  <2>2. PICK d \in ConnRecord : d = [s.conn[k] EXCEPT !.resume = TRUE] /\ SameBut(s.conn[k], d)
    <3>1. PICK c \in ConnRecord : c = s.conn[k]
      BY <1>5
    <3>2. PICK d : d = [c EXCEPT !.resume = TRUE]
      OBVIOUS
    <3>3. d \in ConnRecord /\ SameBut(c, d)
      BY <3>2 DEF ConnRecord, SameBut
    <3> QED BY <3>1, <3>2, <3>3
  <2>3. Sets(s, t, k, d)
    BY <2>1, <2>2, <1>5 DEF States, Sets
  <2>4. Good(t, w, l, Nobody, D) /\ Keeps(s, t) /\ Untouched(s, t, k) /\ NoRead(t, k) /\ t.conn[k] = d
    BY <1>3, <1>4, <2>2, <2>3, GoodFlags
  <2>5. t.conn[k].state = "live"
    BY <1>3, <2>2, <2>4 DEF SameBut
  <2> QED BY <2>4, <2>5, KeepsIsLoses
<1>10. s.conn[k].open \in BOOLEAN /\ s.conn[k].closing \in BOOLEAN /\ s.conn[k].after \in BOOLEAN
  BY <1>5 DEF ConnRecord
<1> QED BY <1>6, <1>7, <1>8, <1>9, <1>10

-----------------------------------------------------------------------------
\* The handler in front is taken from the queue.
LEMMA TailIs ==
    ASSUME NEW T, NEW r \in Seq(T), r # <<>>, NEW y, y = Tail(r), NEW n, n = Len(r)
    PROVE  /\ n \in Nat /\ n > 0 /\ DOMAIN r = 1 .. n /\ DOMAIN y = 1 .. (n - 1) /\ y \in Seq(T)
           /\ \A j \in 1 .. (n - 1) : y[j] = r[j + 1]
           /\ Head(r) = r[1] /\ Head(r) \in T
<1>1. n \in Nat \ {0}
  BY EmptySeq
<1>2. Len(y) = n - 1 /\ y \in Seq(T)
  BY <1>1, HeadTailProperties
<1>3. \A j \in 1 .. (n - 1) : y[j] = r[j + 1]
  BY <1>1
<1>4. Head(r) = r[1] /\ Head(r) \in T
  BY <1>1
<1> QED BY <1>1, <1>2, <1>3, <1>4

\* r with some handlers in front taken away, each place j being e + j before.
Later(r, y, e) ==
    /\ e \in Nat /\ DOMAIN r \subseteq Nat /\ DOMAIN y \subseteq Nat \ {0}
    /\ \A j \in DOMAIN y : e + j \in DOMAIN r /\ y[j] = r[e + j]

\* Such are the handlers behind the first.
LEMMA TailLater ==
    ASSUME NEW r \in Seq(Handler), r # <<>>
    PROVE  Later(r, Tail(r), 1) /\ Tail(r) \in Seq(Handler)
<1>1. PICK y : y = Tail(r)
  OBVIOUS
<1>2. PICK n : n = Len(r)
  OBVIOUS
<1>3. /\ n \in Nat /\ n > 0 /\ DOMAIN r = 1 .. n /\ DOMAIN y = 1 .. (n - 1) /\ y \in Seq(Handler)
      /\ \A j \in 1 .. (n - 1) : y[j] = r[j + 1]
  BY <1>1, <1>2, TailIs
<1>4. Later(r, y, 1)
  BY <1>3 DEF Later
<1> QED BY <1>1, <1>3, <1>4

\* A connection is sound with fewer handlers.
LEMMA FineLater ==
    ASSUME NEW k \in Conns, NEW z, NEW c, NEW reads, NEW wr, NEW r, NEW y, NEW w, NEW b, NEW D, NEW e, Later(r, y, e),
           Fine(k, z, c, reads, wr, r, w, b, D)
    PROVE  Fine(k, z, c, reads, wr, y, w, b, D)
<1>1. e \in Nat /\ DOMAIN y \subseteq Nat \ {0} /\ \A j \in DOMAIN y : e + j \in DOMAIN r /\ y[j] = r[e + j]
  BY DEF Later
<1>2. Gone(k, z, c, reads, wr, y, b) /\ Unmade(k, z, c, w, D) /\ OneRead(k, c, reads, y, b)
  BY <1>1 DEF Fine, Gone, OneRead
<1>3. OneReader(k, c, y)
  <2>1. OneReader(k, c, r)
    BY DEF Fine
  <2> SUFFICES ASSUME NEW j \in DOMAIN y, y[j].who = k
               PROVE  /\ y[j].what # "tick"
                      /\ y[j].what = "read" =>
                          /\ c.reading /\ ~c.resume
                          /\ \A i \in DOMAIN y : y[i].who = k /\ y[i].what \in {"start", "read"} => i = j
    BY DEF OneReader
  <2>2. e + j \in DOMAIN r /\ y[j] = r[e + j]
    BY <1>1
  <2>3. y[j].what # "tick" /\ (y[j].what = "read" => c.reading /\ ~c.resume)
    BY <2>1, <2>2 DEF OneReader
  <2>4. ASSUME y[j].what = "read", NEW i \in DOMAIN y, y[i].who = k, y[i].what \in {"start", "read"} PROVE i = j
    <3>1. e + i \in DOMAIN r /\ y[i] = r[e + i] /\ i \in Nat /\ j \in Nat
      BY <1>1
    <3>2. e + i = e + j
      BY <2>1, <2>2, <2>4, <3>1 DEF OneReader
    <3> QED BY <1>1, <3>1, <3>2
  <2> QED BY <2>3, <2>4
<1>4. Starts(k, z, c, wr, y, w)
  <2>1. Starts(k, z, c, wr, r, w)
    BY DEF Fine
  <2> SUFFICES ASSUME NEW j \in DOMAIN y, y[j].who = k, y[j].what = "start"
               PROVE  /\ ~c.resume /\ wr = <<>> /\ k \notin w /\ k \notin z
                      /\ \A i \in DOMAIN y : y[i].who = k => i = j
    BY DEF Starts
  <2>2. e + j \in DOMAIN r /\ y[j] = r[e + j]
    BY <1>1
  <2>3. ~c.resume /\ wr = <<>> /\ k \notin w /\ k \notin z
    BY <2>1, <2>2 DEF Starts
  <2>4. ASSUME NEW i \in DOMAIN y, y[i].who = k PROVE i = j
    <3>1. e + i \in DOMAIN r /\ y[i] = r[e + i] /\ i \in Nat /\ j \in Nat
      BY <1>1
    <3>2. e + i = e + j
      BY <2>1, <2>2, <2>4, <3>1 DEF Starts
    <3> QED BY <1>1, <3>1, <3>2
  <2> QED BY <2>3, <2>4
<1>5. OneWriter(k, z, c, wr, y)
  <2>1. OneWriter(k, z, c, wr, r)
    BY DEF Fine
  <2> SUFFICES ASSUME k \notin z, NEW j \in DOMAIN y, y[j].who = k, y[j].what = "write"
               PROVE  /\ c.writing /\ wr = <<>>
                      /\ \A i \in DOMAIN y : y[i].who = k /\ y[i].what = "write" => i = j
    BY DEF OneWriter
  <2>2. e + j \in DOMAIN r /\ y[j] = r[e + j]
    BY <1>1
  <2>3. c.writing /\ wr = <<>>
    BY <2>1, <2>2 DEF OneWriter
  <2>4. ASSUME NEW i \in DOMAIN y, y[i].who = k, y[i].what = "write" PROVE i = j
    <3>1. e + i \in DOMAIN r /\ y[i] = r[e + i] /\ i \in Nat /\ j \in Nat
      BY <1>1
    <3>2. e + i = e + j
      BY <2>1, <2>2, <2>4, <3>1 DEF OneWriter
    <3> QED BY <1>1, <3>1, <3>2
  <2> QED BY <2>3, <2>4
<1>6. OneWrite(k, z, c, wr, w, D) /\ Indebted(k, z, c, reads, y, w, D)
  BY <1>1 DEF Fine, OneWrite, Indebted
<1>7. Asking(k, z, wr, y, w, D)
  <2>1. Asking(k, z, wr, r, w, D)
    BY DEF Fine
  <2> SUFFICES ASSUME k \notin z, NEW j \in DOMAIN y, y[j].who = k, Asks(y[j])
               PROVE  /\ wr = <<>> /\ k \in w /\ k \notin D
                      /\ \A i \in DOMAIN y : y[i].who = k /\ y[i].what = "write" => i < j
    BY DEF Asking
  <2>2. e + j \in DOMAIN r /\ y[j] = r[e + j]
    BY <1>1
  <2>3. wr = <<>> /\ k \in w /\ k \notin D
    BY <2>1, <2>2 DEF Asking
  <2>4. ASSUME NEW i \in DOMAIN y, y[i].who = k, y[i].what = "write" PROVE i < j
    <3>1. e + i \in DOMAIN r /\ y[i] = r[e + i] /\ i \in Nat /\ j \in Nat
      BY <1>1
    <3>2. e + i < e + j
      BY <2>1, <2>2, <2>4, <3>1 DEF Asking
    <3> QED BY <1>1, <3>1, <3>2
  <2> QED BY <2>3, <2>4
<1> QED BY <1>2, <1>3, <1>4, <1>5, <1>6, <1>7 DEF Fine

\* The state after it.
SameButReady(s, t) ==
    /\ t.conn = s.conn /\ t.q = s.q /\ t.reads = s.reads /\ t.wire = s.wire /\ SameRest(s, t)

\* The first of them is taken.
Popping(s, t) == t = [s EXCEPT !.ready = Tail(@)]

\* The handler in front is taken.
LEMMA GoodPop ==
    ASSUME NEW s, NEW w, NEW l, NEW D, Good(s, w, l, Nobody, D), s.ready # <<>>,
           NEW t, Popping(s, t)
    PROVE  Good(t, w, l, Nobody, D) /\ SameButReady(s, t) /\ t.ready = Tail(s.ready) /\ Later(s.ready, t.ready, 1)
<1>1. s \in States /\ s.ready \in Seq(Handler)
  BY StateFields DEF Good
<1>2. PICK y \in Seq(Handler) : y = Tail(s.ready) /\ Later(s.ready, y, 1)
  BY <1>1, TailLater
<1>3. t = [s EXCEPT !.ready = y]
  BY <1>2 DEF Popping
<1>4. t \in States /\ SameButReady(s, t) /\ t.ready = y
  BY <1>1, <1>3 DEF States, SameButReady, SameRest
<1>5. t.conn = s.conn /\ t.q = s.q /\ t.reads = s.reads /\ t.wire = s.wire /\ t.msgs = s.msgs /\ t.hasty = s.hasty
  BY <1>4 DEF SameButReady, SameRest
<1>6. Sound(t, w, Nobody, D)
  <2> SUFFICES ASSUME NEW k \in Conns PROVE Fine(k, s.hasty, s.conn[k], s.reads, s.wire[k], y, w, Nobody, D)
    BY <1>4, <1>5 DEF Sound
  <2>1. Fine(k, s.hasty, s.conn[k], s.reads, s.wire[k], s.ready, w, Nobody, D)
    BY DEF Good, Sound
  <2> QED BY <1>2, <2>1, FineLater
<1>7. Owned(t)
  BY <1>5 DEF Good, Owned
<1>8. \A j \in DOMAIN y : 1 + j \in DOMAIN s.ready /\ y[j] = s.ready[1 + j]
  BY <1>2 DEF Later
<1>10. Told(t, l)
  BY <1>4, <1>5, <1>8 DEF Good, Told
<1> QED BY <1>2, <1>4, <1>6, <1>7, <1>10 DEF Good

\* That changes no connection.
LEMMA PopKeeps ==
    ASSUME NEW s, NEW t, SameButReady(s, t), NEW k
    PROVE  Keeps(s, t) /\ Untouched(s, t, k)
BY DEF SameButReady, Keeps, Untouched

\* The handler of k runs, for the read that is over.
LEMMA GoodBusy ==
    ASSUME NEW s, NEW w, NEW l, NEW D, Good(s, w, l, Nobody, D), NEW k \in Conns, NoRead(s, k),
           s.conn[k].state = "live", s.conn[k].reading, ~s.conn[k].resume
    PROVE  Good(s, w, l, k, D)
<1>0. Nobody # k
  BY ConnAssumption
<1>1. Sound(s, w, k, D)
  <2> SUFFICES ASSUME NEW j \in Conns PROVE Fine(j, s.hasty, s.conn[j], s.reads, s.wire[j], s.ready, w, k, D)
    BY DEF Sound
  <2>0. Nobody # j
    BY ConnAssumption
  <2>1. Fine(j, s.hasty, s.conn[j], s.reads, s.wire[j], s.ready, w, Nobody, D)
    BY DEF Good, Sound
  <2>2. OneRead(j, s.conn[j], s.reads, s.ready, k)
    <3>1. CASE j = k
      BY <3>1 DEF OneRead, NoRead
    <3>2. CASE j # k
      BY <3>2, <2>1 DEF Fine, OneRead
    <3> QED BY <3>1, <3>2
  <2>3. Gone(j, s.hasty, s.conn[j], s.reads, s.wire[j], s.ready, k)
    BY <2>1 DEF Fine, Gone
  <2> QED BY <2>1, <2>2, <2>3 DEF Fine
<1> QED BY <1>1 DEF Good

\* Its client waits for an answer now.
LEMMA GoodOwes ==
    ASSUME NEW s, NEW w, NEW l, NEW b, NEW D, Good(s, w, l, b, D), NEW k \in Conns,
           s.conn[k].state = "live",
           k \notin s.hasty =>
                k \in w /\ k \notin s.reads /\ s.wire[k] = <<>> /\ \A j \in DOMAIN s.ready : s.ready[j].who # k
    PROVE  Good(s, w, l, b, D \cup {k})
<1>1. Sound(s, w, b, D \cup {k})
  <2> SUFFICES ASSUME NEW j \in Conns PROVE Fine(j, s.hasty, s.conn[j], s.reads, s.wire[j], s.ready, w, b, D \cup {k})
    BY DEF Sound
  <2>1. Fine(j, s.hasty, s.conn[j], s.reads, s.wire[j], s.ready, w, b, D)
    BY DEF Good, Sound
  <2>2. CASE j = k
    BY <2>1, <2>2 DEF Fine, Gone, Unmade, OneRead, OneReader, Starts, OneWriter, OneWrite, Indebted, Asking
  <2>3. CASE j # k
    <3>1. j \in D <=> j \in D \cup {k}
      BY <2>3
    <3> QED BY <2>1, <3>1, OtherFine
  <2> QED BY <2>2, <2>3
<1> QED BY <1>1 DEF Good

\* A hasty one may be owed an answer or not.
LEMMA GoodSwap ==
    ASSUME NEW s, NEW w, NEW l, NEW b, NEW D, Good(s, w, l, b, D), NEW E, E \ s.hasty \subseteq D
    PROVE  Good(s, w, l, b, E)
<1>1. Sound(s, w, b, E)
  <2> SUFFICES ASSUME NEW j \in Conns PROVE Fine(j, s.hasty, s.conn[j], s.reads, s.wire[j], s.ready, w, b, E)
    BY DEF Sound
  <2>1. Fine(j, s.hasty, s.conn[j], s.reads, s.wire[j], s.ready, w, b, D)
    BY DEF Good, Sound
  <2> QED BY <2>1 DEF Fine, Unmade, OneWrite, Indebted, Asking
<1> QED BY <1>1 DEF Good

-----------------------------------------------------------------------------
\* The handler in front, and what is true when it runs.
Front(s, h, k) == s.ready # <<>> /\ h = Head(s.ready) /\ h.who = k

\* The handler in front is that of a live connection, which is owed no answer.
LEMMA FrontFacts ==
    ASSUME NEW s, NEW w, NEW l, NEW D, Good(s, w, l, Nobody, D), NEW k \in Conns, NEW h, Front(s, h, k)
    PROVE  /\ h \in Handler /\ 1 \in DOMAIN s.ready /\ s.ready[1] = h /\ h.who = k
           /\ h.what # "tick" /\ ((h.what = "write" /\ k \in s.hasty) \/ s.conn[k].state = "live")
           /\ (k \in D => k \in s.hasty) /\ Says(h, l, s.hasty)
           /\ Fine(k, s.hasty, s.conn[k], s.reads, s.wire[k], s.ready, w, Nobody, D)
<1>1. s.ready \in Seq(Handler)
  BY StateFields DEF Good
<1>2. PICK n : n = Len(s.ready)
  OBVIOUS
<1>3. n \in Nat /\ n > 0 /\ DOMAIN s.ready = 1 .. n /\ Head(s.ready) = s.ready[1] /\ Head(s.ready) \in Handler
  BY <1>1, <1>2, TailIs DEF Front
<1>4. h \in Handler /\ 1 \in DOMAIN s.ready /\ s.ready[1] = h /\ h.who = k
  BY <1>3 DEF Front
<1>5. Fine(k, s.hasty, s.conn[k], s.reads, s.wire[k], s.ready, w, Nobody, D)
  BY DEF Good, Sound
<1>6. (h.what = "write" /\ k \in s.hasty) \/ s.conn[k].state = "live"
  BY <1>4, <1>5 DEF Fine, Gone
<1>7. k \in D => k \in s.hasty
  BY <1>4, <1>5, <1>6 DEF Fine, Indebted
<1>8. h.what # "tick"
  BY <1>4, <1>5 DEF Fine, OneReader
<1>9. Says(h, l, s.hasty)
  BY <1>4 DEF Good, Told
<1> QED BY <1>4, <1>5, <1>6, <1>7, <1>8, <1>9

\* Those behind it.
LEMMA AloneInFront ==
    ASSUME NEW r, NEW y, Later(r, y, 1)
    PROVE  \A j \in DOMAIN y : 1 + j \in DOMAIN r /\ y[j] = r[1 + j] /\ 1 + j # 1 /\ ~(1 + j < 1)
<1> SUFFICES ASSUME NEW j \in DOMAIN y
             PROVE  1 + j \in DOMAIN r /\ y[j] = r[1 + j] /\ 1 + j # 1 /\ ~(1 + j < 1)
  OBVIOUS
<1>1. 1 + j \in DOMAIN r /\ y[j] = r[1 + j] /\ j \in Nat \ {0}
  BY DEF Later
<1>2. PICK n \in Nat \ {0} : n = j
  BY <1>1
<1>3. 1 + n # 1 /\ ~(1 + n < 1)
  OBVIOUS
<1> QED BY <1>1, <1>2, <1>3

\* The kinds of the handlers.
LEMMA ReadyTyped ==
    ASSUME NEW r \in Seq(Handler)
    PROVE  \A j \in DOMAIN r : r[j].what \in {"start", "read", "write", "tick"}
<1>1. \A h \in Handler : h.what \in {"start", "read", "write", "tick"}
  BY DEF Handler
<1>2. \A j \in DOMAIN r : r[j] \in Handler
  OBVIOUS
<1> QED BY <1>1, <1>2

\* The start handler: the first read.
LEMMA GoodPopStart ==
    ASSUME NEW s, NEW w, NEW l, NEW D, Good(s, w, l, Nobody, D), NEW k \in Conns, NEW h, Front(s, h, k),
           h.what = "start", NEW u, Popping(s, u), NEW t, t = start(u, k)
    PROVE  Good(t, w, l, Nobody, D) /\ Keeps(s, t) /\ Untouched(s, t, k)
<1>0. Nobody # k
  BY ConnAssumption
<1>1. /\ h \in Handler /\ 1 \in DOMAIN s.ready /\ s.ready[1] = h /\ h.who = k
      /\ h.what # "tick" /\ ((h.what = "write" /\ k \in s.hasty) \/ s.conn[k].state = "live")
           /\ (k \in D => k \in s.hasty) /\ Says(h, l, s.hasty)
      /\ Fine(k, s.hasty, s.conn[k], s.reads, s.wire[k], s.ready, w, Nobody, D)
  BY FrontFacts
<1>2. Good(u, w, l, Nobody, D) /\ SameButReady(s, u) /\ u.ready = Tail(s.ready) /\ Later(s.ready, u.ready, 1)
  BY GoodPop DEF Front
<1>20. \A j \in DOMAIN u.ready : 1 + j \in DOMAIN s.ready /\ u.ready[j] = s.ready[1 + j] /\ 1 + j # 1 /\ ~(1 + j < 1)
  BY <1>2, AloneInFront
<1>3. u.conn = s.conn /\ u.reads = s.reads /\ u.hasty = s.hasty
  BY <1>2 DEF SameButReady, SameRest
<1>4. k \notin s.reads /\ ~s.conn[k].resume
  BY <1>1 DEF Fine, OneRead, Starts
<1>5. \A j \in DOMAIN s.ready : s.ready[j].who = k => j = 1
  BY <1>1 DEF Fine, Starts
<1>6. \A j \in DOMAIN u.ready : u.ready[j].who # k
  BY <1>5, <1>20
<1>7. NoRead(u, k)
  BY <1>3, <1>4, <1>6 DEF NoRead
<1>9. PICK v : v = start_deadline(u, k)
  OBVIOUS
<1>10. t = do_read(v, k)
  BY <1>9 DEF start
<1>11. Good(v, w, l, Nobody, D) /\ Keeps(u, v) /\ SameIO(u, v) /\ Alike(u, v)
  <2>1. u.conn[k].state = "live"
    BY <1>1, <1>3
  <2> QED BY <1>2, <1>9, <2>1, GoodStart
<1>12. /\ v.conn[k].state = "live" /\ ~v.conn[k].resume /\ NoRead(v, k) /\ Untouched(u, v, k)
       /\ (k \in D => k \in v.hasty)
  BY <1>1, <1>3, <1>4, <1>7, <1>11, AlikeUntouched DEF Alike, SameIO, NoRead, Keeps, SameRest
<1>13. Good(t, w, l, Nobody, D) /\ Keeps(v, t) /\ Untouched(v, t, k)
  BY <1>0, <1>1, <1>10, <1>11, <1>12, GoodRead
<1>14. Keeps(s, u) /\ Untouched(s, u, k)
  BY <1>2, PopKeeps
<1> QED BY <1>11, <1>12, <1>13, <1>14, KeepsTwice, UntouchedTwice

\* A read handler is taken: it runs, and if a request came k is owed an answer.
LEMMA GoodPopRead ==
    ASSUME NEW s, NEW w, NEW l, NEW D, Good(s, w, l, Nobody, D), NEW k \in Conns, NEW h, Front(s, h, k),
           h.what = "read", NEW u, Popping(s, u)
    PROVE  /\ Good(u, w, l, k, D) /\ (k \in D => k \in s.hasty) /\ h \in Handler /\ Says(h, l, s.hasty)
           /\ Asks(h) => Good(u, w, l, k, D \cup {k})
<1>1. /\ h \in Handler /\ 1 \in DOMAIN s.ready /\ s.ready[1] = h /\ h.who = k
      /\ h.what # "tick" /\ ((h.what = "write" /\ k \in s.hasty) \/ s.conn[k].state = "live")
           /\ (k \in D => k \in s.hasty) /\ Says(h, l, s.hasty)
      /\ Fine(k, s.hasty, s.conn[k], s.reads, s.wire[k], s.ready, w, Nobody, D)
  BY FrontFacts
<1>2. Good(u, w, l, Nobody, D) /\ SameButReady(s, u) /\ u.ready = Tail(s.ready) /\ Later(s.ready, u.ready, 1)
  BY GoodPop DEF Front
<1>20. \A j \in DOMAIN u.ready : 1 + j \in DOMAIN s.ready /\ u.ready[j] = s.ready[1 + j] /\ 1 + j # 1 /\ ~(1 + j < 1)
  BY <1>2, AloneInFront
<1>3. u.conn = s.conn /\ u.reads = s.reads /\ u.hasty = s.hasty /\ u.wire = s.wire
  BY <1>2 DEF SameButReady, SameRest
<1>4. k \notin s.reads /\ ~s.conn[k].resume /\ s.conn[k].reading
  BY <1>1 DEF Fine, OneRead, OneReader
<1>5. \A j \in DOMAIN s.ready : s.ready[j].who = k => j = 1 \/ s.ready[j].what = "write"
  <2>1. \A j \in DOMAIN s.ready : s.ready[j].who = k => s.ready[j].what # "tick"
    BY <1>1 DEF Fine, OneReader
  <2>2. \A j \in DOMAIN s.ready : s.ready[j].who = k /\ s.ready[j].what \in {"start", "read"} => j = 1
    BY <1>1 DEF Fine, OneReader
  <2>3. s.ready \in Seq(Handler)
    BY StateFields DEF Good
  <2>4. \A j \in DOMAIN s.ready : s.ready[j].what \in {"start", "read", "write", "tick"}
    BY <2>3, ReadyTyped
  <2> QED BY <2>1, <2>2, <2>4
<1>6. \A j \in DOMAIN u.ready : u.ready[j].who = k => u.ready[j].what = "write"
  BY <1>5, <1>20
<1>7. NoRead(u, k)
  BY <1>3, <1>4, <1>6 DEF NoRead
<1>9. Good(u, w, l, k, D)
  <2>1. u.conn[k].state = "live" /\ u.conn[k].reading /\ ~u.conn[k].resume
    BY <1>1, <1>3, <1>4
  <2> QED BY <1>2, <1>7, <2>1, GoodBusy
<1>10. ASSUME Asks(h) PROVE Good(u, w, l, k, D \cup {k})
  <2>1. k \notin s.hasty =>
          /\ s.wire[k] = <<>> /\ k \in w
          /\ \A i \in DOMAIN s.ready : s.ready[i].who = k /\ s.ready[i].what = "write" => i < 1
    BY <1>1, <1>10 DEF Fine, Asking
  <2>2. k \notin s.hasty => \A j \in DOMAIN u.ready : u.ready[j].who # k
    BY <1>6, <2>1, <1>20
  <2>4. /\ u.conn[k].state = "live"
        /\ k \notin u.hasty => k \notin u.reads /\ u.wire[k] = <<>> /\ k \in w
                               /\ \A j \in DOMAIN u.ready : u.ready[j].who # k
    BY <1>1, <1>3, <1>4, <2>1, <2>2
  <2> QED BY <1>9, <2>4, GoodOwes
<1> QED BY <1>1, <1>9, <1>10

\* The write of k is over.
NoWrite(s, k) == s.wire[k] = <<>> /\ \A j \in DOMAIN s.ready : s.ready[j].who = k => s.ready[j].what # "write"
\* What write_handler does first.
Written(s, k) == [s EXCEPT !.conn[k].writing = FALSE, !.conn[k].completed = FALSE]

\* The flags of a write that is over.
LEMMA GoodWritten ==
    ASSUME NEW s, NEW w, NEW l, NEW D, Good(s, w, l, Nobody, D), NEW k \in Conns,
           k \in s.hasty \/ NoWrite(s, k), NEW t, t = Written(s, k)
    PROVE  /\ Good(t, w, l, Nobody, D) /\ Keeps(s, t) /\ Untouched(s, t, k) /\ SameIO(s, t)
           /\ t.conn[k].reading = s.conn[k].reading /\ t.conn[k].closing = s.conn[k].closing
<1>1. s \in States /\ s.conn[k] \in ConnRecord /\ s.conn \in [Conns -> ConnRecord]
  BY StateFields DEF Good
<1>2. PICK c \in ConnRecord : c = s.conn[k]
  BY <1>1
<1>3. PICK d : d = [c EXCEPT !.writing = FALSE, !.completed = FALSE]
  OBVIOUS
<1>4. /\ d \in ConnRecord /\ d.state = c.state /\ d.open = c.open /\ d.reading = c.reading
      /\ d.key = c.key /\ d.closing = c.closing /\ d.resume = c.resume
  BY <1>3 DEF ConnRecord
<1>5. Sets(s, t, k, d)
  BY <1>1, <1>2, <1>3 DEF States, Sets, Written
<1>6. t \in States /\ Only(s, t, k, d) /\ t.q = s.q /\ SameIO(s, t) /\ SameRest(s, t)
  BY <1>1, <1>4, <1>5, SetFacts
<1>7. t.conn[k] = d /\ (\A j \in Conns : j # k => t.conn[j] = s.conn[j])
      /\ t.reads = s.reads /\ t.wire = s.wire /\ t.ready = s.ready
  BY <1>6 DEF Only, SameIO
<1>8. Owned(t)
  <2>1. OwnedLike(s, t) /\ Owned(s)
    BY <1>2, <1>4, <1>6, <1>7 DEF OwnedLike, Good
  <2> QED BY <1>1, <2>1, LikeOwned
<1>9. Sound(t, w, Nobody, D)
  <2> SUFFICES ASSUME NEW j \in Conns PROVE Fine(j, s.hasty, t.conn[j], s.reads, s.wire[j], s.ready, w, Nobody, D)
    BY <1>6, <1>7 DEF Sound, SameRest
  <2>1. Fine(j, s.hasty, s.conn[j], s.reads, s.wire[j], s.ready, w, Nobody, D)
    BY DEF Good, Sound
  <2>2. CASE j # k
    BY <1>7, <2>1, <2>2
  <2>3. CASE j = k
    <3>1. Fine(k, s.hasty, c, s.reads, s.wire[k], s.ready, w, Nobody, D)
      BY <1>2, <2>1, <2>3
    <3>2. Fine(k, s.hasty, d, s.reads, s.wire[k], s.ready, w, Nobody, D)
      BY <1>4, <3>1 DEF NoWrite, Fine, Gone, Unmade, OneRead, OneReader, Starts, OneWriter, OneWrite, Indebted, Asking
    <3> QED BY <1>7, <2>3, <3>2
  <2> QED BY <2>2, <2>3
<1>11. Told(t, l)
  BY <1>6, <1>7 DEF Good, Told, SameRest
<1>12. Keeps(s, t) /\ Untouched(s, t, k)
  BY <1>2, <1>4, <1>6, <1>7 DEF Keeps, Untouched
<1> QED BY <1>2, <1>4, <1>6, <1>7, <1>8, <1>9, <1>11, <1>12 DEF Good

\* The write handler.
LEMMA GoodPopWrite ==
    ASSUME NEW s, NEW w, NEW l, NEW D, Good(s, w, l, Nobody, D), NEW k \in Conns, NEW h, Front(s, h, k),
           h.what = "write", s.conn[k].state = "live", NEW u, Popping(s, u), NEW t, t = write_handler(u, k, h.ok)
    PROVE  Good(t, w, l, Nobody, D) /\ Loses(s, t, k) /\ (k \in D => k \in s.hasty)
<1>0. Nobody # k
  BY ConnAssumption
<1>1. /\ h \in Handler /\ 1 \in DOMAIN s.ready /\ s.ready[1] = h /\ h.who = k
      /\ h.what # "tick" /\ ((h.what = "write" /\ k \in s.hasty) \/ s.conn[k].state = "live")
           /\ (k \in D => k \in s.hasty) /\ Says(h, l, s.hasty)
      /\ Fine(k, s.hasty, s.conn[k], s.reads, s.wire[k], s.ready, w, Nobody, D)
  BY FrontFacts
<1>2. Good(u, w, l, Nobody, D) /\ SameButReady(s, u) /\ u.ready = Tail(s.ready) /\ Later(s.ready, u.ready, 1)
  BY GoodPop DEF Front
<1>20. \A j \in DOMAIN u.ready : 1 + j \in DOMAIN s.ready /\ u.ready[j] = s.ready[1 + j] /\ 1 + j # 1 /\ ~(1 + j < 1)
  BY <1>2, AloneInFront
<1>3. u.conn = s.conn /\ u.reads = s.reads /\ u.hasty = s.hasty /\ u.wire = s.wire
  BY <1>2 DEF SameButReady, SameRest
<1>4. k \notin s.hasty => s.wire[k] = <<>> /\ \A j \in DOMAIN s.ready : s.ready[j].who = k /\ s.ready[j].what = "write" => j = 1
  BY <1>1 DEF Fine, OneWriter
<1>5. k \notin s.hasty => \A j \in DOMAIN u.ready : u.ready[j].who = k => u.ready[j].what # "write"
  BY <1>4, <1>20
<1>6. PICK v : v = Written(u, k)
  OBVIOUS
<1>7. /\ Good(v, w, l, Nobody, D) /\ Keeps(u, v) /\ Untouched(u, v, k) /\ SameIO(u, v)
      /\ v.conn[k].reading = u.conn[k].reading /\ v.conn[k].closing = u.conn[k].closing
  <2>1. k \in u.hasty \/ NoWrite(u, k)
    BY <1>3, <1>4, <1>5 DEF NoWrite
  <2> QED BY <1>2, <1>6, <2>1, GoodWritten
<1>8. v.conn[k].state = "live"
  BY <1>1, <1>3, <1>7 DEF Keeps
<1>9. ~v.conn[k].reading => NoRead(v, k)
  <2>1. SUFFICES ASSUME ~s.conn[k].reading PROVE NoRead(u, k)
    BY <1>3, <1>7 DEF NoRead, SameIO
  <2>2. k \notin s.reads
    BY <1>1, <2>1 DEF Fine, OneRead
  <2>3. \A j \in DOMAIN s.ready : s.ready[j].who = k => s.ready[j].what # "tick" /\ s.ready[j].what # "read"
    BY <1>1, <2>1 DEF Fine, OneReader
  <2>4. \A j \in DOMAIN s.ready : s.ready[j].who = k => s.ready[j].what # "start"
    BY <1>1 DEF Fine, Starts
  <2>5. s.ready \in Seq(Handler)
    BY StateFields DEF Good
  <2>6. \A j \in DOMAIN s.ready : s.ready[j].what \in {"start", "read", "write", "tick"}
    BY <2>5, ReadyTyped
  <2>7. \A j \in DOMAIN s.ready : s.ready[j].who = k => s.ready[j].what = "write"
    BY <2>3, <2>4, <2>6
  <2> QED BY <1>3, <1>20, <2>2, <2>7 DEF NoRead
<1>10. Keeps(s, v) /\ Untouched(s, v, k)
  BY <1>2, <1>7, PopKeeps, KeepsTwice, UntouchedTwice
<1>11. CASE ~h.ok
  <2>1. t = check_destroy(v, k)
    BY <1>6, <1>11 DEF write_handler, Written
  <2>2. Good(t, w, l, Nobody, D) /\ Loses(v, t, k)
    BY <1>7, <1>8, <1>9, <2>1, GoodCheckDestroy
  <2> QED BY <1>1, <1>10, <2>2, KeepsLoses
<1>12. CASE h.ok /\ u.conn[k].closing
  <2>1. PICK x : x = CloseAdaptor(v, k)
    OBVIOUS
  <2>2. t = check_destroy(x, k)
    BY <1>6, <1>12, <2>1 DEF write_handler, Written
  <2>3. /\ Good(x, w, l, Nobody, D) /\ Keeps(v, x) /\ Untouched(v, x, k)
        /\ x.conn[k] = [v.conn[k] EXCEPT !.open = FALSE]
        /\ x.wire[k] = <<>> /\ k \notin x.reads
        /\ (v.wire[k] = <<>> /\ k \notin v.reads => x.ready = v.ready)
        /\ (NoRead(v, k) => NoRead(x, k))
    <3>1. v.conn[k].closing /\ Good(v, w, l, Nobody, D)
      BY <1>7, <1>12
    <3> QED BY <2>1, <3>1, GoodClose
  <2>4. x.conn[k].state = "live" /\ (~x.conn[k].reading => NoRead(x, k))
    <3>1. PICK c \in ConnRecord : c = v.conn[k]
      BY <1>7, StateFields DEF Good
    <3>2. x.conn[k] = [c EXCEPT !.open = FALSE]
      BY <2>3, <3>1
    <3>3. x.conn[k].state = c.state /\ x.conn[k].reading = c.reading
      BY <3>2 DEF ConnRecord
    <3> QED BY <1>8, <1>9, <2>3, <3>1, <3>3
  <2>5. Good(t, w, l, Nobody, D) /\ Loses(x, t, k)
    BY <2>2, <2>3, <2>4, GoodCheckDestroy
  <2> QED BY <1>1, <1>10, <2>3, <2>5, KeepsTwice, UntouchedTwice, KeepsLoses
<1>13. CASE h.ok /\ ~u.conn[k].closing
  <2>1. t = v
    BY <1>6, <1>13 DEF write_handler, Written
  <2> QED BY <1>1, <1>7, <1>10, <2>1, KeepsIsLoses
<1> QED BY <1>11, <1>12, <1>13

-----------------------------------------------------------------------------
\* What Good speaks of is the same, or more.
SameCore(s, t) ==
    /\ t.conn = s.conn /\ t.q = s.q /\ SameIO(s, t)
    /\ t.msgs \in Nat /\ t.msgs >= s.msgs /\ t.hasty = s.hasty

\* Everything stays, when messages are added and no connection changes.
LEMMA CoreGood ==
    ASSUME NEW s, NEW w, NEW l, NEW b, NEW D, Good(s, w, l, b, D), NEW t \in States, SameCore(s, t)
    PROVE  Good(t, w, l, b, D)
<1>1. /\ t.conn = s.conn /\ t.q = s.q /\ t.reads = s.reads /\ t.wire = s.wire /\ t.ready = s.ready
      /\ t.hasty = s.hasty
  BY DEF SameCore, SameIO
<1>2. Sound(t, w, b, D)
  BY <1>1 DEF Good, Sound
<1>3. Owned(t)
  BY <1>1 DEF Good, Owned
<1>5. Told(t, l)
  <2>1. t.msgs \in Nat /\ t.msgs >= s.msgs /\ s.msgs \in Nat
    BY StateFields DEF SameCore, Good
  <2>2. l \in [Conns -> Nat] /\ \A k \in Conns : l[k] <= t.msgs
    BY <2>1 DEF Good, Told
  <2>3. ASSUME NEW k \in Conns, NEW i \in DOMAIN t.wire[k], t.wire[k][i].is = "msgs"
        PROVE  (k \notin t.hasty => t.wire[k][i].from = l[k]) /\ t.wire[k][i].upto <= t.msgs
    <3>1. (k \notin s.hasty => s.wire[k][i].from = l[k]) /\ s.wire[k][i].upto <= s.msgs
      BY <1>1, <2>3 DEF Good, Told
    <3>2. s.wire \in [Conns -> Seq(Answer)] /\ i \in DOMAIN s.wire[k]
      BY <1>1, StateFields DEF Good
    <3>3. s.wire[k][i] \in Answer
      BY <3>2
    <3>4. s.wire[k][i].upto \in Nat
      BY <3>3 DEF Answer
    <3> QED BY <1>1, <2>1, <3>1, <3>4
  <2>4. \A j \in DOMAIN t.ready : Says(t.ready[j], l, t.hasty)
    BY <1>1 DEF Good, Told
  <2> QED BY <2>2, <2>3, <2>4 DEF Told
<1> QED BY <1>2, <1>3, <1>5 DEF Good

-----------------------------------------------------------------------------
\* Members of k change that say nothing of what is under way.
FlagSets(s, t, k) == \E d \in ConnRecord : SameFlags(s.conn[k], d) /\ Sets(s, t, k, d)

\* A step for k.
Steps(s, t, k) == Keeps(s, t) /\ Untouched(s, t, k)

\* It does not close its socket.
StillOpen(s, t, k) == s.conn[k].open => t.conn[k].open

\* Two steps for k.
LEMMA StepsTwice ==
    ASSUME NEW s, NEW t, NEW u, NEW k, Steps(s, t, k), Steps(t, u, k)
    PROVE  Steps(s, u, k)
BY KeepsTwice, UntouchedTwice DEF Steps

\* A step that sets such flags.
LEMMA GoodFlagSet ==
    ASSUME NEW s, NEW w, NEW l, NEW b, NEW D, Good(s, w, l, b, D), NEW k \in Conns,
           NEW t, FlagSets(s, t, k)
    PROVE  Good(t, w, l, b, D) /\ Steps(s, t, k) /\ StillOpen(s, t, k)
<1>1. PICK d \in ConnRecord : SameFlags(s.conn[k], d) /\ Sets(s, t, k, d)
  BY DEF FlagSets
<1>2. Good(t, w, l, b, D) /\ Steps(s, t, k) /\ t.conn[k] = d
  BY <1>1, GoodSet DEF Steps
<1> QED BY <1>1, <1>2 DEF SameFlags, StillOpen

\* Those of the code that do.
LEMMA SetsAre ==
    ASSUME NEW s \in States, NEW k \in Conns, NEW x \in BOOLEAN
    PROVE  /\ FlagSets(s, Assigned(s, k), k)
           /\ FlagSets(s, [s EXCEPT !.conn[k].closing = TRUE], k)
           /\ FlagSets(s, [s EXCEPT !.conn[k].closing = @ \/ x], k)
           /\ FlagSets(s, [s EXCEPT !.conn[k].after = FALSE], k)
           /\ FlagSets(s, [s EXCEPT !.conn[k].onEnd = "noop"], k)
           /\ FlagSets(s, [s EXCEPT !.conn[k].onEnd = "complete", !.conn[k].after = TRUE], k)
<1>1. PICK c \in ConnRecord : c = s.conn[k]
  BY StateFields
<1>2. s.conn \in [Conns -> ConnRecord]
  BY StateFields
<1>3. FlagSets(s, Assigned(s, k), k)
  <2>1. PICK d : d = [c EXCEPT !.completed = FALSE]
    OBVIOUS
  <2>2. d \in ConnRecord /\ SameFlags(c, d)
    BY <2>1 DEF ConnRecord, SameFlags
  <2>3. Sets(s, Assigned(s, k), k, d)
    BY <1>1, <1>2, <2>1 DEF Sets, Assigned, States
  <2> QED BY <1>1, <2>2, <2>3 DEF FlagSets
<1>4. FlagSets(s, [s EXCEPT !.conn[k].closing = TRUE], k)
  <2>1. PICK d : d = [c EXCEPT !.closing = TRUE]
    OBVIOUS
  <2>2. d \in ConnRecord /\ SameFlags(c, d)
    BY <2>1 DEF ConnRecord, SameFlags
  <2>3. Sets(s, [s EXCEPT !.conn[k].closing = TRUE], k, d)
    BY <1>1, <1>2, <2>1 DEF Sets, States
  <2> QED BY <1>1, <2>2, <2>3 DEF FlagSets
<1>5. FlagSets(s, [s EXCEPT !.conn[k].closing = @ \/ x], k)
  <2>0. PICK y \in BOOLEAN : y = (c.closing \/ x) /\ (c.closing => y)
    OBVIOUS
  <2>1. PICK d : d = [c EXCEPT !.closing = y]
    OBVIOUS
  <2>2. d \in ConnRecord /\ SameFlags(c, d)
    BY <2>0, <2>1 DEF ConnRecord, SameFlags
  <2>3. Sets(s, [s EXCEPT !.conn[k].closing = y], k, d)
    BY <1>1, <1>2, <2>1 DEF Sets, States
  <2>4. [s EXCEPT !.conn[k].closing = @ \/ x] = [s EXCEPT !.conn[k].closing = y]
    BY <1>1, <1>2, <2>0 DEF States
  <2> QED BY <1>1, <2>2, <2>3, <2>4 DEF FlagSets
<1>6. FlagSets(s, [s EXCEPT !.conn[k].after = FALSE], k)
  <2>1. PICK d : d = [c EXCEPT !.after = FALSE]
    OBVIOUS
  <2>2. d \in ConnRecord /\ SameFlags(c, d)
    BY <2>1 DEF ConnRecord, SameFlags
  <2>3. Sets(s, [s EXCEPT !.conn[k].after = FALSE], k, d)
    BY <1>1, <1>2, <2>1 DEF Sets, States
  <2> QED BY <1>1, <2>2, <2>3 DEF FlagSets
<1>7. FlagSets(s, [s EXCEPT !.conn[k].onEnd = "noop"], k)
  <2>1. PICK d : d = [c EXCEPT !.onEnd = "noop"]
    OBVIOUS
  <2>2. d \in ConnRecord /\ SameFlags(c, d)
    BY <2>1 DEF ConnRecord, SameFlags
  <2>3. Sets(s, [s EXCEPT !.conn[k].onEnd = "noop"], k, d)
    BY <1>1, <1>2, <2>1 DEF Sets, States
  <2> QED BY <1>1, <2>2, <2>3 DEF FlagSets
<1>8. FlagSets(s, [s EXCEPT !.conn[k].onEnd = "complete", !.conn[k].after = TRUE], k)
  <2>1. PICK d : d = [c EXCEPT !.onEnd = "complete", !.after = TRUE]
    OBVIOUS
  <2>2. d \in ConnRecord /\ SameFlags(c, d)
    BY <2>1 DEF ConnRecord, SameFlags
  <2>3. Sets(s, [s EXCEPT !.conn[k].onEnd = "complete", !.conn[k].after = TRUE], k, d)
    BY <1>1, <1>2, <2>1 DEF Sets, States
  <2> QED BY <1>1, <2>2, <2>3 DEF FlagSets
<1> QED BY <1>3, <1>4, <1>5, <1>6, <1>7, <1>8

-----------------------------------------------------------------------------
\* The handler of a request.
LEMMA GoodToHandle ==
    ASSUME NEW s, NEW w, NEW l, NEW b, NEW D, Good(s, w, l, b, D), NEW k \in Conns, NEW r \in Request,
           NEW t, t = ToHandle(s, k, r)
    PROVE  Good(t, w, l, b, D) /\ Steps(s, t, k) /\ StillOpen(s, t, k)
<1>1. PICK u : u = cancel_deadline_timer(s, k)
  OBVIOUS
<1>2. Good(u, w, l, b, D) /\ Keeps(s, u) /\ SameIO(s, u) /\ Alike(s, u)
  BY <1>1, GoodCancel
<1>3. PICK x \in BOOLEAN : x = r.close
  BY DEF Request
<1>4. FlagSets(u, t, k)
  <2>1. t = [u EXCEPT !.conn[k].closing = @ \/ x]
    BY <1>1, <1>3 DEF ToHandle
  <2>2. u \in States
    BY <1>2 DEF Good
  <2> QED BY <2>1, <2>2, SetsAre
<1>5. Good(t, w, l, b, D) /\ Steps(u, t, k) /\ StillOpen(u, t, k)
  BY <1>2, <1>4, GoodFlagSet
<1>6. Steps(s, u, k) /\ StillOpen(s, u, k)
  BY <1>2, AlikeUntouched DEF Steps, Alike, StillOpen
<1> QED BY <1>5, <1>6, StepsTwice DEF StillOpen

\* An answer without messages suits every client.
LEMMA PlainSuits ==
    ASSUME NEW is \in {"200", "404", "400", "again", "continue", "empty"}, NEW k, NEW s, NEW l
    PROVE  Suits(Plain(is), k, s, l)
<1>1. Plain(is) \in Answer /\ Plain(is).is = is
  BY DEF Plain, Answer
<1>2. is # "msgs"
  OBVIOUS
<1> QED BY <1>1, <1>2 DEF Suits

\* What a step for k leaves alone.
LEMMA StepsFacts ==
    ASSUME NEW s, NEW t, NEW k \in Conns, Steps(s, t, k)
    PROVE  SameRest(s, t) /\ t.conn[k].state = s.conn[k].state
BY DEF Steps, Keeps

\* One that is assigned and ended.
LEMMA GoodAssignedEnd ==
    ASSUME NEW s, NEW w, NEW l, NEW b, NEW D, Good(s, w, l, b, D), NEW k \in Conns, k \in D \/ k \in s.hasty,
           s.conn[k].state = "live", NEW is \in {"200", "404", "400", "again", "continue", "empty"},
           NEW t, t = end(Assigned(s, k), k, Plain(is))
    PROVE  Good(t, w, l, b, D \ {k}) /\ Steps(s, t, k)
<1>1. PICK u : u = Assigned(s, k)
  OBVIOUS
<1>2. FlagSets(s, u, k)
  <2>1. s \in States
    BY DEF Good
  <2> QED BY <1>1, <2>1, SetsAre
<1>3. Good(u, w, l, b, D) /\ Steps(s, u, k)
  BY <1>2, GoodFlagSet
<1>4. u.conn[k].state = "live" /\ (k \in D \/ k \in u.hasty)
  BY <1>3, StepsFacts DEF SameRest
<1>5. PICK a : a = Plain(is) /\ Suits(a, k, u, l)
  BY PlainSuits
<1>6. t = end(u, k, a)
  BY <1>1, <1>5
<1>7. Good(t, w, l, b, D \ {k}) /\ Steps(u, t, k)
  BY <1>3, <1>4, <1>5, <1>6, GoodEnd DEF Steps
<1> QED BY <1>3, <1>7, StepsTwice

\* The handler of k enters a loop over ress.
Entered(s, t, k, what) ==
    /\ t.loop = [doing |-> what, by |-> k, left |-> s.held, kept |-> <<>>]
    /\ t.held = s.held /\ t.rest = s.rest /\ t.hasty = s.hasty
    /\ what = "poll" => t.msgs = s.msgs /\ t.conn[k].after /\ StillOpen(s, t, k)
    /\ what = "send" => t.msgs = s.msgs + 1
    /\ \A j \in Conns : /\ t.conn[j].state = s.conn[j].state
                        /\ s.conn[j].closing => t.conn[j].closing

\* A route enters a loop over ress.
LEMMA GoodEnter ==
    ASSUME NEW s, NEW w, NEW l, NEW b, NEW D, Good(s, w, l, b, D), NEW k \in Conns, NEW v \in States, SameCore(s, v),
           v.held = s.held, v.rest = s.rest,
           NEW what \in {"poll", "send"}, what = "poll" => v.msgs = s.msgs /\ s.conn[k].after,
           what = "send" => v.msgs = s.msgs + 1,
           NEW t, t = EnterLoop(v, what, k)
    PROVE  Good(t, w, l, b, D) /\ Entered(s, t, k, what)
<1>1. PICK x \in Loop : x = [doing |-> what, by |-> k, left |-> v.held, kept |-> <<>>]
  <2>1. v.held \in Seq(Conns) /\ <<>> \in Seq(Conns)
    BY StateFields
  <2> QED BY <2>1 DEF Loop
<1>2. t = [v EXCEPT !.loop = x]
  BY <1>1 DEF EnterLoop
<1>3. /\ t \in States /\ t.conn = v.conn /\ t.q = v.q /\ SameIO(v, t) /\ t.msgs = v.msgs /\ t.held = v.held
      /\ t.rest = v.rest /\ t.hasty = v.hasty /\ t.loop = x
  BY <1>2 DEF States, SameIO
<1>4. SameCore(s, t)
  BY <1>3 DEF SameCore, SameIO
<1>5. Good(t, w, l, b, D)
  BY <1>3, <1>4, CoreGood
<1>6. t.conn = s.conn
  BY <1>4 DEF SameCore
<1>8. t.hasty = s.hasty
  BY <1>4 DEF SameCore
<1>7. Entered(s, t, k, what)
  BY <1>1, <1>3, <1>6, <1>8 DEF Entered, StillOpen
<1> QED BY <1>5, <1>7

\* A step for k and then entering a loop.
LEMMA EnteredAfter ==
    ASSUME NEW s, NEW u, NEW t, NEW k, NEW what, Steps(s, u, k), StillOpen(s, u, k), Entered(u, t, k, what)
    PROVE  Entered(s, t, k, what)
BY DEF Steps, Keeps, SameRest, Entered, StillOpen

\* What comes of a request: the answer is on its way, or the thread is in a loop.
Handled(s, t, w, l, k, D) ==
    \/ Good(t, w, l, k, D \ {k}) /\ Steps(s, t, k)
    \/ Good(t, w, l, k, D) /\ Entered(s, t, k, "poll") /\ (k \notin s.hasty => l[k] = s.msgs)
    \/ Good(t, w, l, k, D) /\ Entered(s, t, k, "send")

\* A step for k and then the route.
LEMMA HandledAfter ==
    ASSUME NEW s, NEW u, NEW t, NEW w, NEW l, NEW k, NEW D, Steps(s, u, k), StillOpen(s, u, k), Handled(u, t, w, l, k, D)
    PROVE  Handled(s, t, w, l, k, D)
<1>1. u.msgs = s.msgs /\ u.hasty = s.hasty
  BY DEF Steps, Keeps, SameRest
<1> QED BY <1>1, StepsTwice, EnteredAfter DEF Handled

\* The routes: k is answered or enters a loop.
LEMMA GoodRouted ==
    ASSUME NEW s, NEW w, NEW l, NEW k \in Conns, NEW D, Good(s, w, l, k, D), k \in D \/ k \in s.hasty,
           s.conn[k].after,
           NEW r \in Request, r.route \in {"get", "poll", "send"}, k \notin s.hasty => r.last = l[k],
           NEW t, t = Routed(s, k, r)
    PROVE  Handled(s, t, w, l, k, D)
<1>0. s.conn[k].state = "live"
  BY BusyFacts
<1>1. s \in States /\ s.msgs \in Nat /\ r.last \in Nat
  BY StateFields DEF Good, Request
<1>2. CASE r.route = "get"
  <2>1. t = end(Assigned(s, k), k, Plain("200"))
    BY <1>2 DEF Routed
  <2>2. Good(t, w, l, k, D \ {k}) /\ Steps(s, t, k)
    BY <1>0, <2>1, GoodAssignedEnd
  <2> QED BY <2>2 DEF Handled
<1>3. CASE r.route = "poll" /\ r.last < s.msgs
  <2>1. PICK a : a = Messages(r.last, s.msgs)
    OBVIOUS
  <2>2. Suits(a, k, s, l)
    <3>1. a \in Answer /\ (k \notin s.hasty => a.from = l[k]) /\ a.upto <= s.msgs
      BY <1>1, <2>1 DEF Messages, Answer
    <3> QED BY <3>1 DEF Suits
  <2>3. t = end(s, k, a)
    BY <1>1, <1>3, <2>1 DEF Routed
  <2>4. Good(t, w, l, k, D \ {k}) /\ Keeps(s, t) /\ Untouched(s, t, k)
    BY <1>0, <2>2, <2>3, GoodEnd
  <2> QED BY <2>4 DEF Handled, Steps
<1>4. CASE r.route = "poll" /\ r.last >= s.msgs
  <2>1. t = EnterLoop(s, "poll", k)
    BY <1>1, <1>4 DEF Routed
  <2>2. k \notin s.hasty => l[k] = s.msgs
    <3>1. l[k] <= s.msgs /\ l[k] \in Nat
      BY DEF Good, Told
    <3> QED BY <1>1, <1>4, <3>1
  <2>3. SameCore(s, s)
    BY <1>1 DEF SameCore, SameIO
  <2>4. Good(t, w, l, k, D) /\ Entered(s, t, k, "poll")
    BY <1>1, <2>1, <2>3, GoodEnter
  <2> QED BY <2>2, <2>4 DEF Handled
<1>5. CASE r.route = "send"
  <2>1. PICK m \in Nat : m = s.msgs + 1
    BY <1>1
  <2>2. PICK v : v = [s EXCEPT !.msgs = m]
    OBVIOUS
  <2>3. t = EnterLoop(v, "send", k)
    BY <1>5, <2>1, <2>2 DEF Routed
  <2>4. v \in States /\ SameCore(s, v) /\ v.held = s.held /\ v.rest = s.rest /\ v.msgs = s.msgs + 1
    <3>1. /\ v \in States /\ v.conn = s.conn /\ v.q = s.q /\ SameIO(s, v) /\ v.msgs = m /\ v.hasty = s.hasty
          /\ v.held = s.held /\ v.rest = s.rest
      BY <1>1, <2>2 DEF States, SameIO
    <3>2. m >= s.msgs
      BY <1>1, <2>1
    <3> QED BY <2>1, <3>1, <3>2 DEF SameCore
  <2>5. Good(t, w, l, k, D) /\ Entered(s, t, k, "send")
    BY <2>3, <2>4, GoodEnter
  <2> QED BY <2>5 DEF Handled
<1> QED BY <1>1, <1>2, <1>3, <1>4, <1>5

\* Route, which sends a response that was complete before.
LEMMA GoodRoute ==
    ASSUME NEW s, NEW w, NEW l, NEW k \in Conns, NEW D, Good(s, w, l, k, D), k \in D \/ k \in s.hasty,
           NEW r \in Request, r.route \in {"get", "poll", "send"}, k \notin s.hasty => r.last = l[k],
           NEW t, t = Route(s, k, r)
    PROVE  Handled(s, t, w, l, k, D)
<1>0. s.conn[k].state = "live" /\ s \in States /\ s.conn[k] \in ConnRecord /\ s.conn \in [Conns -> ConnRecord]
  BY BusyFacts, StateFields DEF Good
<1>1. PICK u : u = [s EXCEPT !.conn[k].onEnd = "noop"]
  OBVIOUS
<1>2. FlagSets(s, u, k)
  BY <1>0, <1>1, SetsAre
<1>3. Good(u, w, l, k, D) /\ Steps(s, u, k) /\ StillOpen(s, u, k)
  BY <1>2, GoodFlagSet
<1>4. u.conn[k].state = "live" /\ u \in States /\ u.hasty = s.hasty
  BY <1>0, <1>3, StepsFacts DEF Good, SameRest
<1>5. CASE s.conn[k].completed
  <2>1. PICK a : a = Plain("again") /\ Suits(a, k, u, l)
    BY PlainSuits
  <2>2. t = complete_request(u, k, a)
    BY <1>1, <1>5, <2>1 DEF Route
  <2>3. Good(t, w, l, k, D \ {k}) /\ Steps(u, t, k)
    BY <1>3, <1>4, <2>1, <2>2, GoodComplete DEF Steps
  <2> QED BY <1>3, <2>3, StepsTwice DEF Handled
<1>6. CASE ~s.conn[k].completed
  <2>1. PICK v : v = [u EXCEPT !.conn[k].onEnd = "complete", !.conn[k].after = TRUE]
    OBVIOUS
  <2>2. t = Routed(v, k, r)
    BY <1>1, <1>6, <2>1 DEF Route
  <2>3. FlagSets(u, v, k)
    BY <1>4, <2>1, SetsAre
  <2>4. Good(v, w, l, k, D) /\ Steps(u, v, k) /\ StillOpen(u, v, k) /\ v.hasty = s.hasty
    BY <1>3, <1>4, <2>3, GoodFlagSet, StepsFacts DEF SameRest
  <2>5. v.conn[k].after
    <3>1. u.conn \in [Conns -> ConnRecord]
      BY <1>4, StateFields
    <3>2. v.conn = [u.conn EXCEPT ![k] = [u.conn[k] EXCEPT !.onEnd = "complete", !.after = TRUE]]
      BY <1>4, <2>1, <3>1 DEF States
    <3>3. v.conn[k] = [u.conn[k] EXCEPT !.onEnd = "complete", !.after = TRUE]
      BY <3>1, <3>2
    <3>4. u.conn[k] \in ConnRecord
      BY <3>1
    <3> QED BY <3>3, <3>4 DEF ConnRecord
  <2>6. Handled(v, t, w, l, k, D)
    BY <2>2, <2>4, <2>5, GoodRouted
  <2>7. StillOpen(s, v, k) /\ Steps(s, v, k)
    BY <1>3, <2>4, StepsTwice DEF StillOpen
  <2> QED BY <2>6, <2>7, HandledAfter
<1> QED BY <1>5, <1>6

\* What the parser calls, for what is not a part of a request.
LEMMA GoodParsed ==
    ASSUME NEW s, NEW w, NEW l, NEW k \in Conns, NEW D, Good(s, w, l, k, D), k \in D \/ k \in s.hasty,
           NEW r \in Request, r.route \notin {"part", "garbage"}, k \notin s.hasty => r.last = l[k],
           NEW t, t = Parsed(s, k, r)
    PROVE  Handled(s, t, w, l, k, D) /\ (r.route \notin Logged => Steps(s, t, k))
<1>0. s.conn[k].state = "live" /\ s \in States
  BY BusyFacts DEF Good
<1>1. r.route \in {"get", "poll", "send", "upgrade", "nohost", "expect"}
  BY DEF Request, Routes
<1>2. CASE r.route = "expect"
  <2>1. PICK a : a = Plain("continue") /\ Suits(a, k, s, l)
    BY PlainSuits
  <2>2. t = do_write(s, k, a)
    BY <1>2, <2>1 DEF Parsed
  <2>3. Good(t, w, l, k, D \ {k}) /\ Keeps(s, t) /\ Untouched(s, t, k) /\ Sent(s, t, k)
    BY <1>0, <2>1, <2>2, GoodWrite
  <2> QED BY <2>3 DEF Handled, Steps
<1>3. CASE r.route # "expect"
  <2>0. t = handle(s, k, r)
    BY <1>1, <1>3 DEF Parsed
  <2>1. PICK x : x = ToHandle(s, k, r)
    OBVIOUS
  <2>2. Good(x, w, l, k, D) /\ Steps(s, x, k) /\ StillOpen(s, x, k) /\ x.hasty = s.hasty
    BY <2>1, GoodToHandle, StepsFacts DEF SameRest
  <2>3. PICK u : u = [x EXCEPT !.conn[k].after = FALSE]
    OBVIOUS
  <2>4. x \in States
    BY <2>2 DEF Good
  <2>5. FlagSets(x, u, k)
    BY <2>3, <2>4, SetsAre
  <2>6. Good(u, w, l, k, D) /\ Steps(x, u, k) /\ StillOpen(x, u, k) /\ u.hasty = s.hasty
    BY <2>2, <2>5, GoodFlagSet, StepsFacts DEF SameRest
  <2>7. Steps(s, u, k) /\ StillOpen(s, u, k) /\ u \in States /\ u.conn[k].state = "live" /\ x.conn[k].state = "live"
    BY <1>0, <2>2, <2>6, StepsTwice, StepsFacts DEF Good, StillOpen
  <2>8. CASE r.route = "upgrade"
    <3>1. PICK v : v = [x EXCEPT !.conn[k].closing = TRUE]
      OBVIOUS
    <3>2. FlagSets(x, v, k)
      BY <2>4, <3>1, SetsAre
    <3>3. Good(v, w, l, k, D) /\ Steps(x, v, k)
      BY <2>2, <3>2, GoodFlagSet
    <3>4. v.conn[k].state = "live" /\ v.hasty = s.hasty
      BY <2>2, <2>7, <3>3, StepsFacts DEF SameRest
    <3>5. t = end(Assigned(v, k), k, Plain("404"))
      BY <2>0, <2>1, <2>8, <3>1 DEF handle, Upgraded
    <3>6. Good(t, w, l, k, D \ {k}) /\ Steps(v, t, k)
      BY <3>3, <3>4, <3>5, GoodAssignedEnd
    <3> QED BY <2>2, <3>3, <3>6, StepsTwice DEF Handled
  <2>9. CASE r.route = "nohost"
    <3>1. PICK v : v = Assigned(u, k)
      OBVIOUS
    <3>2. FlagSets(u, v, k)
      BY <2>7, <3>1, SetsAre
    <3>3. Good(v, w, l, k, D) /\ Steps(u, v, k)
      BY <2>6, <3>2, GoodFlagSet
    <3>4. v.conn[k].state = "live" /\ v.hasty = s.hasty
      BY <2>6, <2>7, <3>3, StepsFacts DEF SameRest
    <3>5. PICK a : a = Plain("400") /\ Suits(a, k, v, l)
      BY PlainSuits
    <3>6. t = complete_request(v, k, a)
      BY <2>0, <2>1, <2>3, <2>9, <3>1, <3>5 DEF handle
    <3>7. Good(t, w, l, k, D \ {k}) /\ Steps(v, t, k)
      BY <3>3, <3>4, <3>5, <3>6, GoodComplete DEF Steps
    <3> QED BY <2>7, <2>9, <3>3, <3>7, StepsTwice DEF Handled, Logged
  <2>10. CASE r.route \in {"get", "poll", "send"}
    <3>1. t = Route(u, k, r)
      BY <2>0, <2>1, <2>3, <2>10 DEF handle
    <3>3. Handled(u, t, w, l, k, D)
      BY <2>6, <2>10, <3>1, GoodRoute
    <3>4. r.route \in Logged
      BY <2>10 DEF Logged
    <3> QED BY <2>7, <3>3, <3>4, HandledAfter
  <2> QED BY <1>1, <1>3, <2>8, <2>9, <2>10
<1> QED BY <1>2, <1>3

-----------------------------------------------------------------------------
\* A step that leaves ress, the messages and the loop as they are.
Carries(s, t) ==
    /\ t.held = s.held /\ t.msgs = s.msgs /\ t.loop = s.loop
    /\ t.rest = s.rest /\ s.hasty \subseteq t.hasty
    /\ \A j \in Conns : s.conn[j].closing => t.conn[j].closing
    /\ \A j \in Conns : j \in Debts(s) /\ t.conn[j].state = "live" => s.conn[j].state = "live"
    /\ \A j \in Elems(s.held) : s.conn[j].state = "live" =>
            t.conn[j].state = "live" \/ t.conn[j].closing \/ j \in t.hasty
    /\ s.loop.doing = "poll" /\ s.loop.by \notin t.hasty =>
            (s.conn[s.loop.by].after => t.conn[s.loop.by].after) /\ StillOpen(s, t, s.loop.by)

\* The members of a sequence are in its range.
LEMMA ElemsIn ==
    ASSUME NEW T, NEW seq \in Seq(T)
    PROVE  Elems(seq) \subseteq T /\ \A i \in DOMAIN seq : seq[i] \in Elems(seq) /\ seq[i] \in T
BY DEF Elems

\* The loop and ress hold connections.
LEMMA DebtsIn ==
    ASSUME NEW s \in States
    PROVE  /\ s.loop.by \in Conns \cup {Nobody} /\ s.loop.doing \in {"nothing", "send", "poll", "tick", "feed"}
           /\ s.loop.left \in Seq(Conns) /\ s.loop.kept \in Seq(Conns)
           /\ Elems(s.held) \subseteq Conns /\ Elems(s.loop.left) \subseteq Conns /\ Elems(s.loop.kept) \subseteq Conns
<1>1. /\ s.loop.by \in Conns \cup {Nobody} /\ s.loop.doing \in {"nothing", "send", "poll", "tick", "feed"}
      /\ s.loop.left \in Seq(Conns) /\ s.loop.kept \in Seq(Conns) /\ s.held \in Seq(Conns)
  BY StateFields DEF Loop
<1> QED BY <1>1, ElemsIn

\* An answer is owed to connections.
LEMMA DebtsInConns ==
    ASSUME NEW s \in States, LoopOK(s)
    PROVE  Debts(s) \subseteq Conns
<1>1. /\ s.loop.doing \in {"nothing", "send", "poll", "tick", "feed"}
      /\ Elems(s.held) \subseteq Conns /\ Elems(s.loop.left) \subseteq Conns /\ Elems(s.loop.kept) \subseteq Conns
  BY DebtsIn
<1>2. s.loop.doing \in {"send", "poll"} => s.loop.by \in Conns
  BY DEF LoopOK
<1>3. CASE s.loop.doing = "send"
  <2>1. Debts(s) = Elems(s.loop.left) \cup {s.loop.by}
    BY <1>3 DEF Debts
  <2> QED BY <1>1, <1>2, <1>3, <2>1
<1>4. CASE s.loop.doing = "poll"
  <2>1. Debts(s) = Elems(s.loop.left) \cup Elems(s.loop.kept) \cup {s.loop.by}
    BY <1>4 DEF Debts
  <2> QED BY <1>1, <1>2, <1>4, <2>1
<1>5. CASE s.loop.doing \notin {"send", "poll"}
  <2>1. Debts(s) = Elems(s.held)
    BY <1>5 DEF Debts
  <2> QED BY <1>1, <2>1
<1> QED BY <1>3, <1>4, <1>5

\* The invariant holds after a step that carries over the loop and ress.
LEMMA CICarries ==
    ASSUME NEW s, NEW w, NEW l, CI(s, w, l), NEW t, NEW v, NEW m, Carries(s, t),
           Good(t, v, m, Busy(s), Debts(s)), \A k \in Debts(s) \ t.hasty : m[k] = l[k]
    PROVE  CI(t, v, m)
<1>1. /\ t.held = s.held /\ t.msgs = s.msgs /\ t.loop = s.loop /\ t.rest = s.rest /\ s.hasty \subseteq t.hasty
  BY DEF Carries
<1>2. Busy(t) = Busy(s) /\ Debts(t) = Debts(s)
  BY <1>1 DEF Busy, Debts
<1>3. LoopOK(t)
  <2>1. LoopOK(s)
    BY DEF CI
  <2>2. s.loop.doing = "poll" /\ s.loop.by \notin t.hasty => t.conn[s.loop.by].after /\ t.conn[s.loop.by].open
    BY <1>1, <2>1 DEF LoopOK, Carries, StillOpen
  <2>3. Distinct(t.held, t.hasty) /\ Distinct(t.loop.left, t.hasty) /\ Distinct(t.loop.kept, t.hasty)
    BY <1>1, <2>1 DEF LoopOK, Distinct
  <2>4. /\ s.loop.doing = "feed" => s.loop.by \in t.hasty /\ s.rest # <<>>
        /\ s.loop.doing \in {"nothing", "tick"} => s.loop.by = Nobody /\ s.rest = <<>>
        /\ s.loop.doing \in {"nothing", "tick", "feed"} => s.loop.left = <<>> /\ s.loop.kept = <<>>
    BY <1>1, <2>1 DEF LoopOK
  <2>5. /\ s.loop.doing = "send" => s.msgs > 0
        /\ s.loop.doing \in {"send", "poll"} =>
            /\ s.loop.by \in Conns
            /\ s.loop.by \notin t.hasty => s.loop.by \notin Elems(s.held) /\ s.rest = <<>>
            /\ Elems(s.loop.left) \cup Elems(s.loop.kept) \subseteq Elems(s.held)
            /\ Elems(s.loop.left) \cap Elems(s.loop.kept) \subseteq t.hasty
    BY <1>1, <2>1 DEF LoopOK
  <2> QED BY <1>1, <2>2, <2>3, <2>4, <2>5 DEF LoopOK
<1>4. Debts(s) \subseteq Conns
  BY DebtsInConns DEF CI, Good
<1>5. UpToDate(t, m)
  <2> SUFFICES ASSUME NEW k \in Debts(s), k \notin t.hasty, t.conn[k].state = "live"
               PROVE  CASE s.loop.doing = "send" -> k # s.loop.by => l[k] = s.msgs - 1
                        [] OTHER -> l[k] = s.msgs
    BY <1>1, <1>2 DEF UpToDate
  <2>1. s.conn[k].state = "live"
    BY <1>4 DEF Carries
  <2> QED BY <1>1, <2>1 DEF CI, UpToDate
<1>6. Caused(t)
  <2> SUFFICES ASSUME NEW i \in DOMAIN s.held, NEW k, k = s.held[i]
               PROVE  t.conn[k].state = "live" \/ t.conn[k].closing \/ k \in t.hasty
    BY <1>1 DEF Caused
  <2>0. s.held \in Seq(Conns)
    BY StateFields DEF CI, Good
  <2>1. k \in Elems(s.held) /\ k \in Conns
    BY <2>0, ElemsIn
  <2>2. s.conn[k].state = "live" \/ s.conn[k].closing \/ k \in s.hasty
    BY DEF CI, Caused
  <2> QED BY <1>1, <2>1, <2>2 DEF Carries
<1> QED BY <1>2, <1>3, <1>5, <1>6 DEF CI

\* The thread is between two handlers.
LEMMA IdleFacts ==
    ASSUME NEW s, NEW w, NEW l, CI(s, w, l), s.loop.doing \in {"nothing", "tick"}
    PROVE  /\ Busy(s) = Nobody /\ Debts(s) = Elems(s.held) /\ Good(s, w, l, Nobody, Elems(s.held))
           /\ s.loop.left = <<>> /\ s.loop.kept = <<>> /\ Elems(s.held) \subseteq Conns /\ s.rest = <<>>
<1>1. Busy(s) = Nobody /\ s.loop.left = <<>> /\ s.loop.kept = <<>> /\ s.rest = <<>>
  BY DEF CI, LoopOK, Busy
<1>2. Debts(s) = Elems(s.held)
  BY DEF Debts
<1>3. Elems(s.held) \subseteq Conns
  BY DebtsIn DEF CI, Good
<1> QED BY <1>1, <1>2, <1>3 DEF CI

\* It runs one that may delete k, whose response is not kept if it waits for its answers.
LEMMA CILoses ==
    ASSUME NEW s, NEW w, NEW l, CI(s, w, l), s.loop.doing \in {"nothing", "tick"},
           NEW t, NEW k \in Conns, Good(t, w, l, Nobody, Elems(s.held)), Loses(s, t, k),
           k \in Elems(s.held) => k \in s.hasty
    PROVE  CI(t, w, l)
<1>1. /\ Busy(s) = Nobody /\ Debts(s) = Elems(s.held) /\ Elems(s.held) \subseteq Conns
  BY IdleFacts
<1>2. Carries(s, t)
  <2>1. t.held = s.held /\ t.msgs = s.msgs /\ t.loop = s.loop /\ t.rest = s.rest /\ t.hasty = s.hasty
    BY DEF Loses, SameRest
  <2>2. \A j \in Conns : s.conn[j].closing => t.conn[j].closing
    BY DEF Loses
  <2>3. \A j \in Elems(s.held) : t.conn[j].state = s.conn[j].state \/ j \in s.hasty
    BY <1>1 DEF Loses
  <2>4. \A j \in Conns : t.conn[j].state = "live" => s.conn[j].state = "live"
    BY DEF Loses
  <2> QED BY <1>1, <2>1, <2>2, <2>3, <2>4 DEF Carries
<1> QED BY <1>1, <1>2, CICarries

-----------------------------------------------------------------------------
\* Run, by the kind of the handler in front.
LEMMA RunStart ==
    ASSUME NEW s, NEW w, NEW l, CI(s, w, l), s.loop.doing = "nothing", NEW k \in Conns, NEW h, Front(s, h, k),
           h.what = "start", NEW u, Popping(s, u), NEW t, t = start(u, k)
    PROVE  CI(t, w, l)
<1>1. Good(s, w, l, Nobody, Elems(s.held))
  BY IdleFacts
<1>2. Good(t, w, l, Nobody, Elems(s.held)) /\ Keeps(s, t) /\ Untouched(s, t, k)
  BY <1>1, GoodPopStart
<1>3. k \in Elems(s.held) => k \in s.hasty
  BY <1>1, FrontFacts
<1> QED BY <1>2, <1>3, KeepsIsLoses, CILoses

\* Run, a write handler of a connection that exists.
LEMMA RunWrite ==
    ASSUME NEW s, NEW w, NEW l, CI(s, w, l), s.loop.doing = "nothing", NEW k \in Conns, NEW h, Front(s, h, k),
           h.what = "write", s.conn[k].state = "live", NEW u, Popping(s, u), NEW t, t = write_handler(u, k, h.ok)
    PROVE  CI(t, w, l)
<1>1. Good(s, w, l, Nobody, Elems(s.held))
  BY IdleFacts
<1>2. Good(t, w, l, Nobody, Elems(s.held)) /\ Loses(s, t, k) /\ (k \in Elems(s.held) => k \in s.hasty)
  BY <1>1, GoodPopWrite
<1> QED BY <1>2, CILoses

\* Of one that does not.
LEMMA RunDangling ==
    ASSUME NEW s, NEW w, NEW l, CI(s, w, l), s.loop.doing = "nothing", s.ready # <<>>, NEW u, Popping(s, u),
           NEW t, t = [u EXCEPT !.broken = TRUE]
    PROVE  CI(t, w, l)
<1>1. Good(s, w, l, Nobody, Elems(s.held)) /\ Busy(s) = Nobody /\ Debts(s) = Elems(s.held)
      /\ Elems(s.held) \subseteq Conns
  BY IdleFacts
<1>2. Good(u, w, l, Nobody, Elems(s.held)) /\ SameButReady(s, u)
  BY <1>1, GoodPop
<1>3. u \in States /\ u.msgs \in Nat
  BY <1>2, StateFields DEF Good
<1>4. /\ t \in States /\ t.conn = u.conn /\ t.q = u.q /\ SameIO(u, t) /\ t.msgs = u.msgs /\ t.held = u.held
      /\ t.loop = u.loop /\ t.rest = u.rest /\ t.hasty = u.hasty
  BY <1>3 DEF States, SameIO
<1>5. Good(t, w, l, Nobody, Elems(s.held))
  <2>1. SameCore(u, t)
    BY <1>3, <1>4 DEF SameCore
  <2> QED BY <1>2, <1>4, <2>1, CoreGood
<1>6. Carries(s, t)
  BY <1>2, <1>4 DEF SameButReady, SameRest, Carries, StillOpen
<1> QED BY <1>1, <1>5, <1>6, CICarries

-----------------------------------------------------------------------------
\* The parser, between two things of a read.

\* What is true of ress outside of its loops.
Settled(s, l) ==
    /\ Distinct(s.held, s.hasty)
    /\ \A j \in Elems(s.held) \ s.hasty : s.conn[j].state = "live" => l[j] = s.msgs
    /\ Caused(s)

\* The handler of k parses.
Parses(s, w, l, k) ==
    /\ Good(s, w, l, k, Elems(s.held)) /\ s.loop = NoLoop
    /\ k \notin s.hasty => s.rest = <<>>
    /\ Settled(s, l)

\* Nothing is left of a read.
LEMMA NothingLeft == \E rest \in Seq(Request) : rest = <<>>
<1>1. <<>> \in Seq(Request)
  OBVIOUS
<1> QED BY <1>1

\* No response of k is kept, if it waits for its answers.
NotKept(s, k) == k \in Elems(s.held) => k \in s.hasty

\* Or it is, and the connection is open until it is sent.
MayWait(s, k) == NotKept(s, k) \/ (s.conn[k].after /\ s.conn[k].open)

\* The rest of a read changes.
Rests(s, t, rest) == t = [s EXCEPT !.rest = rest]

\* A loop is left, and a rest of a read to be parsed.
LeavesFor(s, t, rest) == t = [s EXCEPT !.loop = NoLoop, !.rest = rest]

\* No loop over ress is entered, and the thread is between two handlers or in the parser.
LEMMA SettledKeeps ==
    ASSUME NEW t, NEW w, NEW l, NEW what \in {"nothing", "tick", "feed"}, NEW b,
           Good(t, w, l, b, Elems(t.held)), Settled(t, l),
           t.loop = [doing |-> what, by |-> b, left |-> <<>>, kept |-> <<>>],
           what = "feed" => b \in t.hasty /\ t.rest # <<>>,
           what # "feed" => b = Nobody /\ t.rest = <<>>
    PROVE  CI(t, w, l)
<1>2. t.loop.doing = what /\ t.loop.by = b /\ t.loop.left = <<>> /\ t.loop.kept = <<>>
  OBVIOUS
<1>3. Busy(t) = b /\ Debts(t) = Elems(t.held)
  BY <1>2 DEF Busy, Debts
<1>4. LoopOK(t)
  <2>1. Distinct(t.held, t.hasty)
    BY DEF Settled
  <2>2. Distinct(t.loop.left, t.hasty) /\ Distinct(t.loop.kept, t.hasty)
    BY <1>2 DEF Distinct
  <2> QED BY <1>2, <2>1, <2>2 DEF LoopOK
<1>5. UpToDate(t, l)
  BY <1>2, <1>3 DEF UpToDate, Settled
<1>6. Caused(t)
  BY DEF Settled
<1> QED BY <1>3, <1>4, <1>5, <1>6 DEF CI

\* Between two handlers it is true.
LEMMA IdleSettled ==
    ASSUME NEW s, NEW w, NEW l, CI(s, w, l), s.loop.doing \in {"nothing", "tick", "feed"}
    PROVE  Settled(s, l)
<1>1. Distinct(s.held, s.hasty) /\ Caused(s)
  BY DEF CI, LoopOK
<1>2. Debts(s) = Elems(s.held)
  BY DEF Debts
<1>3. \A j \in Elems(s.held) \ s.hasty : s.conn[j].state = "live" => l[j] = s.msgs
  BY <1>2 DEF CI, UpToDate
<1> QED BY <1>1, <1>3 DEF Settled

\* And it stays so when no connection becomes live or goes that waits for its answers.
LEMMA SettledStays ==
    ASSUME NEW s, NEW t, NEW l, s \in States, Settled(s, l), t.held = s.held, t.msgs = s.msgs, t.hasty = s.hasty,
           \A j \in Conns : t.conn[j].state = "live" => s.conn[j].state = "live",
           \A j \in Conns : s.conn[j].closing => t.conn[j].closing,
           \A j \in Elems(s.held) \ s.hasty : t.conn[j].state = s.conn[j].state \/ t.conn[j].closing
    PROVE  Settled(t, l)
<1>0. s.held \in Seq(Conns)
  BY StateFields
<1>1. Elems(s.held) \subseteq Conns /\ \A i \in DOMAIN s.held : s.held[i] \in Elems(s.held)
  BY <1>0, ElemsIn
<1>2. Distinct(t.held, t.hasty)
  BY DEF Settled
<1>3. \A j \in Elems(s.held) \ s.hasty : t.conn[j].state = "live" => l[j] = s.msgs
  BY <1>1 DEF Settled
<1>4. Caused(t)
  <2> SUFFICES ASSUME NEW i \in DOMAIN s.held, NEW j, j = s.held[i]
               PROVE  t.conn[j].state = "live" \/ t.conn[j].closing \/ j \in s.hasty
    BY DEF Caused
  <2>1. j \in Elems(s.held) /\ j \in Conns
    BY <1>1
  <2>2. s.conn[j].state = "live" \/ s.conn[j].closing \/ j \in s.hasty
    BY DEF Settled, Caused
  <2> QED BY <2>1, <2>2
<1> QED BY <1>2, <1>3, <1>4 DEF Settled

\* after_feed, at the end of a read.
LEMMA AfterKeeps ==
    ASSUME NEW s, NEW w, NEW l, NEW k \in Conns, Parses(s, w, l, k), s.rest = <<>>, NEW ok \in BOOLEAN,
           MayWait(s, k), ok \/ NotKept(s, k),
           NEW t, t = after_feed(s, k, ok)
    PROVE  CI(t, w, l)
<1>0. PICK D : D = Elems(s.held)
  OBVIOUS
<1>1. Good(s, w, l, k, D) /\ s.loop = NoLoop /\ Settled(s, l) /\ s \in States
  BY <1>0 DEF Parses, Good
<1>2. /\ Good(t, w, l, Nobody, D) /\ Loses(s, t, k)
      /\ t.conn[k].state = "live" \/ s.conn[k].closing \/ ~s.conn[k].open \/ ~ok
  <2>1. k \in D => s.conn[k].after \/ k \in s.hasty
    BY <1>0 DEF MayWait, NotKept
  <2> QED BY <1>1, <2>1, GoodAfter
<1>3. t.held = s.held /\ t.msgs = s.msgs /\ t.hasty = s.hasty /\ t.loop = s.loop /\ t.rest = s.rest
  BY <1>2 DEF Loses, SameRest
<1>4. s.conn[k].state = "live" /\ D \subseteq Conns
  BY <1>0, <1>1, BusyFacts, DebtsIn
<1>5. /\ \A j \in Conns : t.conn[j].state = "live" => s.conn[j].state = "live"
      /\ \A j \in Conns : s.conn[j].closing => t.conn[j].closing
  BY <1>2 DEF Loses
<1>6. \A j \in D \ s.hasty : t.conn[j].state = s.conn[j].state \/ t.conn[j].closing
  <2> SUFFICES ASSUME NEW j \in D, j \notin s.hasty PROVE t.conn[j].state = s.conn[j].state \/ t.conn[j].closing
    OBVIOUS
  <2>1. CASE j = k
    BY <1>0, <1>2, <1>4, <1>5, <2>1 DEF MayWait, NotKept
  <2>2. CASE j # k
    BY <1>2, <1>4, <2>2 DEF Loses
  <2> QED BY <2>1, <2>2
<1>7. Settled(t, l)
  BY <1>0, <1>1, <1>3, <1>5, <1>6, SettledStays
<1>8. t.loop = [doing |-> "nothing", by |-> Nobody, left |-> <<>>, kept |-> <<>>] /\ t.rest = <<>>
  BY <1>1, <1>3 DEF NoLoop
<1> QED BY <1>0, <1>2, <1>3, <1>7, <1>8, SettledKeeps

\* The parser goes on, or the read is over.
LEMMA FeedOnKeeps ==
    ASSUME NEW s, NEW w, NEW l, NEW k \in Conns, Parses(s, w, l, k),
           MayWait(s, k),
           NEW t, t = FeedOn(s, k)
    PROVE  CI(t, w, l)
<1>1. s.loop.doing = "nothing" /\ s.loop = NoLoop /\ s \in States /\ Good(s, w, l, k, Elems(s.held)) /\ Settled(s, l)
  BY DEF Parses, NoLoop, Good
<1>2. CASE s.rest = <<>>
  <2>1. PICK ok \in BOOLEAN : ok = TRUE
    OBVIOUS
  <2>2. t = after_feed(s, k, ok)
    BY <1>1, <1>2, <2>1 DEF FeedOn
  <2> QED BY <1>2, <2>1, <2>2, AfterKeeps
<1>3. CASE s.rest # <<>>
  <2>1. PICK x : x = [doing |-> "feed", by |-> k, left |-> <<>>, kept |-> <<>>]
    OBVIOUS
  <2>2. x \in Loop
    <3>1. <<>> \in Seq(Conns)
      OBVIOUS
    <3> QED BY <2>1, <3>1 DEF Loop
  <2>3. t = [s EXCEPT !.loop = x]
    BY <1>1, <1>3, <2>1 DEF FeedOn
  <2>4. /\ t \in States /\ t.conn = s.conn /\ t.q = s.q /\ SameIO(s, t) /\ t.msgs = s.msgs /\ t.held = s.held
        /\ t.loop = x /\ t.rest = s.rest /\ t.hasty = s.hasty
    BY <1>1, <2>2, <2>3 DEF States, SameIO
  <2>5. Good(t, w, l, k, Elems(s.held))
    <3>1. SameCore(s, t)
      <4>1. s.msgs \in Nat
        BY <1>1, StateFields
      <4> QED BY <2>4, <4>1 DEF SameCore
    <3> QED BY <1>1, <2>4, <3>1, CoreGood
  <2>6. Settled(t, l)
    BY <1>1, <2>4 DEF Settled, Caused
  <2>7. k \in s.hasty
    BY <1>3 DEF Parses
  <2> QED BY <1>3, <2>1, <2>4, <2>5, <2>6, <2>7, SettledKeeps
<1> QED BY <1>2, <1>3

\* A loop over ress has been entered.
LEMMA EnterKeeps ==
    ASSUME NEW s, NEW w, NEW l, NEW k \in Conns, Parses(s, w, l, k), NotKept(s, k),
           NEW what \in {"poll", "send"}, NEW t, Entered(s, t, k, what),
           what = "poll" /\ k \notin s.hasty => l[k] = s.msgs /\ s.conn[k].open,
           Good(t, w, l, k, Elems(s.held) \cup {k})
    PROVE  CI(t, w, l)
<1>1. s \in States /\ Settled(s, l)
  BY DEF Parses, Good
<1>2. s.msgs \in Nat /\ s.held \in Seq(Conns) /\ Elems(s.held) \subseteq Conns
  BY <1>1, StateFields, ElemsIn
<1>3. /\ t.loop.doing = what /\ t.loop.by = k /\ t.loop.left = s.held /\ t.loop.kept = <<>> /\ t.held = s.held
      /\ t.rest = s.rest /\ t.hasty = s.hasty
  BY DEF Entered
<1>4. Elems(t.loop.kept) = {}
  BY <1>3 DEF Elems
<1>5. Busy(t) = k /\ Debts(t) = Elems(s.held) \cup {k}
  <2>1. Busy(t) = k
    BY <1>3 DEF Busy
  <2>2. CASE what = "send"
    BY <1>3, <2>1, <2>2 DEF Debts
  <2>3. CASE what = "poll"
    BY <1>3, <1>4, <2>1, <2>3 DEF Debts
  <2> QED BY <2>1, <2>2, <2>3
<1>6. LoopOK(t)
  <2>1. Distinct(t.held, t.hasty) /\ Distinct(t.loop.left, t.hasty)
    BY <1>1, <1>3 DEF Settled
  <2>2. Distinct(t.loop.kept, t.hasty)
    BY <1>3 DEF Distinct
  <2>3. /\ t.loop.by \in Conns /\ (t.loop.by \notin t.hasty => t.loop.by \notin Elems(t.held) /\ t.rest = <<>>)
        /\ Elems(t.loop.left) \cup Elems(t.loop.kept) \subseteq Elems(t.held)
        /\ Elems(t.loop.left) \cap Elems(t.loop.kept) \subseteq t.hasty
    BY <1>3, <1>4 DEF Parses, NotKept
  <2>4. what = "send" => t.msgs > 0
    <3>1. what = "send" => t.msgs = s.msgs + 1
      BY DEF Entered
    <3> QED BY <3>1, <1>2
  <2>5. what = "poll" /\ t.loop.by \notin t.hasty => t.conn[t.loop.by].after /\ t.conn[t.loop.by].open
    BY <1>3 DEF Entered, StillOpen
  <2> QED BY <1>3, <2>1, <2>2, <2>3, <2>4, <2>5 DEF LoopOK
<1>7. UpToDate(t, l)
  <2> SUFFICES ASSUME NEW j \in Elems(s.held) \cup {k}, j \notin s.hasty, t.conn[j].state = "live"
               PROVE  CASE what = "send" -> j # k => l[j] = t.msgs - 1
                        [] OTHER -> l[j] = t.msgs
    BY <1>3, <1>5 DEF UpToDate
  <2>1. j # k => l[j] = s.msgs
    <3>1. ASSUME j # k PROVE s.conn[j].state = "live" /\ j \in Elems(s.held)
      BY <1>2, <3>1 DEF Entered
    <3> QED BY <1>1, <3>1 DEF Settled
  <2>2. CASE what = "send"
    <3>1. t.msgs = s.msgs + 1
      BY <2>2 DEF Entered
    <3> QED BY <1>2, <2>1, <2>2, <3>1
  <2>3. CASE what = "poll"
    <3>1. t.msgs = s.msgs /\ (k \notin s.hasty => l[k] = s.msgs)
      BY <2>3 DEF Entered
    <3> QED BY <2>1, <2>3, <3>1
  <2> QED BY <2>2, <2>3
<1>8. Caused(t)
  <2> SUFFICES ASSUME NEW i \in DOMAIN s.held, NEW j, j = s.held[i]
               PROVE  t.conn[j].state = "live" \/ t.conn[j].closing \/ j \in t.hasty
    BY <1>3 DEF Caused
  <2>1. j \in Conns
    BY <1>2, ElemsIn
  <2>2. s.conn[j].state = "live" \/ s.conn[j].closing \/ j \in s.hasty
    BY <1>1 DEF Settled, Caused
  <2> QED BY <1>3, <2>1, <2>2 DEF Entered
<1> QED BY <1>5, <1>6, <1>7, <1>8 DEF CI

\* The answer of k was sent, and no loop entered.
LEMMA ParsesOn ==
    ASSUME NEW s, NEW t, NEW w, NEW l, NEW k \in Conns, Parses(s, w, l, k), Steps(s, t, k),
           NotKept(s, k), NEW D, Elems(s.held) \ s.hasty \subseteq D, Good(t, w, l, k, D)
    PROVE  Parses(t, w, l, k)
<1>1. s \in States /\ Settled(s, l) /\ s.loop = NoLoop /\ Elems(s.held) \subseteq Conns
  BY DebtsIn DEF Parses, Good
<1>2. /\ t.held = s.held /\ t.msgs = s.msgs /\ t.hasty = s.hasty /\ t.loop = s.loop /\ t.rest = s.rest
      /\ \A j \in Conns : t.conn[j].state = s.conn[j].state /\ (s.conn[j].closing => t.conn[j].closing)
  BY DEF Steps, Keeps, SameRest
<1>3. Settled(t, l)
  <2>1. \A j \in Elems(s.held) \ s.hasty : t.conn[j].state = s.conn[j].state
    BY <1>1, <1>2
  <2> QED BY <1>1, <1>2, <2>1, SettledStays
<1>4. Good(t, w, l, k, Elems(t.held))
  BY <1>2, GoodSwap
<1> QED BY <1>1, <1>2, <1>3, <1>4 DEF Parses

\* One thing of a read.
LEMMA FeedKeeps ==
    ASSUME NEW s, NEW w, NEW l, NEW k \in Conns, Parses(s, w, l, k), NotKept(s, k),
           NEW r \in Request,
           k \notin s.hasty /\ r.route # "part" => r.last = l[k] /\ Good(s, w, l, k, Elems(s.held) \cup {k}),
           r.route \in Logged => s.conn[k].open,
           NEW t, t = feed(s, k, r)
    PROVE  CI(t, w, l)
<1>0. PICK D : D = Elems(s.held)
  OBVIOUS
<1>1. Good(s, w, l, k, D) /\ s \in States /\ s.loop = NoLoop /\ Settled(s, l)
  BY <1>0 DEF Parses, Good
<1>2. CASE r.route = "garbage"
  <2>1. PICK v : v = [s EXCEPT !.rest = <<>>]
    OBVIOUS
  <2>2. PICK ok \in BOOLEAN : ok = FALSE
    OBVIOUS
  <2>3. t = after_feed(v, k, ok)
    BY <1>2, <2>1, <2>2 DEF feed
  <2>4. <<>> \in Seq(Request)
    OBVIOUS
  <2>5. /\ v \in States /\ v.conn = s.conn /\ v.q = s.q /\ SameIO(s, v) /\ v.msgs = s.msgs /\ v.held = s.held
        /\ v.loop = s.loop /\ v.rest = <<>> /\ v.hasty = s.hasty
    BY <1>1, <2>1, <2>4 DEF States, SameIO
  <2>6. Good(v, w, l, k, D)
    <3>1. SameCore(s, v)
      <4>1. s.msgs \in Nat
        BY <1>1, StateFields
      <4> QED BY <2>5, <4>1 DEF SameCore
    <3> QED BY <1>1, <2>5, <3>1, CoreGood
  <2>7. Settled(v, l)
    BY <1>1, <2>5 DEF Settled, Caused
  <2>8. Parses(v, w, l, k)
    BY <1>0, <1>1, <2>5, <2>6, <2>7 DEF Parses
  <2>9. MayWait(v, k) /\ NotKept(v, k)
    BY <2>5 DEF MayWait, NotKept
  <2> QED BY <2>3, <2>5, <2>8, <2>9, AfterKeeps
<1>3. CASE r.route = "part"
  <2>1. t = FeedOn(s, k)
    BY <1>3 DEF feed, Parsed
  <2>2. MayWait(s, k)
    BY DEF MayWait
  <2> QED BY <2>1, <2>2, FeedOnKeeps
<1>4. CASE r.route \notin {"part", "garbage"}
  <2>1. PICK x : x = Parsed(s, k, r)
    OBVIOUS
  <2>2. t = FeedOn(x, k)
    BY <1>4, <2>1 DEF feed
  <2>3. PICK E : E = D \cup {k}
    OBVIOUS
  <2>4. Good(s, w, l, k, E)
    <3>1. CASE k \in s.hasty
      <4>1. E \ s.hasty \subseteq D
        BY <2>3, <3>1
      <4> QED BY <1>1, <4>1, GoodSwap
    <3>2. CASE k \notin s.hasty
      BY <1>0, <1>4, <2>3, <3>2
    <3> QED BY <3>1, <3>2
  <2>5. Handled(s, x, w, l, k, E) /\ (r.route \notin Logged => Steps(s, x, k))
    <3>1. k \in E /\ (k \notin s.hasty => r.last = l[k])
      BY <1>4, <2>3
    <3> QED BY <1>4, <2>1, <2>4, <3>1, GoodParsed
  <2>6. CASE Good(x, w, l, k, E \ {k}) /\ Steps(s, x, k)
    <3>1. Elems(s.held) \ s.hasty \subseteq E \ {k}
      BY <1>0, <2>3 DEF NotKept
    <3>2. Parses(x, w, l, k)
      BY <2>6, <3>1, ParsesOn
    <3>3. MayWait(x, k)
      BY <2>6 DEF Steps, Keeps, SameRest, MayWait, NotKept
    <3> QED BY <2>2, <3>2, <3>3, FeedOnKeeps
  <2>7. CASE Good(x, w, l, k, E) /\ Entered(s, x, k, "poll") /\ (k \notin s.hasty => l[k] = s.msgs)
    <3>1. x.loop.doing = "poll"
      BY <2>7 DEF Entered
    <3>2. t = x
      BY <2>2, <3>1 DEF FeedOn
    <3>3. PICK what \in {"poll", "send"} : what = "poll"
      OBVIOUS
    <3>4. s.conn[k].open
      <4>1. CASE r.route \in Logged
        BY <4>1
      <4>2. CASE r.route \notin Logged
        <5>1. Steps(s, x, k)
          BY <2>5, <4>2
        <5> QED BY <1>1, <3>1, <5>1 DEF Steps, Keeps, SameRest, NoLoop
      <4> QED BY <4>1, <4>2
    <3> QED BY <1>0, <2>3, <2>7, <3>2, <3>3, <3>4, EnterKeeps
  <2>8. CASE Good(x, w, l, k, E) /\ Entered(s, x, k, "send")
    <3>1. x.loop.doing = "send"
      BY <2>8 DEF Entered
    <3>2. t = x
      BY <2>2, <3>1 DEF FeedOn
    <3>3. PICK what \in {"poll", "send"} : what = "send"
      OBVIOUS
    <3> QED BY <1>0, <2>3, <2>8, <3>2, <3>3, EnterKeeps
  <2> QED BY <2>5, <2>6, <2>7, <2>8 DEF Handled
<1> QED BY <1>2, <1>3, <1>4

\* What one that waits for its answers leaves of a read: nothing.
Short(s, k, rest) == rest \in Seq(Request) /\ (k \notin s.hasty => rest = <<>>)

\* A read handler in front.
LEMMA PopParses ==
    ASSUME NEW s, NEW w, NEW l, CI(s, w, l), s.loop.doing = "nothing", NEW k \in Conns, NEW h, Front(s, h, k),
           h.what = "read", NEW u, Popping(s, u), NEW rest, Short(s, k, rest),
           NEW t, Rests(u, t, rest)
    PROVE  /\ Parses(t, w, l, k) /\ NotKept(t, k) /\ t.rest = rest /\ t.hasty = s.hasty
           /\ t.conn = s.conn /\ u.loop = NoLoop /\ u.rest = <<>>
           /\ Asks(h) => Good(t, w, l, k, Elems(t.held) \cup {k})
<1>0. PICK D : D = Elems(s.held)
  OBVIOUS
<1>1. Good(s, w, l, Nobody, D) /\ s \in States /\ s.rest = <<>>
  BY <1>0, IdleFacts DEF Good
<1>2. Good(u, w, l, k, D) /\ (k \in D => k \in s.hasty) /\ (Asks(h) => Good(u, w, l, k, D \cup {k}))
  BY <1>1, GoodPopRead
<1>3. SameButReady(s, u) /\ u \in States
  BY <1>1, <1>2, GoodPop DEF Front, Good
<1>4. u.loop = s.loop /\ u.held = s.held /\ u.msgs = s.msgs /\ u.hasty = s.hasty /\ u.rest = s.rest /\ u.conn = s.conn
  BY <1>3 DEF SameButReady, SameRest
<1>5. /\ t \in States /\ t.conn = u.conn /\ t.q = u.q /\ SameIO(u, t) /\ t.msgs = u.msgs /\ t.held = u.held
      /\ t.loop = u.loop /\ t.rest = rest /\ t.hasty = u.hasty
  <2>1. rest \in Seq(Request)
    BY DEF Short
  <2> QED BY <1>3, <2>1 DEF States, SameIO, Rests
<1>6. SameCore(u, t)
  <2>1. u.msgs \in Nat
    BY <1>3, StateFields
  <2> QED BY <1>5, <2>1 DEF SameCore
<1>7. Good(t, w, l, k, D) /\ (Asks(h) => Good(t, w, l, k, D \cup {k}))
  BY <1>2, <1>5, <1>6, CoreGood
<1>8. s.loop = NoLoop
  <2>1. PICK p \in Loop : p = s.loop
    BY <1>1, StateFields
  <2>2. p.doing = "nothing" /\ p.by = Nobody /\ p.left = <<>> /\ p.kept = <<>>
    BY <2>1 DEF CI, LoopOK
  <2> QED BY <2>1, <2>2 DEF Loop, NoLoop
<1>9. Settled(t, l)
  <2>1. Settled(s, l)
    BY IdleSettled
  <2> QED BY <1>4, <1>5, <2>1 DEF Settled, Caused
<1>10. Parses(t, w, l, k)
  BY <1>0, <1>4, <1>5, <1>7, <1>8, <1>9 DEF Parses, Short
<1> QED BY <1>0, <1>1, <1>2, <1>4, <1>5, <1>7, <1>8, <1>10 DEF NotKept

\* Run, a read handler.
LEMMA RunRead ==
    ASSUME NEW s, NEW w, NEW l, CI(s, w, l), s.loop.doing = "nothing", NEW k \in Conns, NEW h, Front(s, h, k),
           h.what = "read", h.ok /\ Head(h.load).route \in Logged => s.conn[k].open,
           NEW u, Popping(s, u), NEW t, t = read_handler(u, k, h.ok, h.load)
    PROVE  CI(t, w, l)
<1>0. Good(s, w, l, Nobody, Elems(s.held))
  BY IdleFacts
<1>1. h \in Handler /\ Says(h, l, s.hasty) /\ h.who = k
  BY <1>0, FrontFacts
<1>2. h.ok \in BOOLEAN /\ h.load \in Seq(Request)
  BY <1>1 DEF Handler
<1>3. CASE ~h.ok
  <2>1. PICK rest \in Seq(Request) : rest = <<>>
    BY NothingLeft
  <2>2. PICK v : Rests(u, v, rest)
    BY DEF Rests
  <2>3. Parses(v, w, l, k) /\ NotKept(v, k) /\ v.rest = <<>> /\ u.rest = <<>>
    <3>1. Short(s, k, rest)
      BY <2>1 DEF Short
    <3>2. Parses(v, w, l, k) /\ NotKept(v, k) /\ v.rest = rest
      BY <2>2, <3>1, PopParses
    <3>3. u.rest = <<>>
      BY <1>0, IdleFacts, GoodPop DEF Front, SameButReady, SameRest
    <3> QED BY <2>1, <3>2, <3>3
  <2>4. v = u
    <3>1. u \in States
      BY <1>0, GoodPop DEF Front, Good
    <3> QED BY <2>1, <2>2, <2>3, <3>1 DEF States, Rests
  <2>5. PICK ok \in BOOLEAN : ok = FALSE
    OBVIOUS
  <2>6. t = after_feed(v, k, ok)
    BY <1>3, <2>4, <2>5 DEF read_handler
  <2>7. MayWait(v, k)
    BY <2>3 DEF MayWait
  <2> QED BY <2>3, <2>6, <2>7, AfterKeeps
<1>4. CASE h.ok
  <2>1. h.load # <<>> /\ (k \notin s.hasty => Len(h.load) = 1)
    BY <1>1, <1>4 DEF Says
  <2>2. PICK rest : rest = Tail(h.load)
    OBVIOUS
  <2>3. PICK r : r = Head(h.load)
    OBVIOUS
  <2>4. PICK n : n = Len(h.load)
    OBVIOUS
  <2>5. rest \in Seq(Request) /\ r \in Request /\ n \in Nat /\ DOMAIN rest = 1 .. (n - 1)
    BY <1>2, <2>1, <2>2, <2>3, <2>4, TailIs
  <2>6. k \notin s.hasty => rest = <<>>
    <3>1. SUFFICES ASSUME n = 1 PROVE rest = <<>>
      BY <2>1, <2>4
    <3>2. DOMAIN rest = {}
      BY <2>5, <3>1
    <3> QED BY <2>5, <3>2
  <2>12. Short(s, k, rest)
    BY <2>5, <2>6 DEF Short
  <2>7. PICK v : Rests(u, v, rest)
    BY DEF Rests
  <2>8. /\ Parses(v, w, l, k) /\ NotKept(v, k) /\ v.hasty = s.hasty /\ v.conn = s.conn
        /\ Asks(h) => Good(v, w, l, k, Elems(v.held) \cup {k})
    BY <2>7, <2>12, PopParses
  <2>9. t = feed(v, k, r)
    BY <1>4, <2>2, <2>3, <2>7 DEF read_handler, Rests
  <2>10. k \notin v.hasty /\ r.route # "part" => r.last = l[k] /\ Good(v, w, l, k, Elems(v.held) \cup {k})
    <3>1. ASSUME k \notin v.hasty, r.route # "part" PROVE Asks(h)
      BY <1>4, <2>3, <3>1 DEF Asks
    <3>2. ASSUME Asks(h), k \notin s.hasty PROVE r.last = l[k]
      BY <1>1, <2>3, <3>2 DEF Says
    <3> QED BY <2>8, <3>1, <3>2
  <2>11. r.route \in Logged => v.conn[k].open
    BY <1>4, <2>3, <2>8
  <2> QED BY <2>5, <2>8, <2>9, <2>10, <2>11, FeedKeeps
<1> QED BY <1>2, <1>3, <1>4

\* The loop of the parser is left for its next thing.
LEMMA FeedParses ==
    ASSUME NEW s, NEW w, NEW l, CI(s, w, l), s.loop.doing = "feed", NEW k, k = s.loop.by,
           NEW rest \in Seq(Request), NEW t, LeavesFor(s, t, rest)
    PROVE  /\ k \in Conns /\ k \in s.hasty /\ s.rest # <<>> /\ s.rest \in Seq(Request)
           /\ Parses(t, w, l, k) /\ t.hasty = s.hasty /\ t.conn = s.conn /\ t.rest = rest
<1>1. Busy(s) = k /\ Debts(s) = Elems(s.held) /\ k \in s.hasty /\ s.rest # <<>>
  BY DEF CI, LoopOK, Busy, Debts
<1>2. Good(s, w, l, k, Elems(s.held)) /\ s \in States
  BY <1>1 DEF CI, Good
<1>3. k \in Conns /\ s.msgs \in Nat /\ s.rest \in Seq(Request)
  BY <1>1, <1>2, StateFields
<1>4. PICK x \in Loop : x = NoLoop
  <2>1. <<>> \in Seq(Conns)
    OBVIOUS
  <2> QED BY <2>1 DEF Loop, NoLoop
<1>5. /\ t \in States /\ t.conn = s.conn /\ t.q = s.q /\ SameIO(s, t) /\ t.msgs = s.msgs /\ t.held = s.held
      /\ t.loop = NoLoop /\ t.rest = rest /\ t.hasty = s.hasty
  <2>1. t = [s EXCEPT !.loop = x, !.rest = rest]
    BY <1>4 DEF LeavesFor
  <2> QED BY <1>2, <1>4, <2>1 DEF States, SameIO
<1>6. Good(t, w, l, k, Elems(t.held))
  <2>1. SameCore(s, t)
    BY <1>3, <1>5 DEF SameCore
  <2> QED BY <1>2, <1>5, <2>1, CoreGood
<1>7. Settled(t, l)
  <2>1. Settled(s, l)
    BY IdleSettled
  <2> QED BY <1>5, <2>1 DEF Settled, Caused
<1> QED BY <1>1, <1>3, <1>5, <1>6, <1>7 DEF Parses

\* FeedRest.
LEMMA FeedRestKeeps ==
    ASSUME NEW s, NEW w, NEW l, CI(s, w, l), s.loop.doing = "feed", NEW k, k = s.loop.by,
           NEW r, r = Head(s.rest), r.route \in Logged => s.conn[k].open,
           NEW t, t = feed([s EXCEPT !.loop = NoLoop, !.rest = Tail(@)], k, r)
    PROVE  CI(t, w, l)
<1>1. s.rest # <<>> /\ s.rest \in Seq(Request)
  BY StateFields DEF CI, LoopOK, Good
<1>2. PICK rest : rest = Tail(s.rest)
  OBVIOUS
<1>3. PICK n : n = Len(s.rest)
  OBVIOUS
<1>4. rest \in Seq(Request) /\ r \in Request
  BY <1>1, <1>2, <1>3, TailIs
<1>5. PICK v : LeavesFor(s, v, rest)
  BY DEF LeavesFor
<1>6. /\ k \in Conns /\ k \in s.hasty /\ Parses(v, w, l, k) /\ v.hasty = s.hasty /\ v.conn = s.conn
  BY <1>4, <1>5, FeedParses
<1>7. t = feed(v, k, r)
  BY <1>2, <1>5 DEF LeavesFor
<1>8. NotKept(v, k)
  BY <1>6 DEF NotKept
<1> QED BY <1>4, <1>6, <1>7, <1>8, FeedKeeps

-----------------------------------------------------------------------------
\* The loop changes, between handlers.
LEMMA BetweenKeeps ==
    ASSUME NEW s, NEW w, NEW l, CI(s, w, l), s.loop.doing \in {"nothing", "tick"},
           NEW t, Good(t, w, l, Nobody, Elems(s.held)), t.held = s.held, t.msgs = s.msgs, t.conn = s.conn,
           t.rest = s.rest, t.hasty = s.hasty,
           NEW what \in {"nothing", "tick"}, t.loop = [doing |-> what, by |-> Nobody, left |-> <<>>, kept |-> <<>>]
    PROVE  CI(t, w, l)
<1>1. s.rest = <<>> /\ Settled(s, l)
  BY IdleFacts, IdleSettled
<1>2. Settled(t, l)
  BY <1>1 DEF Settled, Caused
<1> QED BY <1>1, <1>2, SettledKeeps

\* Run, the timer.
LEMMA RunTick ==
    ASSUME NEW s, NEW w, NEW l, CI(s, w, l), s.loop.doing = "nothing", s.ready # <<>>,
           NEW u, Popping(s, u), NEW t, t = [u EXCEPT !.loop.doing = "tick"]
    PROVE  CI(t, w, l)
<1>1. /\ Good(s, w, l, Nobody, Elems(s.held)) /\ s.loop.left = <<>> /\ s.loop.kept = <<>> /\ Busy(s) = Nobody
  BY IdleFacts
<1>2. Good(u, w, l, Nobody, Elems(s.held)) /\ SameButReady(s, u)
  BY <1>1, GoodPop
<1>3. PICK p \in Loop : p = s.loop
  BY <1>1, StateFields DEF Good
<1>4. PICK x \in Loop : x = [p EXCEPT !.doing = "tick"]
  BY DEF Loop
<1>5. x = [doing |-> "tick", by |-> Nobody, left |-> <<>>, kept |-> <<>>]
  BY <1>1, <1>3, <1>4 DEF Loop, Busy
<1>6. u \in States /\ u.loop = p /\ u.held = s.held /\ u.msgs = s.msgs /\ u.conn = s.conn /\ u.rest = s.rest /\ u.hasty = s.hasty
  BY <1>2, <1>3 DEF Good, SameButReady, SameRest
<1>7. t = [u EXCEPT !.loop = x]
  BY <1>4, <1>6
<1>8. /\ t \in States /\ t.conn = u.conn /\ t.q = u.q /\ SameIO(u, t) /\ t.msgs = u.msgs /\ t.held = u.held
      /\ t.rest = u.rest /\ t.hasty = u.hasty /\ t.loop = x
  BY <1>6, <1>7 DEF States, SameIO
<1>9. Good(t, w, l, Nobody, Elems(s.held))
  <2>1. u.msgs \in Nat
    BY <1>6, StateFields
  <2>2. SameCore(u, t)
    BY <1>8, <2>1 DEF SameCore
  <2> QED BY <1>2, <1>8, <2>2, CoreGood
<1> QED BY <1>5, <1>6, <1>8, <1>9, BetweenKeeps

\* Throw: the handler stops after the request has been taken.
LEMMA ThrownKeeps ==
    ASSUME NEW s, NEW w, NEW l, NEW k \in Conns, Parses(s, w, l, k), s.rest = <<>>, NEW r \in Request,
           NEW t, t = Thrown(s, k, r)
    PROVE  CI(t, w, l)
<1>0. PICK D : D = Elems(s.held)
  OBVIOUS
<1>1. Good(s, w, l, k, D) /\ s \in States /\ s.loop = NoLoop /\ Settled(s, l) /\ D \subseteq Conns
  BY <1>0, DebtsIn DEF Parses, Good
<1>6. PICK x : x = ToHandle(s, k, r)
  OBVIOUS
<1>7. Good(x, w, l, k, D) /\ Steps(s, x, k)
  BY <1>1, <1>6, GoodToHandle
<1>8. Good(x, w, l, Nobody, D) /\ x \in States
  BY <1>7, GoodUnbusy DEF Good
<1>9. PICK p \in SUBSET Conns : p = x.thrown \cup {k}
  BY <1>8, StateFields
<1>10. t = [x EXCEPT !.thrown = p]
  BY <1>6, <1>9 DEF Thrown
<1>11. /\ t \in States /\ t.conn = x.conn /\ t.q = x.q /\ SameIO(x, t) /\ t.msgs = x.msgs /\ t.held = x.held
       /\ t.rest = x.rest /\ t.hasty = x.hasty /\ t.loop = x.loop
  BY <1>8, <1>10 DEF States, SameIO
<1>12. Good(t, w, l, Nobody, D)
  <2>1. x.msgs \in Nat
    BY <1>8, StateFields
  <2>2. SameCore(x, t)
    BY <1>11, <2>1 DEF SameCore
  <2> QED BY <1>8, <1>11, <2>2, CoreGood
<1>13. /\ t.held = s.held /\ t.msgs = s.msgs /\ t.loop = s.loop /\ t.rest = s.rest /\ t.hasty = s.hasty
       /\ \A j \in Conns : t.conn[j].state = s.conn[j].state /\ (s.conn[j].closing => t.conn[j].closing)
  BY <1>7, <1>11 DEF Steps, Keeps, SameRest
<1>14. Settled(t, l)
  <2>1. \A j \in Elems(s.held) \ s.hasty : t.conn[j].state = s.conn[j].state
    BY <1>0, <1>1, <1>13
  <2> QED BY <1>1, <1>13, <2>1, SettledStays
<1>15. t.loop = [doing |-> "nothing", by |-> Nobody, left |-> <<>>, kept |-> <<>>]
  BY <1>1, <1>13 DEF NoLoop
<1> QED BY <1>0, <1>12, <1>13, <1>14, <1>15, SettledKeeps

\* In the handler of a read.
LEMMA ThrowKeeps ==
    ASSUME NEW s, NEW w, NEW l, CI(s, w, l), s.loop.doing = "nothing", NEW k \in Conns, NEW h, Front(s, h, k),
           h.what = "read", h.ok, NEW u, Popping(s, u), NEW t, t = Thrown(u, k, Head(h.load))
    PROVE  CI(t, w, l)
<1>0. Good(s, w, l, Nobody, Elems(s.held))
  BY IdleFacts
<1>1. h.load \in Seq(Request) /\ h.load # <<>>
  BY <1>0, FrontFacts DEF Handler, Says
<1>2. PICK n : n = Len(h.load)
  OBVIOUS
<1>3. PICK r \in Request : r = Head(h.load)
  BY <1>1, <1>2, TailIs
<1>4. PICK rest \in Seq(Request) : rest = <<>>
  BY NothingLeft
<1>5. PICK v : Rests(u, v, rest)
  BY DEF Rests
<1>6. Parses(v, w, l, k) /\ v.rest = <<>> /\ u.rest = <<>>
  <2>1. Short(s, k, rest)
    BY <1>4 DEF Short
  <2>2. Parses(v, w, l, k) /\ v.rest = rest
    BY <1>5, <2>1, PopParses
  <2>3. u.rest = <<>>
    BY <1>0, IdleFacts, GoodPop DEF Front, SameButReady, SameRest
  <2> QED BY <1>4, <2>2, <2>3
<1>7. v = u
  <2>1. u \in States
    BY <1>0, GoodPop DEF Front, Good
  <2> QED BY <1>4, <1>5, <1>6, <2>1 DEF States, Rests
<1>8. t = Thrown(v, k, r)
  BY <1>3, <1>7
<1> QED BY <1>6, <1>8, ThrownKeeps

\* In the middle of it.
LEMMA ThrowRestKeeps ==
    ASSUME NEW s, NEW w, NEW l, CI(s, w, l), s.loop.doing = "feed", NEW k, k = s.loop.by,
           NEW t, t = Thrown([s EXCEPT !.loop = NoLoop, !.rest = <<>>], k, Head(s.rest))
    PROVE  CI(t, w, l)
<1>4. PICK rest \in Seq(Request) : rest = <<>>
  BY NothingLeft
<1>5. PICK v : LeavesFor(s, v, rest)
  BY DEF LeavesFor
<1>6. k \in Conns /\ s.rest # <<>> /\ s.rest \in Seq(Request) /\ Parses(v, w, l, k) /\ v.rest = rest
  BY <1>5, FeedParses
<1>2. PICK n : n = Len(s.rest)
  OBVIOUS
<1>3. PICK r \in Request : r = Head(s.rest)
  BY <1>2, <1>6, TailIs
<1>8. t = Thrown(v, k, r)
  BY <1>3, <1>4, <1>5 DEF LeavesFor
<1> QED BY <1>4, <1>6, <1>8, ThrownKeeps

-----------------------------------------------------------------------------
\* The loops over ress.
LEMMA TailElems ==
    ASSUME NEW T, NEW seq \in Seq(T), seq # <<>>, NEW z, Distinct(seq, z)
    PROVE  /\ Head(seq) \in Elems(seq) /\ Tail(seq) \in Seq(T) /\ Distinct(Tail(seq), z)
           /\ Elems(Tail(seq)) \subseteq Elems(seq) /\ Elems(seq) \subseteq Elems(Tail(seq)) \cup {Head(seq)}
           /\ Head(seq) \in Elems(Tail(seq)) => Head(seq) \in z
<1>1. PICK n : n = Len(seq)
  OBVIOUS
<1>2. PICK y : y = Tail(seq)
  OBVIOUS
<1>3. /\ n \in Nat /\ n > 0 /\ DOMAIN seq = 1 .. n /\ DOMAIN y = 1 .. (n - 1) /\ y \in Seq(T)
      /\ \A j \in 1 .. (n - 1) : y[j] = seq[j + 1]
      /\ Head(seq) = seq[1]
  BY <1>1, <1>2, TailIs
<1>4. Head(seq) \in Elems(seq)
  BY <1>3 DEF Elems
<1>5. Distinct(y, z)
  <2> SUFFICES ASSUME NEW i \in 1 .. (n - 1), NEW j \in 1 .. (n - 1), y[i] = y[j], y[i] \notin z PROVE i = j
    BY <1>3 DEF Distinct
  <2>1. i + 1 \in DOMAIN seq /\ j + 1 \in DOMAIN seq /\ seq[i + 1] = seq[j + 1] /\ seq[i + 1] \notin z
    BY <1>3
  <2>2. i + 1 = j + 1
    BY <2>1 DEF Distinct
  <2> QED BY <1>3, <2>2
<1>6. Elems(y) \subseteq Elems(seq) /\ (Head(seq) \in Elems(y) => Head(seq) \in z)
  <2> SUFFICES ASSUME NEW i \in 1 .. (n - 1) PROVE y[i] \in Elems(seq) /\ (y[i] = seq[1] => seq[1] \in z)
    BY <1>3 DEF Elems
  <2>1. i + 1 \in DOMAIN seq /\ 1 \in DOMAIN seq /\ i + 1 # 1
    BY <1>3
  <2>2. seq[i + 1] = seq[1] => seq[1] \in z
    BY <2>1 DEF Distinct
  <2> QED BY <1>3, <2>1, <2>2 DEF Elems
<1>7. Elems(seq) \subseteq Elems(y) \cup {Head(seq)}
  <2> SUFFICES ASSUME NEW i \in 1 .. n, seq[i] # seq[1] PROVE seq[i] \in Elems(y)
    BY <1>3 DEF Elems
  <2>1. i # 1
    OBVIOUS
  <2>2. i - 1 \in 1 .. (n - 1) /\ (i - 1) + 1 = i
    BY <1>3, <2>1
  <2> QED BY <1>3, <2>2 DEF Elems
<1> QED BY <1>2, <1>3, <1>4, <1>5, <1>6, <1>7

\* It may be in a sequence already, if it did not wait.
MayRepeat(p, seq, z) == p \in Elems(seq) => p \in z

\* The members of a sequence to which another was appended.
LEMMA AppendElems ==
    ASSUME NEW T, NEW seq \in Seq(T), NEW z, Distinct(seq, z), NEW p \in T, MayRepeat(p, seq, z)
    PROVE  /\ Append(seq, p) \in Seq(T) /\ Distinct(Append(seq, p), z)
           /\ Elems(Append(seq, p)) = Elems(seq) \cup {p}
<1>1. PICK n : n = Len(seq)
  OBVIOUS
<1>2. PICK y : y = Append(seq, p)
  OBVIOUS
<1>3. /\ n \in Nat /\ DOMAIN seq = 1 .. n /\ DOMAIN y = 1 .. (n + 1) /\ y[n + 1] = p
      /\ \A j \in 1 .. n : y[j] = seq[j]
      /\ y \in Seq(T)
  BY <1>1, <1>2, AppendIs
<1>4. \A i \in DOMAIN y : i = n + 1 \/ i \in DOMAIN seq
  BY <1>3
<1>5. Distinct(y, z)
  <2> SUFFICES ASSUME NEW i \in DOMAIN y, NEW j \in DOMAIN y, y[i] = y[j], y[i] \notin z PROVE i = j
    BY DEF Distinct
  <2>1. CASE i \in DOMAIN seq /\ j \in DOMAIN seq
    BY <1>3, <2>1 DEF Distinct
  <2>2. CASE i = n + 1 /\ j = n + 1
    BY <2>2
  <2>3. CASE i = n + 1 /\ j \in DOMAIN seq
    BY <1>3, <2>3 DEF Elems, MayRepeat
  <2>4. CASE j = n + 1 /\ i \in DOMAIN seq
    BY <1>3, <2>4 DEF Elems, MayRepeat
  <2> QED BY <1>4, <2>1, <2>2, <2>3, <2>4
<1>6. Elems(y) = Elems(seq) \cup {p}
  <2>1. \A i \in DOMAIN seq : i \in DOMAIN y
    BY <1>3
  <2>2. n + 1 \in DOMAIN y
    BY <1>3
  <2> QED BY <1>3, <1>4, <2>1, <2>2 DEF Elems
<1> QED BY <1>2, <1>3, <1>5, <1>6

\* One turn of a loop: p, in front of those left, is dealt with and not kept,
\* or kept.
Turns(s, t, p) ==
    /\ t.held = s.held /\ t.msgs = s.msgs /\ t.rest = s.rest /\ t.hasty = s.hasty
    /\ t.loop.doing = s.loop.doing /\ t.loop.by = s.loop.by /\ t.loop.left = Tail(s.loop.left)
    /\ \A j \in Conns : /\ t.conn[j].state = s.conn[j].state
                        /\ s.conn[j].closing => t.conn[j].closing
                        /\ j # p => t.conn[j].after = s.conn[j].after /\ t.conn[j].open = s.conn[j].open

\* The first of those left in the loop.
LEMMA TurnFacts ==
    ASSUME NEW s, NEW w, NEW l, CI(s, w, l), s.loop.doing \in {"send", "poll"}, s.loop.left # <<>>,
           NEW p, p = Head(s.loop.left)
    PROVE  /\ p \in Conns /\ p \in Elems(s.loop.left) /\ p \in Elems(s.held)
           /\ p = s.loop.by => p \in s.hasty
           /\ MayRepeat(p, s.loop.kept, s.hasty)
           /\ s.loop.by \in Conns /\ p \in Debts(s)
           /\ Tail(s.loop.left) \in Seq(Conns) /\ Distinct(Tail(s.loop.left), s.hasty)
           /\ Elems(Tail(s.loop.left)) \subseteq Elems(s.loop.left)
           /\ p \in Elems(Tail(s.loop.left)) => p \in s.hasty
           /\ s \in States /\ s.loop.left \in Seq(Conns) /\ s.loop.kept \in Seq(Conns)
<1>1. s \in States /\ LoopOK(s)
  BY DEF CI, Good
<1>2. s.loop.left \in Seq(Conns) /\ s.loop.kept \in Seq(Conns) /\ Distinct(s.loop.left, s.hasty)
  BY <1>1, DebtsIn DEF LoopOK
<1>3. /\ p \in Elems(s.loop.left) /\ Tail(s.loop.left) \in Seq(Conns) /\ Distinct(Tail(s.loop.left), s.hasty)
      /\ Elems(Tail(s.loop.left)) \subseteq Elems(s.loop.left)
      /\ p \in Elems(Tail(s.loop.left)) => p \in s.hasty
  BY <1>2, TailElems
<1>4. /\ s.loop.by \in Conns /\ (s.loop.by \notin s.hasty => s.loop.by \notin Elems(s.held))
      /\ Elems(s.loop.left) \subseteq Elems(s.held) /\ Elems(s.loop.left) \cap Elems(s.loop.kept) \subseteq s.hasty
  BY <1>1 DEF LoopOK
<1>5. Elems(s.held) \subseteq Conns
  BY <1>1, DebtsIn
<1>6. p \in Debts(s)
  BY <1>3 DEF Debts
<1>7. MayRepeat(p, s.loop.kept, s.hasty)
  BY <1>3, <1>4 DEF MayRepeat
<1> QED BY <1>1, <1>2, <1>3, <1>4, <1>5, <1>6, <1>7

\* The invariant holds after a turn.
LEMMA TurnKeeps ==
    ASSUME NEW s, NEW w, NEW l, CI(s, w, l), s.loop.doing \in {"send", "poll"}, s.loop.left # <<>>,
           NEW p, p = Head(s.loop.left), NEW t, Turns(s, t, p),
           \/ t.loop.kept = s.loop.kept /\ Good(t, w, l, Busy(s), Debts(s) \ {p})
           \/ s.loop.doing = "poll" /\ t.loop.kept = Append(s.loop.kept, p) /\ Good(t, w, l, Busy(s), Debts(s))
    PROVE  CI(t, w, l)
<1>1. /\ p \in Conns /\ p \in Elems(s.loop.left) /\ p \in Elems(s.held)
      /\ p = s.loop.by => p \in s.hasty
      /\ MayRepeat(p, s.loop.kept, s.hasty)
      /\ s.loop.by \in Conns /\ p \in Debts(s)
      /\ Tail(s.loop.left) \in Seq(Conns) /\ Distinct(Tail(s.loop.left), s.hasty)
      /\ Elems(Tail(s.loop.left)) \subseteq Elems(s.loop.left)
      /\ p \in Elems(Tail(s.loop.left)) => p \in s.hasty
      /\ s \in States /\ s.loop.left \in Seq(Conns) /\ s.loop.kept \in Seq(Conns)
  BY TurnFacts
<1>2. /\ t.held = s.held /\ t.msgs = s.msgs /\ t.rest = s.rest /\ t.hasty = s.hasty
      /\ t.loop.doing = s.loop.doing /\ t.loop.by = s.loop.by /\ t.loop.left = Tail(s.loop.left)
  BY DEF Turns
<1>3. LoopOK(s) /\ Debts(s) \subseteq Conns
  BY <1>1, DebtsInConns DEF CI
<1>4. /\ Distinct(s.held, s.hasty) /\ Distinct(s.loop.kept, s.hasty)
      /\ Elems(s.loop.left) \cup Elems(s.loop.kept) \subseteq Elems(s.held)
      /\ Elems(s.loop.left) \cap Elems(s.loop.kept) \subseteq s.hasty
      /\ s.loop.by \notin s.hasty => s.loop.by \notin Elems(s.held) /\ s.rest = <<>>
      /\ s.loop.doing = "send" => s.msgs > 0
      /\ s.loop.doing = "poll" /\ s.loop.by \notin s.hasty => s.conn[s.loop.by].after /\ s.conn[s.loop.by].open
  BY <1>3 DEF LoopOK
<1>5. PICK L, K, M : L = Elems(s.loop.left) /\ K = Elems(s.loop.kept) /\ M = Elems(t.loop.left)
  OBVIOUS
<1>6. M \subseteq L /\ (p \in M => p \in s.hasty) /\ p \in L /\ (p \in K => p \in s.hasty)
  BY <1>1, <1>2, <1>5 DEF MayRepeat
<1>12. PICK N : N = Elems(t.loop.kept)
  OBVIOUS
<1>13. /\ Distinct(t.loop.kept, s.hasty)
       /\ \/ N = K /\ Good(t, w, l, Busy(s), Debts(s) \ {p})
          \/ s.loop.doing = "poll" /\ N = K \cup {p} /\ Good(t, w, l, Busy(s), Debts(s))
  <2>1. CASE t.loop.kept = s.loop.kept /\ Good(t, w, l, Busy(s), Debts(s) \ {p})
    BY <1>4, <1>5, <1>12, <2>1
  <2>2. CASE s.loop.doing = "poll" /\ t.loop.kept = Append(s.loop.kept, p) /\ Good(t, w, l, Busy(s), Debts(s))
    BY <1>1, <1>4, <1>5, <1>12, <2>2, AppendElems
  <2> QED BY <2>1, <2>2
<1>7. LoopOK(t)
  <2>1. t.loop.by \notin t.hasty => t.loop.by \notin Elems(t.held) /\ t.rest = <<>>
    BY <1>2, <1>4
  <2>2. M \cup N \subseteq Elems(t.held) /\ M \cap N \subseteq t.hasty
    BY <1>1, <1>2, <1>4, <1>5, <1>6, <1>13
  <2>3. t.loop.doing = "poll" /\ t.loop.by \notin t.hasty => t.conn[t.loop.by].after /\ t.conn[t.loop.by].open
    BY <1>1, <1>2, <1>4 DEF Turns
  <2> QED BY <1>1, <1>2, <1>4, <1>5, <1>12, <1>13, <2>1, <2>2, <2>3 DEF LoopOK
<1>8. Busy(t) = Busy(s)
  BY <1>2 DEF Busy
<1>9. Good(t, w, l, Busy(s), Debts(t)) /\ Debts(t) \subseteq Debts(s)
  <2>0. PICK D, E : D = Debts(s) /\ E = Debts(t)
    OBVIOUS
  <2>1. CASE s.loop.doing = "send"
    <3>1. D = L \cup {s.loop.by} /\ E = M \cup {s.loop.by}
      BY <1>2, <1>5, <2>0, <2>1 DEF Debts
    <3>2. E \ t.hasty \subseteq D \ {p}
      BY <1>1, <1>2, <1>6, <3>1
    <3>3. Good(t, w, l, Busy(s), D \ {p})
      BY <1>13, <2>0, <2>1
    <3>4. Good(t, w, l, Busy(s), E)
      BY <3>2, <3>3, GoodSwap
    <3> QED BY <1>6, <2>0, <3>1, <3>4
  <2>2. CASE s.loop.doing = "poll"
    <3>1. D = L \cup K \cup {s.loop.by} /\ E = M \cup N \cup {s.loop.by}
      BY <1>2, <1>5, <1>12, <2>0, <2>2 DEF Debts
    <3>2. E \subseteq D
      BY <1>6, <1>13, <3>1
    <3>3. CASE N = K /\ Good(t, w, l, Busy(s), Debts(s) \ {p})
      <4>1. E \ t.hasty \subseteq D \ {p}
        BY <1>1, <1>2, <1>6, <3>1, <3>3
      <4>2. Good(t, w, l, Busy(s), D \ {p})
        BY <2>0, <3>3
      <4>3. Good(t, w, l, Busy(s), E)
        BY <4>1, <4>2, GoodSwap
      <4> QED BY <2>0, <3>2, <4>3
    <3>4. CASE N = K \cup {p} /\ Good(t, w, l, Busy(s), Debts(s))
      <4>1. E \ t.hasty \subseteq D
        BY <3>2
      <4>2. Good(t, w, l, Busy(s), D)
        BY <2>0, <3>4
      <4>3. Good(t, w, l, Busy(s), E)
        BY <4>1, <4>2, GoodSwap
      <4> QED BY <2>0, <3>2, <4>3
    <3> QED BY <1>13, <3>3, <3>4
  <2> QED BY <2>1, <2>2
<1>10. UpToDate(t, l)
  <2> SUFFICES ASSUME NEW k \in Debts(s), k \notin s.hasty, t.conn[k].state = "live"
               PROVE  CASE s.loop.doing = "send" -> k # s.loop.by => l[k] = s.msgs - 1
                        [] OTHER -> l[k] = s.msgs
    BY <1>2, <1>9 DEF UpToDate
  <2>1. s.conn[k].state = "live"
    BY <1>3 DEF Turns
  <2> QED BY <2>1 DEF CI, UpToDate
<1>11. Caused(t)
  <2> SUFFICES ASSUME NEW i \in DOMAIN s.held, NEW j, j = s.held[i]
               PROVE  t.conn[j].state = "live" \/ t.conn[j].closing \/ j \in s.hasty
    BY <1>2 DEF Caused
  <2>1. j \in Conns
    BY <1>1, StateFields, ElemsIn
  <2>2. s.conn[j].state = "live" \/ s.conn[j].closing \/ j \in s.hasty
    BY DEF CI, Caused
  <2> QED BY <2>1, <2>2 DEF Turns
<1> QED BY <1>7, <1>8, <1>9, <1>10, <1>11 DEF CI

\* Only the loop changes, and what is held.
Loops(s, t, x, h) == t = [s EXCEPT !.loop = x, !.held = h]

\* That keeps everything about the connections.
LEMMA GoodLoop ==
    ASSUME NEW s, NEW w, NEW l, NEW b, NEW D, Good(s, w, l, b, D), NEW x \in Loop, NEW h \in Seq(Conns),
           NEW t, Loops(s, t, x, h)
    PROVE  /\ Good(t, w, l, b, D) /\ t.loop = x /\ t.held = h /\ t.conn = s.conn /\ t.msgs = s.msgs
           /\ t.rest = s.rest /\ t.hasty = s.hasty /\ SameIO(s, t)
<1>1. s \in States /\ s.msgs \in Nat
  BY StateFields DEF Good
<1>2. /\ t \in States /\ t.conn = s.conn /\ t.q = s.q /\ SameIO(s, t) /\ t.msgs = s.msgs /\ t.held = h
      /\ t.rest = s.rest /\ t.hasty = s.hasty /\ t.loop = x
  BY <1>1 DEF Loops, States, SameIO
<1>3. SameCore(s, t)
  BY <1>1, <1>2 DEF SameCore
<1> QED BY <1>2, <1>3, CoreGood

\* Visit.
LEMMA VisitKeeps ==
    ASSUME NEW s, NEW w, NEW l, CI(s, w, l), s.loop.doing \in {"send", "poll"}, s.loop.left # <<>>,
           NEW old \in BOOLEAN, NEW t, t = Visited(s, Head(s.loop.left), old)
    PROVE  CI(t, w, l)
<1>0. PICK p : p = Head(s.loop.left)
  OBVIOUS
<1>1. /\ p \in Conns /\ (p = s.loop.by => p \in s.hasty) /\ p \in Debts(s) /\ Tail(s.loop.left) \in Seq(Conns)
      /\ s \in States /\ s.loop.kept \in Seq(Conns)
  BY <1>0, TurnFacts
<1>2. Good(s, w, l, Busy(s), Debts(s))
  BY DEF CI
<1>3. PICK b, D : b = Busy(s) /\ D = Debts(s)
  OBVIOUS
<1>4. PICK z \in Loop : z = s.loop
  BY <1>1, StateFields
<1>5. PICK y \in Seq(Conns) : y = Tail(s.loop.left)
  BY <1>1
<1>6. PICK x \in Loop : x = [z EXCEPT !.left = y]
  BY DEF Loop
<1>7. x.doing = z.doing /\ x.by = z.by /\ x.left = y /\ x.kept = z.kept
  BY <1>6 DEF Loop
<1>8. PICK v : Loops(s, v, x, s.held)
  BY DEF Loops
<1>9. v = [s EXCEPT !.loop.left = Tail(@)]
  BY <1>1, <1>4, <1>5, <1>6, <1>8 DEF Loops, States
<1>10. /\ Good(v, w, l, b, D) /\ v.loop = x /\ v.held = s.held /\ v.conn = s.conn /\ v.msgs = s.msgs
       /\ v.rest = s.rest /\ v.hasty = s.hasty /\ SameIO(s, v)
  <2>1. Good(s, w, l, b, D) /\ s.held \in Seq(Conns)
    BY <1>1, <1>2, <1>3, StateFields
  <2> QED BY <1>8, <2>1, GoodLoop
<1>11. Turns(s, v, p)
  BY <1>4, <1>5, <1>7, <1>10 DEF Turns
<1>12. ASSUME NEW a, Suits(a, p, v, l), s.conn[p].state = "live", t = end(v, p, a) PROVE CI(t, w, l)
  <2>1. v.conn[p].state = "live"
    BY <1>10, <1>12
  <2>2. Good(t, w, l, b, D \ {p}) /\ Keeps(v, t) /\ Untouched(v, t, p)
    BY <1>1, <1>3, <1>10, <1>12, <2>1, GoodEnd
  <2>3. Turns(s, t, p) /\ t.loop.kept = s.loop.kept
    BY <1>4, <1>7, <1>10, <1>11, <2>2 DEF Turns, Keeps, SameRest, Untouched
  <2> QED BY <1>0, <1>3, <2>2, <2>3, TurnKeeps
<1>13. CASE s.conn[p].state # "live"
  <2>1. t = [v EXCEPT !.broken = TRUE]
    BY <1>0, <1>9, <1>13 DEF Visited
  <2>2. v \in States
    BY <1>10 DEF Good
  <2>3. /\ t \in States /\ t.conn = v.conn /\ t.q = v.q /\ SameIO(v, t) /\ t.msgs = v.msgs /\ t.held = v.held
        /\ t.rest = v.rest /\ t.hasty = v.hasty /\ t.loop = v.loop
    BY <2>1, <2>2 DEF States, SameIO
  <2>4. Good(t, w, l, b, D)
    <3>1. v.msgs \in Nat
      BY <2>2, StateFields
    <3>2. SameCore(v, t)
      BY <2>3, <3>1 DEF SameCore
    <3> QED BY <1>10, <2>3, <3>2, CoreGood
  <2>5. Good(t, w, l, b, D \ {p})
    BY <2>4, GoodFewer
  <2>6. Turns(s, t, p) /\ t.loop.kept = s.loop.kept
    BY <1>4, <1>7, <1>10, <1>11, <2>3 DEF Turns
  <2> QED BY <1>0, <1>3, <2>5, <2>6, TurnKeeps
<1>14. CASE s.conn[p].state = "live" /\ s.loop.doing = "send"
  <2>1. PICK a : a = Messages(s.msgs - 1, s.msgs)
    OBVIOUS
  <2>2. s.msgs \in Nat /\ s.msgs > 0 /\ (p \notin s.hasty => l[p] = s.msgs - 1)
    <3>1. s.msgs > 0
      BY <1>14 DEF CI, LoopOK
    <3>2. p \notin s.hasty => l[p] = s.msgs - 1
      BY <1>1, <1>14 DEF CI, UpToDate
    <3> QED BY <1>1, <3>1, <3>2, StateFields
  <2>3. Suits(a, p, v, l)
    <3>1. a \in Answer /\ (p \notin v.hasty => a.from = l[p]) /\ a.upto = v.msgs
      BY <1>10, <2>1, <2>2 DEF Messages, Answer
    <3>2. v.msgs <= v.msgs
      BY <1>10, <2>2
    <3> QED BY <3>1, <3>2 DEF Suits
  <2>4. t = end(v, p, a)
    BY <1>0, <1>9, <1>14, <2>1 DEF Visited
  <2> QED BY <1>12, <1>14, <2>3, <2>4
<1>15. CASE s.conn[p].state = "live" /\ s.loop.doing = "poll" /\ s.conn[p].open /\ ~old
  <2>1. t = [v EXCEPT !.loop.kept = Append(@, p)]
    BY <1>0, <1>9, <1>15 DEF Visited
  <2>2. PICK g \in Seq(Conns) : g = Append(s.loop.kept, p)
    <3>1. PICK n : n = Len(s.loop.kept)
      OBVIOUS
    <3>2. PICK y2 : y2 = Append(s.loop.kept, p)
      OBVIOUS
    <3>3. y2 \in Seq(Conns)
      BY <1>1, <3>1, <3>2, AppendIs
    <3> QED BY <3>2, <3>3
  <2>3. PICK e \in Loop : e = [x EXCEPT !.kept = g]
    BY DEF Loop
  <2>4. e.doing = x.doing /\ e.by = x.by /\ e.left = x.left /\ e.kept = g
    BY <2>3 DEF Loop
  <2>5. v \in States /\ v.held \in Seq(Conns)
    BY <1>10, StateFields DEF Good
  <2>6. Loops(v, t, e, v.held)
    BY <1>4, <1>7, <1>10, <2>1, <2>2, <2>3, <2>5 DEF Loops, States
  <2>7. /\ Good(t, w, l, b, D) /\ t.loop = e /\ t.held = v.held /\ t.conn = v.conn /\ t.msgs = v.msgs
        /\ t.rest = v.rest /\ t.hasty = v.hasty
    BY <1>10, <2>5, <2>6, GoodLoop
  <2>8. Turns(s, t, p) /\ t.loop.kept = Append(s.loop.kept, p)
    BY <1>10, <1>11, <2>2, <2>4, <2>7 DEF Turns
  <2> QED BY <1>0, <1>3, <1>15, <2>7, <2>8, TurnKeeps
<1>16. CASE s.conn[p].state = "live" /\ s.loop.doing = "poll" /\ ~(s.conn[p].open /\ ~old)
  <2>1. PICK a : a = Plain("empty") /\ Suits(a, p, v, l)
    BY PlainSuits
  <2>2. t = end(v, p, a)
    BY <1>0, <1>9, <1>16, <2>1 DEF Visited
  <2> QED BY <1>12, <1>16, <2>1, <2>2
<1> QED BY <1>13, <1>14, <1>15, <1>16

-----------------------------------------------------------------------------
\* No loop is a state of the loop.
LEMMA NoLoopTyped == NoLoop \in Loop
<1>1. <<>> \in Seq(Conns)
  BY EmptySeq
<1> QED BY <1>1 DEF NoLoop, Loop

\* The loop of a broadcast is over: no response is kept.
LEMMA LeaveSend ==
    ASSUME NEW s, NEW w, NEW l, CI(s, w, l), s.loop.doing = "send", s.loop.left = <<>>,
           NEW t, t = FeedOn(LoopLeft(s), s.loop.by)
    PROVE  CI(t, w, l)
<1>0. PICK k, is : k = s.loop.by /\ is = "200"
  OBVIOUS
<1>1. k \in Conns /\ (k \notin s.hasty => s.rest = <<>>)
  BY <1>0 DEF CI, LoopOK
<1>2. Debts(s) = {k} /\ Busy(s) = k
  <2>1. Elems(s.loop.left) = {}
    BY DEF Elems
  <2> QED BY <1>0, <2>1 DEF Debts, Busy
<1>3. Good(s, w, l, k, {k})
  BY <1>2 DEF CI
<1>4. PICK x \in Loop : x = NoLoop
  BY NoLoopTyped
<1>5. PICK e \in Seq(Conns) : e = <<>>
  BY EmptySeq
<1>6. PICK v : Loops(s, v, x, e)
  BY DEF Loops
<1>7. PICK D : D = {k} /\ k \in D /\ D \ {k} = {}
  OBVIOUS
<1>8. Good(v, w, l, k, D) /\ v.loop = x /\ v.held = e /\ v.conn = s.conn /\ v.rest = s.rest /\ v.hasty = s.hasty
  <2>1. Good(s, w, l, k, D)
    BY <1>3, <1>7
  <2> QED BY <1>6, <2>1, GoodLoop
<1>9. PICK u : u = end(Assigned(v, k), k, Plain(is))
  OBVIOUS
<1>10. LoopLeft(s) = u
  <2>1. v = [[s EXCEPT !.loop = NoLoop] EXCEPT !.held = <<>>]
    <3>1. s \in States
      BY <1>3 DEF Good
    <3> QED BY <1>4, <1>5, <1>6, <3>1 DEF Loops, States
  <2> QED BY <1>0, <1>9, <2>1 DEF LoopLeft
<1>11. Good(u, w, l, k, D \ {k}) /\ Steps(v, u, k)
  <2>1. is \in {"200", "404", "400", "again", "continue", "empty"}
    BY <1>0
  <2>2. v.conn[k].state = "live"
    BY <1>1, <1>8, BusyFacts
  <2> QED BY <1>1, <1>7, <1>8, <1>9, <2>1, <2>2, GoodAssignedEnd
<1>12. u.loop = NoLoop /\ u.held = <<>> /\ u.rest = s.rest /\ u.hasty = s.hasty
  BY <1>4, <1>5, <1>8, <1>11 DEF Steps, Keeps, SameRest
<1>13. Elems(u.held) = {} /\ Distinct(u.held, u.hasty) /\ Caused(u)
  <2>1. PICK g : g = u.held
    OBVIOUS
  <2>2. g = <<>>
    BY <1>12, <2>1
  <2>3. DOMAIN g = {}
    BY <2>2
  <2> QED BY <2>1, <2>3 DEF Elems, Distinct, Caused
<1>14. Settled(u, l)
  BY <1>13 DEF Settled
<1>15. Parses(u, w, l, k)
  <2>1. Good(u, w, l, k, Elems(u.held))
    BY <1>7, <1>11, <1>13
  <2> QED BY <1>1, <1>12, <1>14, <2>1 DEF Parses
<1>16. MayWait(u, k)
  BY <1>13 DEF MayWait, NotKept
<1> QED BY <1>0, <1>1, <1>10, <1>15, <1>16, FeedOnKeeps

\* The loop of a poll is over: its own response is kept too.
LEMMA LeavePoll ==
    ASSUME NEW s, NEW w, NEW l, CI(s, w, l), s.loop.doing = "poll", s.loop.left = <<>>,
           NEW t, t = FeedOn(LoopLeft(s), s.loop.by)
    PROVE  CI(t, w, l)
<1>0. PICK k : k = s.loop.by
  OBVIOUS
<1>1. /\ s \in States /\ k \in Conns
      /\ k \notin s.hasty => k \notin Elems(s.held) /\ s.conn[k].after /\ s.conn[k].open /\ s.rest = <<>>
      /\ Elems(s.loop.kept) \subseteq Elems(s.held) /\ Distinct(s.loop.kept, s.hasty)
  BY <1>0 DEF CI, Good, LoopOK
<1>2. s.loop.kept \in Seq(Conns) /\ s.held \in Seq(Conns) /\ Elems(s.held) \subseteq Conns
  BY <1>1, DebtsIn, StateFields
<1>3. PICK D : D = Elems(s.loop.kept) \cup {k}
  OBVIOUS
<1>4. Debts(s) = D /\ Busy(s) = k
  <2>1. Elems(s.loop.left) = {}
    BY DEF Elems
  <2> QED BY <1>0, <1>3, <2>1 DEF Debts, Busy
<1>5. Good(s, w, l, k, D)
  BY <1>4 DEF CI
<1>6. PICK x \in Loop : x = NoLoop
  BY NoLoopTyped
<1>7. PICK h \in Seq(Conns) : h = Append(s.loop.kept, k) /\ Distinct(h, s.hasty) /\ Elems(h) = D
  <2>1. MayRepeat(k, s.loop.kept, s.hasty)
    BY <1>1 DEF MayRepeat
  <2>2. PICK z : z = s.hasty
    OBVIOUS
  <2>3. PICK y : y = Append(s.loop.kept, k)
    OBVIOUS
  <2>4. y \in Seq(Conns) /\ Distinct(y, z) /\ Elems(y) = D
    <3>1. Distinct(s.loop.kept, z) /\ MayRepeat(k, s.loop.kept, z)
      BY <1>1, <2>1, <2>2
    <3> QED BY <1>1, <1>2, <1>3, <2>3, <3>1, AppendElems
  <2> QED BY <2>2, <2>3, <2>4
<1>8. PICK v : Loops(s, v, x, h)
  BY DEF Loops
<1>9. /\ Good(v, w, l, k, D) /\ v.loop = x /\ v.held = h /\ v.conn = s.conn /\ v.msgs = s.msgs
      /\ v.rest = s.rest /\ v.hasty = s.hasty
  BY <1>5, <1>8, GoodLoop
<1>10. LoopLeft(s) = v
  <2>1. v = [[s EXCEPT !.loop = NoLoop] EXCEPT !.held = Append(s.loop.kept, k)]
    BY <1>1, <1>6, <1>7, <1>8 DEF Loops, States
  <2> QED BY <1>0, <2>1 DEF LoopLeft
<1>11. \A j \in D \ s.hasty : s.conn[j].state = "live" => l[j] = s.msgs
  BY <1>4 DEF CI, UpToDate
<1>12. Caused(v)
  <2> SUFFICES ASSUME NEW i \in DOMAIN h, NEW j, j = h[i]
               PROVE  s.conn[j].state = "live" \/ s.conn[j].closing \/ j \in s.hasty
    BY <1>9 DEF Caused
  <2>1. j \in D
    BY <1>7 DEF Elems
  <2>2. CASE j = k
    <3>1. s.conn[k].state = "live"
      BY <1>1, <1>5, BusyFacts
    <3> QED BY <2>2, <3>1
  <2>3. CASE j # k
    <3>1. j \in Elems(s.held)
      BY <1>1, <1>3, <2>1, <2>3
    <3>2. PICK n \in DOMAIN s.held : s.held[n] = j
      BY <3>1 DEF Elems
    <3> QED BY <3>2 DEF CI, Caused
  <2> QED BY <2>2, <2>3
<1>13. Settled(v, l)
  BY <1>7, <1>9, <1>11, <1>12 DEF Settled
<1>14. Parses(v, w, l, k)
  <2>1. Good(v, w, l, k, Elems(v.held))
    BY <1>7, <1>9
  <2> QED BY <1>1, <1>6, <1>9, <1>13, <2>1 DEF Parses
<1>15. MayWait(v, k)
  BY <1>1, <1>9 DEF MayWait, NotKept
<1> QED BY <1>0, <1>1, <1>10, <1>14, <1>15, FeedOnKeeps

-----------------------------------------------------------------------------
\* The loop over the deadlines that are due.
LEMMA PoppedIs ==
    ASSUME NEW q \in Queues(Conns), q.dq # <<>>, NEW p, p = Popped(q)
    PROVE  /\ p \in Queues(Conns) /\ p.step = q.step + 1
           /\ Len(q.dq) \in Nat /\ q.step \in Nat /\ DOMAIN q.dq = 1 .. Len(q.dq) /\ DOMAIN p.dq = 1 .. (Len(q.dq) - 1)
           /\ Len(p.dq) = Len(q.dq) - 1
           /\ \A i \in 1 .. (Len(q.dq) - 1) : p.dq[i] = q.dq[i + 1]
           /\ Head(q.dq).who \in Conns \cup {Nobody}
<1>1. q.step \in Nat /\ q.dq \in Seq([age : 0 .. TICK, who : Conns \cup {Nobody}])
  BY QueueTyped
<1>2. PICK E : E = [age : 0 .. TICK, who : Conns \cup {Nobody}]
  OBVIOUS
<1>3. PICK r \in Seq(E) : r = q.dq
  BY <1>1, <1>2
<1>4. PICK n, y : n = Len(r) /\ y = Tail(r)
  OBVIOUS
<1>5. /\ n \in Nat /\ n > 0 /\ DOMAIN r = 1 .. n /\ DOMAIN y = 1 .. (n - 1) /\ y \in Seq(E)
      /\ \A j \in 1 .. (n - 1) : y[j] = r[j + 1]
      /\ Head(r) \in E
  BY <1>3, <1>4, TailIs
<1>6. Len(y) = n - 1
  BY <1>5
<1>7. p.step = q.step + 1 /\ p.dq = y
  BY <1>3, <1>4 DEF Popped
<1>8. p \in Queues(Conns)
  <2>1. q.step + 1 \in Nat
    BY <1>1
  <2>2. p = [step |-> q.step + 1, dq |-> y]
    BY <1>3, <1>4 DEF Popped
  <2> QED BY <1>2, <1>5, <2>1, <2>2 DEF Queues
<1>9. Head(q.dq).who \in Conns \cup {Nobody}
  BY <1>2, <1>3, <1>5
<1> QED BY <1>1, <1>3, <1>4, <1>5, <1>6, <1>7, <1>8, <1>9

\* When the entry in front is popped, the others are still those of their owners.
LEMMA PoppedOwned ==
    ASSUME NEW s \in States, Owned(s), s.q.dq # <<>>, NEW t \in States, t.conn = s.conn, t.q = Popped(s.q)
    PROVE  Owned(t)
<1>1. PICK q \in Queues(Conns) : q = s.q
  BY StateFields
<1>2. PICK p : p = Popped(q)
  OBVIOUS
<1>3. PICK n : n = Len(q.dq)
  OBVIOUS
<1>4. /\ p.step = q.step + 1 /\ n \in Nat /\ q.step \in Nat /\ DOMAIN q.dq = 1 .. n /\ DOMAIN p.dq = 1 .. (n - 1)
      /\ Len(p.dq) = n - 1 /\ \A i \in 1 .. (n - 1) : p.dq[i] = q.dq[i + 1]
  BY <1>1, <1>2, <1>3, PoppedIs
<1>5. \A k \in Conns : s.conn[k].key \in Int
  <2> SUFFICES ASSUME NEW k \in Conns PROVE s.conn[k].key \in Int
    OBVIOUS
  <2>1. s.conn[k] \in ConnRecord
    BY StateFields
  <2>2. s.conn[k].key \in Nat \cup {NoKey}
    BY <2>1 DEF ConnRecord
  <2> QED BY <2>2 DEF NoKey
<1>6. ASSUME NEW i \in DOMAIN p.dq, p.dq[i].who # Nobody
      PROVE  s.conn[p.dq[i].who].state = "live" /\ s.conn[p.dq[i].who].key = p.step + i - 1
  <2>1. i + 1 \in DOMAIN q.dq /\ p.dq[i] = q.dq[i + 1] /\ i \in Int
    BY <1>4, <1>6
  <2>2. s.conn[q.dq[i + 1].who].state = "live" /\ s.conn[q.dq[i + 1].who].key = q.step + (i + 1) - 1
    BY <1>1, <1>6, <2>1 DEF Owned
  <2>3. q.step + (i + 1) - 1 = p.step + i - 1
    BY <1>4, <2>1
  <2> QED BY <2>1, <2>2, <2>3
<1>7. ASSUME NEW k \in Conns, Index(p, s.conn[k].key) \in DOMAIN p.dq
      PROVE  p.dq[Index(p, s.conn[k].key)].who = k
  <2>1. PICK i : i = Index(p, s.conn[k].key)
    OBVIOUS
  <2>2. i \in 1 .. (n - 1)
    BY <1>4, <1>7, <2>1
  <2>3. Index(q, s.conn[k].key) = i + 1
    <3>1. PICK key \in Int : key = s.conn[k].key
      BY <1>5
    <3>2. PICK a \in Int : a = q.step /\ p.step = a + 1
      BY <1>4
    <3>3. i = key - (a + 1) + 1 /\ Index(q, key) = key - a + 1
      BY <2>1, <3>1, <3>2 DEF Index
    <3>4. key - a + 1 = (key - (a + 1) + 1) + 1
      OBVIOUS
    <3>5. Index(q, key) = i + 1
      BY <3>3, <3>4
    <3> QED BY <3>1, <3>5
  <2>4. i + 1 \in DOMAIN q.dq /\ p.dq[i] = q.dq[i + 1]
    BY <1>4, <2>2
  <2>5. q.dq[i + 1].who = k
    BY <1>1, <2>3, <2>4 DEF Owned
  <2> QED BY <2>1, <2>4, <2>5
<1>8. ASSUME NEW k \in Conns PROVE s.conn[k].key < p.step + Len(p.dq)
  <2>1. s.conn[k].key < q.step + n
    BY <1>1, <1>3 DEF Owned
  <2>2. PICK a \in Int, e \in Int : a = q.step /\ e = n
    BY <1>4
  <2>3. p.step = a + 1 /\ Len(p.dq) = e - 1
    BY <1>4, <2>2
  <2>4. p.step + Len(p.dq) = a + e
    BY <2>3
  <2> QED BY <2>1, <2>2, <2>4
<1>9. t.q = p
  BY <1>1, <1>2
<1> QED BY <1>6, <1>7, <1>8, <1>9 DEF Owned

\* The queue changes.
Queued(s, t, q) == t = [s EXCEPT !.q = q]

\* Only the queue does.
LEMMA QueuedFacts ==
    ASSUME NEW s \in States, NEW q \in Queues(Conns), NEW t, Queued(s, t, q)
    PROVE  /\ t \in States /\ t.q = q /\ t.conn = s.conn /\ SameIO(s, t) /\ SameRest(s, t) /\ Alike(s, t)
<1>1. t \in States /\ t.q = q /\ t.conn = s.conn /\ SameIO(s, t) /\ SameRest(s, t)
  BY DEF Queued, States, SameIO, SameRest
<1> QED BY <1>1 DEF Alike

\* Deadlines are called: no connection is deleted.
Reaps(s, t) ==
    /\ t.held = s.held /\ t.msgs = s.msgs /\ t.loop = s.loop /\ t.rest = s.rest /\ t.hasty = s.hasty
    /\ \A j \in Conns : /\ t.conn[j].state = s.conn[j].state
                        /\ s.conn[j].closing => t.conn[j].closing

\* What CallDeadline does with the one in front.
Dues(s, u, t, k) == t = IF k = Nobody \/ ~s.conn[k].open THEN u ELSE CloseAdaptor(u, k)

\* CallDeadline.
LEMMA CallKeeps ==
    ASSUME NEW s, NEW w, NEW l, CI(s, w, l), s.loop.doing = "tick", FrontIsDue(s.q),
           NEW k, k = Head(s.q.dq).who,
           NEW u, u = [s EXCEPT !.q = Popped(@)], NEW t, Dues(s, u, t, k)
    PROVE  CI(t, w, l)
<1>1. PICK D : D = Elems(s.held) /\ Good(s, w, l, Nobody, D) /\ Debts(s) = D /\ Busy(s) = Nobody /\ D \subseteq Conns
  BY IdleFacts
<1>2. s \in States /\ Owned(s) /\ s.q \in Queues(Conns)
  BY <1>1, StateFields DEF Good
<1>3. s.q.dq # <<>>
  BY DEF FrontIsDue
<1>4. PICK p \in Queues(Conns) : p = Popped(s.q) /\ k \in Conns \cup {Nobody}
  <2>1. PICK p : p = Popped(s.q)
    OBVIOUS
  <2>2. p \in Queues(Conns) /\ Head(s.q.dq).who \in Conns \cup {Nobody}
    BY <1>2, <1>3, <2>1, PoppedIs
  <2> QED BY <2>1, <2>2
<1>5. Queued(s, u, p)
  BY <1>4 DEF Queued
<1>6. u \in States /\ u.q = p /\ u.conn = s.conn /\ SameIO(s, u) /\ SameRest(s, u) /\ Alike(s, u)
  BY <1>2, <1>5, QueuedFacts
<1>7. Good(u, w, l, Nobody, D) /\ Keeps(s, u)
  <2>1. Owned(u)
    BY <1>2, <1>3, <1>4, <1>6, PoppedOwned
  <2> QED BY <1>1, <1>6, <2>1, AlikeGood
<1>8. Good(t, w, l, Nobody, D) /\ Reaps(s, t)
  <2>1. CASE k = Nobody \/ ~s.conn[k].open
    BY <1>7, <2>1 DEF Keeps, SameRest, Reaps, Dues
  <2>2. CASE ~(k = Nobody \/ ~s.conn[k].open)
    <3>1. k \in Conns
      BY <1>4, <2>2
    <3>2. t = CloseAdaptor(u, k)
      BY <2>2 DEF Dues
    <3>3. PICK j \in Conns : j = k
      BY <3>1
    <3>4. PICK v : v = CloseAdaptor(u, j)
      OBVIOUS
    <3>5. Good(v, w, l, Nobody, D) /\ Keeps(u, v)
      BY <1>7, <3>4, GoodClose
    <3>6. v = t
      BY <3>2, <3>3, <3>4
    <3> QED BY <1>7, <3>5, <3>6 DEF Keeps, SameRest, Reaps
  <2> QED BY <2>1, <2>2
<1>9. Carries(s, t)
  BY <1>1, <1>8 DEF Carries, Reaps
<1> QED BY <1>1, <1>8, <1>9, CICarries

\* What EndOfTick does.
Ended(s, t) == t = [s EXCEPT !.loop = NoLoop]

\* EndOfTick.
LEMMA EndKeeps ==
    ASSUME NEW s, NEW w, NEW l, CI(s, w, l), s.loop.doing = "tick",
           NEW t, Ended(s, t)
    PROVE  CI(t, w, l)
<1>1. Good(s, w, l, Nobody, Elems(s.held)) /\ s \in States
  BY IdleFacts DEF Good
<1>2. PICK x \in Loop : x = NoLoop
  BY NoLoopTyped
<1>3. s.held \in Seq(Conns)
  BY <1>1, StateFields
<1>4. Loops(s, t, x, s.held)
  BY <1>1, <1>2 DEF Ended, Loops, States
<1>5. PICK D : D = Elems(s.held)
  OBVIOUS
<1>6. Good(s, w, l, Nobody, D)
  BY <1>1, <1>5
<1>7. /\ Good(t, w, l, Nobody, D) /\ t.loop = x /\ t.held = s.held /\ t.conn = s.conn /\ t.msgs = s.msgs
      /\ t.rest = s.rest /\ t.hasty = s.hasty
  BY <1>3, <1>4, <1>6, GoodLoop
<1>8. t.loop = [doing |-> "nothing", by |-> Nobody, left |-> <<>>, kept |-> <<>>]
  BY <1>2, <1>7 DEF NoLoop
<1> QED BY <1>5, <1>7, <1>8, BetweenKeeps

-----------------------------------------------------------------------------
\* The network and the clients: h is ready, and only its connection changes.
News(s, t, w, v, h) ==
    /\ t \in States /\ v \subseteq Conns
    /\ t.ready = Append(s.ready, h) /\ t.msgs = s.msgs
    /\ \A j \in Conns : j # h.who =>
        /\ t.conn[j] = s.conn[j] /\ t.wire[j] = s.wire[j]
        /\ j \in s.reads <=> j \in t.reads
        /\ j \in w <=> j \in v
        /\ j \in s.hasty <=> j \in t.hasty

\* The connection of h stays sound.
OwnNews(t, v, b, D, k) == Fine(k, t.hasty, t.conn[k], t.reads, t.wire[k], t.ready, v, b, D)

\* Whether other clients wait does not concern k.
LEMMA FineWaiting ==
    ASSUME NEW k, NEW z, NEW y, NEW c, NEW reads, NEW wr, NEW r, NEW w, NEW v, NEW b, NEW D,
           k \in w <=> k \in v, k \in z <=> k \in y,
           Fine(k, z, c, reads, wr, r, w, b, D)
    PROVE  Fine(k, y, c, reads, wr, r, v, b, D)
BY DEF Fine, Gone, Unmade, OneRead, OneReader, Starts, OneWriter, OneWrite, Indebted, Asking

\* So everything stays, if it does for the connection of h.
LEMMA GoodNews ==
    ASSUME NEW s, NEW w, NEW l, NEW b, NEW D, Good(s, w, l, b, D), NEW h \in Handler, NEW t, NEW v, NEW m,
           News(s, t, w, v, h), Owned(t), Told(t, m), h.who \in Conns => OwnNews(t, v, b, D, h.who)
    PROVE  Good(t, v, m, b, D)
<1>1. s \in States /\ s.ready \in Seq(Handler)
  BY StateFields DEF Good
<1>2. PICK r \in Seq(Handler) : r = s.ready
  BY <1>1
<1>3. t.ready = Append(r, h)
  BY <1>2 DEF News
<1>4. ASSUME NEW k \in Conns
      PROVE  Fine(k, t.hasty, t.conn[k], t.reads, t.wire[k], t.ready, v, b, D)
  <2>1. CASE k = h.who
    BY <2>1 DEF OwnNews
  <2>2. CASE k # h.who
    <3>1. /\ t.conn[k] = s.conn[k] /\ t.wire[k] = s.wire[k]
          /\ k \in s.reads <=> k \in t.reads
          /\ k \in w <=> k \in v
          /\ k \in s.hasty <=> k \in t.hasty
      BY <2>2 DEF News
    <3>2. PICK c, rs, rt, wr, z, y : /\ c = s.conn[k] /\ rs = s.reads /\ rt = t.reads /\ wr = s.wire[k]
                                    /\ z = s.hasty /\ y = t.hasty
      OBVIOUS
    <3>3. Fine(k, z, c, rs, wr, r, w, b, D)
      BY <1>2, <3>2 DEF Good, Sound
    <3>4. (k \in rs <=> k \in rt) /\ (k \in D <=> k \in D) /\ h.who # k
      BY <2>2, <3>1, <3>2
    <3>5. Fine(k, z, c, rt, wr, Append(r, h), w, b, D)
      BY <3>3, <3>4, OtherAppend
    <3>6. Fine(k, y, c, rt, wr, Append(r, h), v, b, D)
      BY <3>1, <3>2, <3>5, FineWaiting
    <3> QED BY <1>3, <3>1, <3>2, <3>6
  <2> QED BY <2>1, <2>2
<1> QED BY <1>4 DEF Good, Sound, News

\* The clients know what they should when h is ready that says so too, though more are hasty.
LEMMA ToldNews ==
    ASSUME NEW s, NEW t, NEW l, Told(s, l), s.ready \in Seq(Handler), t.wire = s.wire, t.msgs = s.msgs,
           s.hasty \subseteq t.hasty, NEW h \in Handler, t.ready = Append(s.ready, h), Says(h, l, t.hasty)
    PROVE  Told(t, l)
<1>1. PICK y : y = t.ready
  OBVIOUS
<1>2. PICK n : n = Len(s.ready)
  OBVIOUS
<1>3. /\ n \in Nat /\ DOMAIN s.ready = 1 .. n /\ DOMAIN y = 1 .. (n + 1) /\ y[n + 1] = h
      /\ \A j \in 1 .. n : y[j] = s.ready[j]
  BY <1>1, <1>2, AppendIs
<1>4. \A j \in DOMAIN s.ready : Says(s.ready[j], l, t.hasty)
  <2>1. ASSUME NEW g, Says(g, l, s.hasty) PROVE Says(g, l, t.hasty)
    BY <2>1 DEF Says
  <2> QED BY <2>1 DEF Told
<1>5. \A j \in DOMAIN y : y[j] = h \/ (j \in DOMAIN s.ready /\ y[j] = s.ready[j])
  BY <1>3
<1>6. \A j \in DOMAIN y : Says(y[j], l, t.hasty)
  BY <1>4, <1>5
<1>7. \A k \in Conns : \A i \in DOMAIN t.wire[k] : t.wire[k][i].is = "msgs" =>
        /\ k \notin t.hasty => t.wire[k][i].from = l[k]
        /\ t.wire[k][i].upto <= t.msgs
  BY DEF Told
<1>8. l \in [Conns -> Nat] /\ \A k \in Conns : l[k] <= t.msgs
  BY DEF Told
<1> QED BY <1>1, <1>6, <1>7, <1>8 DEF Told

\* A step between which the debts stay what they are.
SameDebts(s, t) ==
    /\ t.held = s.held /\ t.msgs = s.msgs /\ t.loop = s.loop /\ t.rest = s.rest /\ s.hasty \subseteq t.hasty
    /\ \A j \in Conns : /\ s.conn[j].closing = t.conn[j].closing /\ s.conn[j].after = t.conn[j].after
                        /\ s.conn[j].open => t.conn[j].open
                        /\ t.conn[j].state = s.conn[j].state \/ (j \notin Debts(s) /\ t.conn[j].state = "live")

\* The invariant holds after such a step.
LEMMA NewsKeep ==
    ASSUME NEW s, NEW w, NEW l, CI(s, w, l), NEW t, NEW v, NEW m, SameDebts(s, t),
           Good(t, v, m, Busy(s), Debts(s)), \A k \in Debts(s) \ t.hasty : m[k] = l[k]
    PROVE  CI(t, v, m)
<1>1. s \in States /\ LoopOK(s)
  BY DEF CI, Good
<1>2. Elems(s.held) \subseteq Conns
  BY <1>1, DebtsIn
<1>3. s.loop.doing = "poll" => s.loop.by \in Conns
  BY <1>1 DEF LoopOK
<1>4. Carries(s, t)
  BY <1>2, <1>3 DEF Carries, SameDebts, StillOpen
<1> QED BY <1>4, CICarries

-----------------------------------------------------------------------------
\* A second passes.
LEMMA AgedIs ==
    ASSUME NEW q \in Queues(Conns), NEW p, p = Aged(q)
    PROVE  /\ p \in Queues(Conns) /\ p.step = q.step /\ DOMAIN p.dq = DOMAIN q.dq /\ Len(p.dq) = Len(q.dq)
           /\ \A i \in DOMAIN q.dq : p.dq[i].who = q.dq[i].who
<1>1. PICK E : E = [age : 0 .. TICK, who : Conns \cup {Nobody}]
  OBVIOUS
<1>2. q.step \in Nat /\ q.dq \in Seq(E)
  BY <1>1, QueueTyped
<1>3. PICK r \in Seq(E) : r = q.dq
  BY <1>2
<1>4. PICK n \in Nat : n = Len(r) /\ DOMAIN r = 1 .. n /\ r \in [1 .. n -> E]
  BY <1>3
<1>5. PICK y : y = [i \in DOMAIN r |-> [r[i] EXCEPT !.age = Older(r[i].age)]]
  OBVIOUS
<1>6. ASSUME NEW i \in 1 .. n PROVE y[i] \in E /\ y[i].who = r[i].who
  <2>1. PICK e \in E : e = r[i]
    BY <1>4
  <2>2. e.age \in 0 .. TICK /\ TICK \in Nat
    BY <1>1, TimerAssumption
  <2>3. PICK a \in 0 .. TICK : a = Older(e.age)
    BY <2>2 DEF Older
  <2>4. PICK f : f = [e EXCEPT !.age = a]
    OBVIOUS
  <2>5. f \in E /\ f.who = e.who
    BY <1>1, <2>4
  <2>6. y[i] = f
    BY <1>4, <1>5, <2>1, <2>3, <2>4
  <2> QED BY <2>1, <2>5, <2>6
<1>7. DOMAIN y = 1 .. n /\ y \in [1 .. n -> E]
  BY <1>4, <1>5, <1>6
<1>8. y \in Seq(E) /\ Len(y) = n
  BY <1>7
<1>9. p.step = q.step /\ p.dq = y /\ p = [step |-> q.step, dq |-> y]
  <2>1. y = [i \in DOMAIN q.dq |-> [q.dq[i] EXCEPT !.age = Older(@)]]
    BY <1>3, <1>5
  <2>2. p = [q EXCEPT !.dq = y]
    BY <2>1 DEF Aged
  <2> QED BY <2>2 DEF Queues
<1>10. p \in Queues(Conns)
  BY <1>1, <1>2, <1>8, <1>9 DEF Queues
<1> QED BY <1>3, <1>4, <1>6, <1>7, <1>8, <1>9, <1>10

\* The deadlines are owned when a second has passed.
LEMMA AgedOwned ==
    ASSUME NEW s \in States, Owned(s), NEW t \in States, t.conn = s.conn, t.q = Aged(s.q)
    PROVE  Owned(t)
<1>1. PICK q \in Queues(Conns) : q = s.q
  BY StateFields
<1>2. PICK p : p = Aged(q)
  OBVIOUS
<1>3. /\ p.step = q.step /\ DOMAIN p.dq = DOMAIN q.dq /\ Len(p.dq) = Len(q.dq)
      /\ \A i \in DOMAIN q.dq : p.dq[i].who = q.dq[i].who
  BY <1>2, AgedIs
<1>4. t.q = p
  BY <1>1, <1>2
<1>5. \A k \in Conns : Index(p, s.conn[k].key) = Index(q, s.conn[k].key)
  BY <1>3 DEF Index
<1> QED BY <1>1, <1>3, <1>4, <1>5 DEF Owned

\* What Ready does.
Readies(s, t, h) == t = [s EXCEPT !.ready = Append(@, h)]

\* A handler becomes ready.
LEMMA ReadyFacts ==
    ASSUME NEW s \in States, NEW h \in Handler, NEW t, Readies(s, t, h)
    PROVE  /\ t \in States /\ t.ready = Append(s.ready, h)
           /\ t.conn = s.conn /\ t.q = s.q /\ t.reads = s.reads /\ t.wire = s.wire /\ SameRest(s, t)
<1>1. PICK r \in Seq(Handler) : r = s.ready
  BY StateFields
<1>2. PICK n, y : n = Len(r) /\ y = Append(r, h)
  OBVIOUS
<1>3. y \in Seq(Handler)
  BY <1>2, AppendIs
<1>4. t = [s EXCEPT !.ready = y]
  BY <1>1, <1>2 DEF Readies
<1>5. /\ t \in States /\ t.ready = y
      /\ t.conn = s.conn /\ t.q = s.q /\ t.reads = s.reads /\ t.wire = s.wire /\ SameRest(s, t)
  BY <1>3, <1>4 DEF States, SameRest
<1> QED BY <1>1, <1>2, <1>5

\* Second.
LEMMA SecondKeeps ==
    ASSUME NEW s, NEW w, NEW l, CI(s, w, l),
           NEW t, t = [Ready(s, Nobody, "tick", TRUE, <<>>) EXCEPT !.q = Aged(@)]
    PROVE  CI(t, w, l)
<1>1. PICK b, D : b = Busy(s) /\ D = Debts(s)
  OBVIOUS
<1>2. Good(s, w, l, b, D) /\ s \in States
  BY <1>1 DEF CI, Good
<1>3. PICK h : h = [who |-> Nobody, what |-> "tick", ok |-> TRUE, load |-> <<>>]
  OBVIOUS
<1>4. h \in Handler /\ h.who = Nobody /\ h.what = "tick"
  <2>1. <<>> \in Seq(Request)
    OBVIOUS
  <2> QED BY <1>3, <2>1 DEF Handler
<1>5. PICK u : Readies(s, u, h)
  BY DEF Readies
<1>6. /\ u \in States /\ u.ready = Append(s.ready, h)
      /\ u.conn = s.conn /\ u.q = s.q /\ u.reads = s.reads /\ u.wire = s.wire /\ SameRest(s, u)
  BY <1>2, <1>4, <1>5, ReadyFacts
<1>7. PICK p \in Queues(Conns) : p = Aged(s.q)
  <2>1. s.q \in Queues(Conns)
    BY <1>2, StateFields
  <2> QED BY <2>1, AgedIs
<1>8. Queued(u, t, p)
  <2>1. u = Ready(s, Nobody, "tick", TRUE, <<>>)
    BY <1>3, <1>5 DEF Ready, Readies
  <2> QED BY <1>6, <1>7, <2>1 DEF Queued
<1>9. t \in States /\ t.q = p /\ t.conn = u.conn /\ SameIO(u, t) /\ SameRest(u, t)
  BY <1>6, <1>8, QueuedFacts
<1>10. News(s, t, w, w, h)
  <2>1. w \subseteq Conns
    BY <1>2 DEF Good
  <2> QED BY <1>6, <1>9, <2>1 DEF News, SameIO, SameRest
<1>11. Owned(t)
  BY <1>2, <1>6, <1>7, <1>9, AgedOwned DEF Good
<1>12. Told(t, l)
  <2>1. Says(h, l, t.hasty)
    BY <1>4 DEF Says, Asks
  <2>2. s.ready \in Seq(Handler) /\ Told(s, l)
    BY <1>2, StateFields DEF Good
  <2>3. t.wire = s.wire /\ t.msgs = s.msgs /\ t.ready = Append(s.ready, h) /\ s.hasty \subseteq t.hasty
    BY <1>6, <1>9 DEF SameIO, SameRest
  <2> QED BY <1>4, <2>1, <2>2, <2>3, ToldNews
<1>13. h.who \in Conns => OwnNews(t, w, b, D, h.who)
  BY <1>4, ConnAssumption
<1>14. Good(t, w, l, b, D)
  BY <1>2, <1>4, <1>10, <1>11, <1>12, <1>13, GoodNews
<1>15. SameDebts(s, t)
  BY <1>6, <1>9 DEF SameDebts, SameRest
<1> QED BY <1>1, <1>14, <1>15, NewsKeep

-----------------------------------------------------------------------------
\* Accept: a connection that is made has a start handler, and nothing else.
LEMMA FineAccept ==
    ASSUME NEW k \in Conns, NEW z, NEW c, NEW d, NEW reads, NEW wr, NEW r \in Seq(Handler), NEW w, NEW b, NEW D,
           Fine(k, z, c, reads, wr, r, w, b, D), c.state = "free", d.state = "live", d.resume = c.resume,
           NEW h \in Handler, h.who = k, h.what = "start"
    PROVE  Fine(k, z, d, reads, wr, Append(r, h), w, b, D)
<1>1. PICK n, y : n = Len(r) /\ y = Append(r, h)
  OBVIOUS
<1>2. /\ n \in Nat /\ DOMAIN r = 1 .. n /\ DOMAIN y = 1 .. (n + 1) /\ y[n + 1] = h
      /\ \A j \in 1 .. n : y[j] = r[j]
  BY <1>1, AppendIs
<1>3. /\ k \notin reads /\ wr = <<>> /\ b # k /\ ~c.resume /\ k \notin w /\ k \notin D /\ k \notin z
      /\ \A j \in DOMAIN r : r[j].who # k
  BY DEF Fine, Gone, Unmade
<1>4. \A j \in DOMAIN y : y[j].who = k => j = n + 1 /\ y[j].what = "start" /\ ~Asks(y[j])
  BY <1>2, <1>3 DEF Asks
<1>5. Fine(k, z, d, reads, wr, y, w, b, D)
  <2>1. Gone(k, z, d, reads, wr, y, b) /\ Unmade(k, z, d, w, D)
    BY DEF Gone, Unmade
  <2>2. OneRead(k, d, reads, y, b)
    BY <1>3 DEF OneRead
  <2>3. OneReader(k, d, y)
    BY <1>4 DEF OneReader
  <2>4. Starts(k, z, d, wr, y, w)
    BY <1>3, <1>4 DEF Starts
  <2>5. OneWriter(k, z, d, wr, y)
    BY <1>4 DEF OneWriter
  <2>6. OneWrite(k, z, d, wr, w, D)
    BY <1>3 DEF OneWrite
  <2>7. Indebted(k, z, d, reads, y, w, D)
    BY <1>3 DEF Indebted
  <2>8. Asking(k, z, wr, y, w, D)
    BY <1>4 DEF Asking
  <2> QED BY <2>1, <2>2, <2>3, <2>4, <2>5, <2>6, <2>7, <2>8 DEF Fine
<1> QED BY <1>1, <1>5

\* What Accept does.
Accepted(s, t, k) ==
    t = Ready([s EXCEPT !.conn[k].state = "live", !.conn[k].open = TRUE], k, "start", TRUE, <<>>)

\* Accept keeps the invariant.
LEMMA AcceptKeeps ==
    ASSUME NEW s, NEW w, NEW l, CI(s, w, l), NEW k \in Conns, s.conn[k].state = "free", NEW t, Accepted(s, t, k)
    PROVE  CI(t, w, l)
<1>1. PICK b, D : b = Busy(s) /\ D = Debts(s)
  OBVIOUS
<1>2. Good(s, w, l, b, D) /\ s \in States /\ Owned(s) /\ Told(s, l) /\ w \subseteq Conns
  BY <1>1 DEF CI, Good
<1>3. PICK h : h = [who |-> k, what |-> "start", ok |-> TRUE, load |-> <<>>]
  OBVIOUS
<1>4. h \in Handler /\ h.who = k /\ h.what = "start"
  <2>1. <<>> \in Seq(Request)
    OBVIOUS
  <2> QED BY <1>3, <2>1 DEF Handler
<1>5. PICK c \in ConnRecord : c = s.conn[k]
  BY <1>2, StateFields
<1>6. PICK d : d = [c EXCEPT !.state = "live", !.open = TRUE]
  OBVIOUS
<1>7. /\ d \in ConnRecord /\ d.state = "live" /\ d.open = TRUE /\ d.resume = c.resume /\ d.key = c.key
      /\ d.closing = c.closing /\ d.after = c.after
  BY <1>6 DEF ConnRecord
<1>8. PICK u : Sets(s, u, k, d)
  BY DEF Sets
<1>9. u \in States /\ Only(s, u, k, d) /\ u.q = s.q /\ SameIO(s, u) /\ SameRest(s, u)
  BY <1>2, <1>7, <1>8, SetFacts
<1>10. Readies(u, t, h)
  <2>1. u = [s EXCEPT !.conn[k].state = "live", !.conn[k].open = TRUE]
    <3>1. s.conn \in [Conns -> ConnRecord]
      BY <1>2, StateFields
    <3> QED BY <1>2, <1>5, <1>6, <1>8, <3>1 DEF Sets, States
  <2> QED BY <1>3, <2>1 DEF Accepted, Ready, Readies
<1>11. /\ t \in States /\ t.ready = Append(u.ready, h)
       /\ t.conn = u.conn /\ t.q = u.q /\ t.reads = u.reads /\ t.wire = u.wire /\ SameRest(u, t)
  BY <1>4, <1>9, <1>10, ReadyFacts
<1>12. /\ t.ready = Append(s.ready, h) /\ t.q = s.q /\ t.reads = s.reads /\ t.wire = s.wire /\ SameRest(s, t)
       /\ t.conn[k] = d /\ \A j \in Conns : j # k => t.conn[j] = s.conn[j]
  BY <1>9, <1>11 DEF Only, SameIO, SameRest
<1>13. News(s, t, w, w, h)
  BY <1>2, <1>4, <1>11, <1>12 DEF News, SameRest
<1>14. Owned(t)
  <2>1. \A i \in DOMAIN s.q.dq : s.q.dq[i].who # k
    <3>1. k # Nobody
      BY ConnAssumption
    <3> QED BY <1>2, <3>1 DEF Owned
  <2>2. \A j \in Conns : t.conn[j].key = s.conn[j].key
    BY <1>5, <1>7, <1>12
  <2>3. \A i \in DOMAIN s.q.dq : s.q.dq[i].who # Nobody => s.q.dq[i].who \in Conns
    BY <1>2, StateFields, QueueTyped
  <2> QED BY <1>2, <1>12, <2>1, <2>2, <2>3 DEF Owned
<1>15. Told(t, l)
  <2>1. Says(h, l, t.hasty)
    BY <1>4 DEF Says, Asks
  <2>2. s.ready \in Seq(Handler)
    BY <1>2, StateFields
  <2>3. t.wire = s.wire /\ t.msgs = s.msgs /\ t.ready = Append(s.ready, h) /\ s.hasty \subseteq t.hasty
    BY <1>12 DEF SameRest
  <2> QED BY <1>2, <1>4, <2>1, <2>2, <2>3, ToldNews
<1>16. Fine(k, s.hasty, s.conn[k], s.reads, s.wire[k], s.ready, w, b, D)
  BY <1>2 DEF Good, Sound
<1>17. h.who \in Conns => OwnNews(t, w, b, D, h.who)
  <2>0. PICK r \in Seq(Handler) : r = s.ready
    BY <1>2, StateFields
  <2>1. PICK rd, wr, z : r = s.ready /\ rd = s.reads /\ wr = s.wire[k] /\ z = s.hasty
    BY <2>0
  <2>2. Fine(k, z, c, rd, wr, r, w, b, D) /\ c.state = "free"
    BY <1>5, <1>16, <2>1
  <2>3. Fine(k, z, d, rd, wr, Append(r, h), w, b, D)
    BY <1>4, <1>7, <2>2, FineAccept
  <2>4. t.hasty = s.hasty
    BY <1>12 DEF SameRest
  <2> QED BY <1>4, <1>12, <2>1, <2>3, <2>4 DEF OwnNews
<1>18. Good(t, w, l, b, D)
  BY <1>2, <1>4, <1>13, <1>14, <1>15, <1>17, GoodNews
<1>19. SameDebts(s, t)
  <2>1. k \notin D
    BY <1>16 DEF Fine, Unmade
  <2> QED BY <1>1, <1>5, <1>7, <1>12, <2>1 DEF SameDebts, SameRest
<1> QED BY <1>1, <1>18, <1>19, NewsKeep

-----------------------------------------------------------------------------
\* A pending read ends, and z are hasty then.
ReadEnds(s, t, k, h, z) ==
    t = [[[s EXCEPT !.reads = @ \ {k}] EXCEPT !.ready = Append(@, h)] EXCEPT !.hasty = z]

\* What does not change then.
ReadLeaves(s, t, k, h, z) ==
    /\ t \in States /\ t.ready = Append(s.ready, h) /\ t.reads = s.reads \ {k} /\ t.hasty = z
    /\ t.conn = s.conn /\ t.q = s.q /\ t.wire = s.wire
    /\ t.held = s.held /\ t.msgs = s.msgs /\ t.loop = s.loop /\ t.rest = s.rest

\* A handler for it becomes ready.
LEMMA ReadEndsFacts ==
    ASSUME NEW s \in States, NEW k \in Conns, NEW h \in Handler, NEW z \in SUBSET Conns,
           NEW t, ReadEnds(s, t, k, h, z)
    PROVE  ReadLeaves(s, t, k, h, z)
<1>1. PICK e \in SUBSET Conns : e = s.reads \ {k}
  BY StateFields
<1>2. PICK u : u = [s EXCEPT !.reads = e]
  OBVIOUS
<1>3. /\ u \in States /\ u.reads = e /\ u.ready = s.ready
      /\ u.conn = s.conn /\ u.q = s.q /\ u.wire = s.wire /\ SameRest(s, u)
  BY <1>2 DEF States, SameRest
<1>4. PICK x : Readies(u, x, h)
  BY DEF Readies
<1>5. /\ x \in States /\ x.ready = Append(u.ready, h)
      /\ x.conn = u.conn /\ x.q = u.q /\ x.reads = u.reads /\ x.wire = u.wire /\ SameRest(u, x)
  BY <1>3, <1>4, ReadyFacts
<1>6. t = [x EXCEPT !.hasty = z]
  BY <1>1, <1>2, <1>4 DEF ReadEnds, Readies
<1>7. /\ t \in States /\ t.ready = x.ready /\ t.reads = x.reads /\ t.hasty = z
      /\ t.conn = x.conn /\ t.q = x.q /\ t.wire = x.wire
      /\ t.held = x.held /\ t.msgs = x.msgs /\ t.loop = x.loop /\ t.rest = x.rest
  BY <1>5, <1>6 DEF States
<1> QED BY <1>1, <1>3, <1>5, <1>7 DEF SameRest, ReadLeaves

\* The invariant holds when a read ends, if it does for the connection.
LEMMA ReadEndsKeeps ==
    ASSUME NEW s, NEW w, NEW l, CI(s, w, l), NEW k \in Conns, k \in s.reads, NEW h \in Handler, h.who = k,
           h.what = "read", NEW z \in SUBSET Conns, s.hasty \subseteq z, Says(h, l, z), NEW v \in SUBSET Conns,
           \A j \in Conns : j # k => (j \in w <=> j \in v) /\ (j \in s.hasty <=> j \in z),
           NEW t, ReadEnds(s, t, k, h, z), OwnNews(t, v, Busy(s), Debts(s), k)
    PROVE  CI(t, v, l)
<1>1. PICK b, D : b = Busy(s) /\ D = Debts(s)
  OBVIOUS
<1>2. Good(s, w, l, b, D) /\ s \in States /\ Owned(s) /\ Told(s, l)
  BY <1>1 DEF CI, Good
<1>3. ReadLeaves(s, t, k, h, z)
  BY <1>2, ReadEndsFacts
<1>4. News(s, t, w, v, h)
  BY <1>3 DEF News, ReadLeaves
<1>5. Owned(t)
  BY <1>2, <1>3 DEF Owned, ReadLeaves
<1>6. Told(t, l)
  <2>1. s.ready \in Seq(Handler)
    BY <1>2, StateFields
  <2>2. t.wire = s.wire /\ t.msgs = s.msgs /\ t.ready = Append(s.ready, h) /\ t.hasty = z
    BY <1>3 DEF ReadLeaves
  <2> QED BY <1>2, <2>1, <2>2, ToldNews
<1>7. h.who \in Conns => OwnNews(t, v, b, D, h.who)
  BY <1>1
<1>8. Good(t, v, l, b, D)
  BY <1>2, <1>4, <1>5, <1>6, <1>7, GoodNews
<1>9. SameDebts(s, t)
  BY <1>3 DEF SameDebts, ReadLeaves
<1> QED BY <1>1, <1>8, <1>9, NewsKeep

\* Requests, or part of one, are read from a client; one that waits, or that
\* sends more than one, is hasty then.
LEMMA FineAsk ==
    ASSUME NEW k \in Conns, NEW z, NEW y, NEW c, NEW reads, NEW wr, NEW r \in Seq(Handler), NEW w, NEW v, NEW b, NEW D,
           Fine(k, z, c, reads, wr, r, w, b, D), k \in reads, k \in z => k \in y, k \notin y => k \notin w,
           NEW h \in Handler, h.who = k, h.what = "read", Asks(h) /\ k \notin y => k \in v
    PROVE  Fine(k, y, c, reads \ {k}, wr, Append(r, h), v, b, D)
<1>1. PICK n, x : n = Len(r) /\ x = Append(r, h)
  OBVIOUS
<1>2. /\ n \in Nat /\ DOMAIN r = 1 .. n /\ DOMAIN x = 1 .. (n + 1) /\ x[n + 1] = h
      /\ \A j \in 1 .. n : x[j] = r[j]
  BY <1>1, AppendIs
<1>3. /\ b # k /\ c.state = "live" /\ c.reading /\ ~c.resume
      /\ \A j \in DOMAIN r : r[j].who = k => r[j].what = "write"
  BY DEF Fine, Gone, OneRead
<1>4. k \notin y => k \notin z /\ wr = <<>> /\ k \notin D
  BY <1>3 DEF Fine, OneWrite, Indebted
<1>5. \A j \in DOMAIN x : x[j].who = k =>
        \/ j \in DOMAIN r /\ x[j] = r[j] /\ x[j].what = "write" /\ ~Asks(x[j]) /\ j < n + 1
        \/ j = n + 1
  BY <1>2, <1>3 DEF Asks
<1>6. Fine(k, y, c, reads \ {k}, wr, x, v, b, D)
  <2>1. Gone(k, y, c, reads \ {k}, wr, x, b) /\ Unmade(k, y, c, v, D)
    BY <1>3 DEF Gone, Unmade
  <2>2. OneRead(k, c, reads \ {k}, x, b)
    BY <1>3 DEF OneRead
  <2>3. OneReader(k, c, x)
    BY <1>2, <1>3, <1>5 DEF OneReader
  <2>4. Starts(k, y, c, wr, x, v)
    BY <1>2, <1>5 DEF Starts
  <2>5. OneWriter(k, y, c, wr, x)
    BY <1>2, <1>4, <1>5 DEF Fine, OneWriter
  <2>6. OneWrite(k, y, c, wr, v, D)
    BY <1>4 DEF OneWrite
  <2>7. Indebted(k, y, c, reads \ {k}, x, v, D)
    BY <1>4 DEF Indebted
  <2>8. Asking(k, y, wr, x, v, D)
    BY <1>2, <1>4, <1>5 DEF Asking
  <2> QED BY <2>1, <2>2, <2>3, <2>4, <2>5, <2>6, <2>7, <2>8 DEF Fine
<1> QED BY <1>1, <1>6

\* What Ask does: the requests load are read.
AsksFor(s, t, k, load, w) ==
    t = [Ready([s EXCEPT !.reads = @ \ {k}], k, "read", TRUE, load)
           EXCEPT !.hasty = IF k \in w \/ Len(load) > 1 THEN @ \cup {k} ELSE @]

\* The clients that wait then.
WaitFor(w, k, load) == IF Head(load).route = "part" THEN w ELSE w \cup {k}

\* Ask keeps the invariant.
LEMMA AskKeeps ==
    ASSUME NEW s, NEW w, NEW l, CI(s, w, l), NEW k \in Conns, k \in s.reads,
           NEW load \in Seq(Request), load # <<>>, Head(load).last = l[k],
           NEW t, AsksFor(s, t, k, load, w), NEW v, v = WaitFor(w, k, load)
    PROVE  CI(t, v, l)
<1>1. PICK b, D : b = Busy(s) /\ D = Debts(s)
  OBVIOUS
<1>2. Good(s, w, l, b, D) /\ s \in States /\ Told(s, l) /\ w \subseteq Conns /\ s.hasty \subseteq Conns
  <2>1. Good(s, w, l, b, D)
    BY <1>1 DEF CI
  <2>2. s \in States
    BY <2>1 DEF Good
  <2> QED BY <2>1, <2>2, StateFields DEF Good
<1>3. PICK z \in SUBSET Conns : z = IF k \in w \/ Len(load) > 1 THEN s.hasty \cup {k} ELSE s.hasty
  BY <1>2
<1>4. /\ s.hasty \subseteq z /\ (k \notin z => k \notin w /\ ~(Len(load) > 1))
      /\ \A j \in Conns : j # k => (j \in s.hasty <=> j \in z)
  BY <1>3
<1>5. PICK h : h = [who |-> k, what |-> "read", ok |-> TRUE, load |-> load]
  OBVIOUS
<1>6. h \in Handler /\ h.who = k /\ h.what = "read" /\ h.ok = TRUE /\ h.load = load
  BY <1>5 DEF Handler
<1>7. Says(h, l, z)
  <2>1. PICK n \in Nat : n = Len(load) /\ n # 0
    BY EmptySeq
  <2>2. k \notin z => Len(load) = 1
    <3>1. k \notin z => ~(n > 1)
      BY <1>4, <2>1
    <3>2. ~(n > 1) => n = 1
      BY <2>1
    <3> QED BY <2>1, <3>1, <3>2
  <2> QED BY <1>6, <2>2 DEF Says
<1>8. v \in SUBSET Conns /\ (\A j \in Conns : j # k => (j \in w <=> j \in v)) /\ (Asks(h) => k \in v)
  BY <1>2, <1>6 DEF WaitFor, Asks
<1>9. ReadEnds(s, t, k, h, z)
  BY <1>3, <1>5 DEF AsksFor, Ready, ReadEnds
<1>10. ReadLeaves(s, t, k, h, z)
  BY <1>2, <1>6, <1>9, ReadEndsFacts
<1>11. OwnNews(t, v, b, D, k)
  <2>0. PICK r \in Seq(Handler) : r = s.ready
    BY <1>2, StateFields
  <2>1. PICK c, rd, wr, y : r = s.ready /\ c = s.conn[k] /\ rd = s.reads /\ wr = s.wire[k] /\ y = s.hasty
    BY <2>0
  <2>2. Fine(k, y, c, rd, wr, r, w, b, D) /\ k \in rd
    BY <1>2, <2>1 DEF Good, Sound
  <2>3. (k \in y => k \in z) /\ (k \notin z => k \notin w) /\ (Asks(h) /\ k \notin z => k \in v)
    BY <1>4, <1>8, <2>1
  <2>4. Fine(k, z, c, rd \ {k}, wr, Append(r, h), v, b, D)
    BY <1>6, <2>2, <2>3, FineAsk
  <2> QED BY <1>10, <2>1, <2>4 DEF OwnNews, ReadLeaves
<1>12. \A j \in Conns : j # k => (j \in w <=> j \in v) /\ (j \in s.hasty <=> j \in z)
  BY <1>4, <1>8
<1> QED BY <1>1, <1>4, <1>6, <1>7, <1>8, <1>9, <1>11, <1>12, ReadEndsKeeps

\* HangUp.
HungUp(s, t, k) == t = Ready([s EXCEPT !.reads = @ \ {k}], k, "read", FALSE, <<>>)

\* HangUp keeps the invariant.
LEMMA HangUpKeeps ==
    ASSUME NEW s, NEW w, NEW l, CI(s, w, l), NEW k \in Conns, k \in s.reads,
           NEW t, HungUp(s, t, k)
    PROVE  CI(t, w, l)
<1>1. PICK b, D : b = Busy(s) /\ D = Debts(s)
  OBVIOUS
<1>2. Good(s, w, l, b, D) /\ s \in States /\ w \in SUBSET Conns
  BY <1>1 DEF CI, Good
<1>3. PICK z \in SUBSET Conns : z = s.hasty
  BY <1>2, StateFields
<1>4. PICK h \in Handler : h = Failed(k, "read") /\ h.who = k /\ h.what = "read" /\ ~h.ok
  BY FailedType DEF Failed
<1>5. Says(h, l, z)
  BY <1>4 DEF Says, Asks
<1>6. ReadEnds(s, t, k, h, z)
  <2>1. PICK x : x = [[s EXCEPT !.reads = @ \ {k}] EXCEPT !.ready = Append(@, h)]
    OBVIOUS
  <2>2. t = x
    BY <1>4, <2>1 DEF HungUp, Ready, Failed
  <2>3. x.hasty = z /\ x = [x EXCEPT !.hasty = x.hasty]
    BY <1>2, <1>3, <2>1 DEF States
  <2> QED BY <2>1, <2>2, <2>3 DEF ReadEnds
<1>7. ReadLeaves(s, t, k, h, z)
  BY <1>2, <1>4, <1>6, ReadEndsFacts
<1>8. OwnNews(t, w, b, D, k)
  <2>0. PICK r \in Seq(Handler) : r = s.ready
    BY <1>2, StateFields
  <2>1. PICK c, rd, wr : r = s.ready /\ c = s.conn[k] /\ rd = s.reads /\ wr = s.wire[k]
    BY <2>0
  <2>2. Fine(k, z, c, rd, wr, r, w, b, D) /\ k \in rd
    BY <1>2, <1>3, <2>1 DEF Good, Sound
  <2>3. Fine(k, z, c, rd \ {k}, wr, Append(r, Failed(k, "read")), w, b, D)
    BY <2>2, FineReadAborts
  <2> QED BY <1>4, <1>7, <2>1, <2>3 DEF OwnNews, ReadLeaves
<1>9. \A j \in Conns : j # k => (j \in w <=> j \in w) /\ (j \in s.hasty <=> j \in z)
  BY <1>3
<1>10. s.hasty \subseteq z
  BY <1>3
<1> QED BY <1>1, <1>2, <1>4, <1>5, <1>6, <1>8, <1>9, <1>10, ReadEndsKeeps

-----------------------------------------------------------------------------
\* A pending write ends: a client that waited has its answer, and may ask again.
LEMMA FineWriteEnds ==
    ASSUME NEW k \in Conns, NEW z, NEW c, NEW reads, NEW wr, NEW u, NEW r \in Seq(Handler), NEW w, NEW v, NEW b, NEW D,
           Fine(k, z, c, reads, wr, r, w, b, D), wr # <<>>, k \notin z => u = <<>>,
           NEW h \in Handler, h.who = k, h.what = "write", k \notin v
    PROVE  /\ Fine(k, z, c, reads, u, Append(r, h), v, b, D)
           /\ \A j \in DOMAIN r : r[j].who = k /\ k \notin z => ~Asks(r[j])
<1>1. PICK n, y : n = Len(r) /\ y = Append(r, h)
  OBVIOUS
<1>2. /\ n \in Nat /\ DOMAIN r = 1 .. n /\ DOMAIN y = 1 .. (n + 1) /\ y[n + 1] = h
      /\ \A j \in 1 .. n : y[j] = r[j]
  BY <1>1, AppendIs
<1>3. \A j \in DOMAIN r : r[j].who = k => /\ r[j].what # "start"
                                          /\ k \notin z => r[j].what # "write" /\ ~Asks(r[j])
  BY DEF Fine, OneWriter, Starts, Asking
<1>4. /\ ~Asks(h)
      /\ \A j \in DOMAIN y : y[j].who = k => (j \in DOMAIN r /\ y[j] = r[j]) \/ j = n + 1
  BY <1>2 DEF Asks
<1>5. c.state = "live" /\ (k \notin z => c.writing /\ k \notin D /\ u = <<>>)
  BY DEF Fine, OneWrite, Gone
<1>6. Fine(k, z, c, reads, u, y, v, b, D)
  <2>1. Gone(k, z, c, reads, u, y, b) /\ Unmade(k, z, c, v, D)
    BY <1>5 DEF Gone, Unmade
  <2>2. OneRead(k, c, reads, y, b)
    BY <1>2, <1>4 DEF Fine, OneRead
  <2>3. OneReader(k, c, y)
    BY <1>2, <1>4 DEF Fine, OneReader
  <2>4. Starts(k, z, c, u, y, v)
    BY <1>2, <1>3, <1>4 DEF Starts
  <2>5. OneWriter(k, z, c, u, y)
    BY <1>2, <1>3, <1>4, <1>5 DEF OneWriter
  <2>6. OneWrite(k, z, c, u, v, D)
    BY <1>5 DEF OneWrite
  <2>7. Indebted(k, z, c, reads, y, v, D)
    BY <1>5 DEF Indebted
  <2>8. Asking(k, z, u, y, v, D)
    BY <1>2, <1>3, <1>4 DEF Asking
  <2> QED BY <2>1, <2>2, <2>3, <2>4, <2>5, <2>6, <2>7, <2>8 DEF Fine
<1> QED BY <1>1, <1>3, <1>6

\* What the client knows then.
Knows(l, k, a) == [l EXCEPT ![k] = IF a.is = "msgs" THEN a.upto ELSE @]

\* What WriteEnds does.
WroteTo(s, t, k, ok) == t = Ready([s EXCEPT !.wire[k] = Tail(@)], k, "write", ok, <<>>)

\* WriteEnds keeps the invariant: the client knows what it was told.
LEMMA WriteEndsKeeps ==
    ASSUME NEW s, NEW w, NEW l, CI(s, w, l), NEW k \in Conns, s.wire[k] # <<>>, NEW ok \in BOOLEAN,
           NEW t, WroteTo(s, t, k, ok), NEW v, v = w \ {k}, NEW m, m = Knows(l, k, Head(s.wire[k]))
    PROVE  CI(t, v, m)
<1>1. PICK b, D : b = Busy(s) /\ D = Debts(s)
  OBVIOUS
<1>2. Good(s, w, l, b, D) /\ s \in States /\ Owned(s) /\ Told(s, l) /\ w \subseteq Conns
  BY <1>1 DEF CI, Good
<1>3. PICK h : h = [who |-> k, what |-> "write", ok |-> ok, load |-> <<>>]
  OBVIOUS
<1>4. h \in Handler /\ h.who = k /\ h.what = "write" /\ ~Asks(h)
  <2>1. <<>> \in Seq(Request)
    OBVIOUS
  <2> QED BY <1>3, <2>1 DEF Handler, Asks
<1>0. PICK r \in Seq(Handler) : r = s.ready
  BY <1>2, StateFields
<1>5. PICK c, rd, z : r = s.ready /\ c = s.conn[k] /\ rd = s.reads /\ z = s.hasty
  BY <1>0
<1>6. PICK wr \in Seq(Answer) : wr = s.wire[k] /\ wr # <<>>
  BY <1>2, StateFields
<1>7. Fine(k, z, c, rd, wr, r, w, b, D)
  BY <1>2, <1>5, <1>6 DEF Good, Sound
<1>8. PICK x, n : x = Tail(wr) /\ n = Len(wr)
  OBVIOUS
<1>9. /\ n \in Nat /\ n # 0 /\ x \in Seq(Answer) /\ DOMAIN wr = 1 .. n /\ DOMAIN x = 1 .. (n - 1) /\ Len(x) = n - 1
      /\ Head(wr) = wr[1] /\ wr[1] \in Answer /\ 1 \in DOMAIN wr
      /\ \A i \in DOMAIN x : x[i] = wr[i + 1] /\ i + 1 \in DOMAIN wr
  <2>1. n \in Nat /\ n # 0
    BY <1>6, <1>8, EmptySeq
  <2>2. /\ DOMAIN wr = 1 .. n /\ DOMAIN x = 1 .. (n - 1) /\ x \in Seq(Answer) /\ Len(x) = n - 1
        /\ Head(wr) = wr[1] /\ Head(wr) \in Answer /\ \A i \in 1 .. (n - 1) : x[i] = wr[i + 1]
    BY <1>6, <1>8, TailIs
  <2>3. 1 \in DOMAIN wr /\ \A i \in 1 .. (n - 1) : i + 1 \in 1 .. n
    BY <2>1, <2>2
  <2> QED BY <2>1, <2>2, <2>3
<1>10. k \notin z => x = <<>> /\ k \notin D
  <2>1. k \notin z => n = 1 /\ k \notin D
    BY <1>6, <1>7, <1>8 DEF Fine, OneWrite
  <2>2. n = 1 => Len(x) = 0
    BY <1>9
  <2>3. Len(x) = 0 => x = <<>>
    BY <1>9, EmptySeq
  <2> QED BY <2>1, <2>2, <2>3
<1>11. PICK y : y = Append(r, h)
  OBVIOUS
<1>12. Fine(k, z, c, rd, x, y, v, b, D) /\ \A j \in DOMAIN r : r[j].who = k /\ k \notin z => ~Asks(r[j])
  <2>1. k \notin v
    OBVIOUS
  <2> QED BY <1>4, <1>6, <1>7, <1>10, <1>11, <2>1, FineWriteEnds
<1>13. PICK e \in [Conns -> Seq(Answer)] : e = [s.wire EXCEPT ![k] = x]
  <2>1. s.wire \in [Conns -> Seq(Answer)]
    BY <1>2, StateFields
  <2> QED BY <1>9, <2>1
<1>14. e[k] = x /\ \A j \in Conns : j # k => e[j] = s.wire[j]
  <2>1. s.wire \in [Conns -> Seq(Answer)]
    BY <1>2, StateFields
  <2> QED BY <1>13, <2>1
<1>15. PICK u : u = [s EXCEPT !.wire = e]
  OBVIOUS
<1>16. /\ u \in States /\ u.wire = e /\ u.ready = s.ready /\ u.reads = s.reads
       /\ u.conn = s.conn /\ u.q = s.q /\ SameRest(s, u)
  BY <1>2, <1>15 DEF States, SameRest
<1>17. Readies(u, t, h)
  <2>1. u = [s EXCEPT !.wire[k] = Tail(@)]
    BY <1>6, <1>8, <1>13, <1>15
  <2> QED BY <1>3, <2>1 DEF WroteTo, Ready, Readies
<1>18. /\ t \in States /\ t.ready = y /\ t.reads = rd /\ t.wire = e
       /\ t.conn = s.conn /\ t.q = s.q /\ SameRest(s, t) /\ t.hasty = z /\ t.msgs = s.msgs
  <2>1. /\ t \in States /\ t.ready = Append(u.ready, h)
        /\ t.conn = u.conn /\ t.q = u.q /\ t.reads = u.reads /\ t.wire = u.wire /\ SameRest(u, t)
    BY <1>4, <1>16, <1>17, ReadyFacts
  <2> QED BY <1>5, <1>11, <1>16, <2>1 DEF SameRest
<1>19. News(s, t, w, v, h)
  BY <1>2, <1>4, <1>5, <1>11, <1>14, <1>18 DEF News
<1>20. Owned(t)
  BY <1>2, <1>18 DEF Owned
<1>21. /\ m \in [Conns -> Nat] /\ m[k] <= s.msgs
       /\ \A j \in Conns : j # k => m[j] = l[j]
  <2>1. l \in [Conns -> Nat] /\ l[k] <= s.msgs
    BY <1>2 DEF Told
  <2>2. wr[1].is = "msgs" => wr[1].upto <= s.msgs
    BY <1>2, <1>6, <1>9 DEF Told
  <2>3. PICK a \in Nat : a = (IF wr[1].is = "msgs" THEN wr[1].upto ELSE l[k]) /\ a <= s.msgs
    BY <1>9, <2>1, <2>2 DEF Answer
  <2>4. m = [l EXCEPT ![k] = a]
    BY <1>6, <1>9, <2>3 DEF Knows
  <2> QED BY <2>1, <2>3, <2>4
<1>22. Told(t, m)
  <2>2. /\ Len(r) \in Nat /\ DOMAIN r = 1 .. Len(r) /\ DOMAIN y = 1 .. (Len(r) + 1) /\ y[Len(r) + 1] = h
        /\ \A j \in 1 .. Len(r) : y[j] = r[j]
    BY <1>11, AppendIs
  <2>3. \A j \in DOMAIN r : Says(r[j], l, z)
    BY <1>2, <1>5 DEF Told
  <2>4. ASSUME NEW j \in DOMAIN r PROVE Says(r[j], m, z)
    <3>1. Says(r[j], l, z) /\ (r[j].who = k /\ k \notin z => ~Asks(r[j]))
      BY <1>12, <2>3
    <3>2. PICK g : g = r[j]
      OBVIOUS
    <3>3. Asks(g) /\ g.who \notin z => g.who \in Conns /\ g.who # k
      BY <3>1, <3>2 DEF Says, Asks
    <3>4. Asks(g) /\ g.who \notin z => m[g.who] = l[g.who]
      BY <1>21, <3>3
    <3> QED BY <3>1, <3>2, <3>4 DEF Says
  <2>5. \A j \in DOMAIN y : y[j] = h \/ (j \in DOMAIN r /\ y[j] = r[j])
    BY <2>2
  <2>6. Says(h, m, z)
    BY <1>4 DEF Says
  <2>7. \A j \in DOMAIN y : Says(y[j], m, z)
    BY <2>4, <2>5, <2>6
  <2>9. \A j \in Conns : m[j] <= t.msgs
    BY <1>2, <1>18, <1>21 DEF Told
  <2>10. ASSUME NEW j \in Conns, NEW i \in DOMAIN e[j], e[j][i].is = "msgs"
         PROVE  (j \notin z => e[j][i].from = m[j]) /\ e[j][i].upto <= s.msgs
    <3>1. CASE j = k
      <4>1. i \in DOMAIN x /\ e[j][i] = x[i]
        BY <1>14, <2>10, <3>1
      <4>2. i + 1 \in DOMAIN wr /\ x[i] = wr[i + 1]
        BY <1>9, <4>1
      <4>3. k \in z
        <5>1. \A q : q = <<>> => DOMAIN q = {}
          OBVIOUS
        <5> QED BY <1>10, <4>1, <5>1
      <4>4. wr[i + 1].is = "msgs"
        BY <2>10, <4>1, <4>2
      <4>5. wr[i + 1].upto <= s.msgs
        BY <1>2, <1>6, <4>2, <4>4 DEF Told
      <4> QED BY <3>1, <4>1, <4>2, <4>3, <4>5
    <3>2. CASE j # k
      <4>1. e[j] = s.wire[j] /\ m[j] = l[j]
        BY <1>14, <1>21, <3>2
      <4> QED BY <1>2, <1>5, <2>10, <4>1 DEF Told
    <3> QED BY <3>1, <3>2
  <2> QED BY <1>18, <1>21, <2>7, <2>9, <2>10 DEF Told
<1>23. h.who \in Conns => OwnNews(t, v, b, D, h.who)
  BY <1>4, <1>5, <1>12, <1>14, <1>18 DEF OwnNews
<1>24. Good(t, v, m, b, D)
  BY <1>2, <1>4, <1>19, <1>20, <1>22, <1>23, GoodNews
<1>25. SameDebts(s, t)
  BY <1>18 DEF SameDebts, SameRest
<1>26. \A j \in D \ t.hasty : m[j] = l[j]
  <2>1. D \subseteq Conns
    BY <1>1, <1>2, DebtsInConns DEF CI
  <2>2. k \in D => k \in z
    BY <1>10
  <2> QED BY <1>18, <1>21, <2>1, <2>2
<1> QED BY <1>1, <1>24, <1>25, <1>26, NewsKeep

-----------------------------------------------------------------------------
\* The invariant holds at first.
LEMMA InitInvariant == CrowInit => CInv
<1> SUFFICES ASSUME CrowInit PROVE CInv
  OBVIOUS
<1>1. PICK e : e = <<>>
  OBVIOUS
<1>2. DOMAIN e = {} /\ Len(e) = 0
  BY <1>1
<1>3. /\ st.conn = [k \in Conns |-> Fresh] /\ st.q = EmptyQueue /\ st.reads = {}
      /\ st.wire = [k \in Conns |-> e] /\ st.ready = e /\ st.held = e /\ st.msgs = 0
      /\ st.loop = NoLoop /\ st.rest = e /\ st.hasty = {} /\ waiting = {} /\ last = [k \in Conns |-> 0] /\ asks = 0
  BY <1>1 DEF CrowInit
<1>4. st \in States
  <2>1. Fresh \in ConnRecord
    BY DEF Fresh, ConnRecord
  <2>2. EmptyQueue \in Queues(Conns)
    BY EmptySeq DEF EmptyQueue, Queues
  <2>3. e \in Seq(Answer) /\ e \in Seq(Handler) /\ e \in Seq(Conns) /\ e \in Seq(Request)
    BY <1>1, EmptySeq
  <2>4. PICK c, q, v : /\ c = [k \in Conns |-> Fresh] /\ q = EmptyQueue /\ v = [k \in Conns |-> e]
    OBVIOUS
  <2>5. c \in [Conns -> ConnRecord] /\ v \in [Conns -> Seq(Answer)] /\ q \in Queues(Conns)
    BY <2>1, <2>2, <2>3, <2>4
  <2>6. PICK x \in Loop : x = NoLoop
    BY NoLoopTyped
  <2>7. st = [conn |-> c, q |-> q, reads |-> {}, wire |-> v, ready |-> e, held |-> e, msgs |-> 0,
              loop |-> x, rest |-> e, hasty |-> {}, thrown |-> {}, broken |-> FALSE]
    BY <1>1, <2>4, <2>6 DEF CrowInit
  <2> QED BY <2>3, <2>5, <2>7 DEF States
<1>5. st.loop.doing = "nothing" /\ st.loop.by = Nobody /\ st.loop.left = e /\ st.loop.kept = e
  BY <1>1, <1>3 DEF NoLoop
<1>6. Elems(e) = {} /\ Distinct(e, {})
  BY <1>2 DEF Elems, Distinct
<1>7. Busy(st) = Nobody /\ Debts(st) = {}
  BY <1>3, <1>5, <1>6 DEF Busy, Debts
<1>8. \A k \in Conns : st.conn[k] = Fresh /\ st.wire[k] = e /\ last[k] = 0
  BY <1>3
<1>9. Fresh.state = "free" /\ Fresh.resume = FALSE /\ Fresh.key = NoKey
  BY DEF Fresh
<1>10. Sound(st, waiting, Nobody, {})
  <2> SUFFICES ASSUME NEW k \in Conns PROVE Fine(k, {}, Fresh, {}, e, e, {}, Nobody, {})
    BY <1>3, <1>8 DEF Sound
  <2>1. k # Nobody
    BY ConnAssumption
  <2>2. Gone(k, {}, Fresh, {}, e, e, Nobody) /\ Unmade(k, {}, Fresh, {}, {})
    BY <1>1, <1>2, <1>9, <2>1 DEF Gone, Unmade
  <2>3. OneRead(k, Fresh, {}, e, Nobody)
    BY <2>1 DEF OneRead
  <2>4. OneReader(k, Fresh, e) /\ Starts(k, {}, Fresh, e, e, {}) /\ OneWriter(k, {}, Fresh, e, e)
    BY <1>2 DEF OneReader, Starts, OneWriter
  <2>5. OneWrite(k, {}, Fresh, e, {}, {})
    BY <1>1 DEF OneWrite
  <2>6. Indebted(k, {}, Fresh, {}, e, {}, {})
    BY DEF Indebted
  <2>7. Asking(k, {}, e, e, {}, {})
    BY <1>2 DEF Asking
  <2> QED BY <2>2, <2>3, <2>4, <2>5, <2>6, <2>7 DEF Fine
<1>11. Owned(st)
  <2>1. st.q.dq = e /\ st.q.step = 0
    BY <1>1, <1>3 DEF EmptyQueue
  <2>2. \A k \in Conns : st.conn[k].key < st.q.step + Len(st.q.dq)
    BY <1>2, <1>8, <1>9, <2>1 DEF NoKey
  <2> QED BY <1>2, <2>1, <2>2 DEF Owned
<1>13. Told(st, last)
  <2>1. last \in [Conns -> Nat] /\ \A k \in Conns : last[k] <= st.msgs
    BY <1>3
  <2> QED BY <1>2, <1>3, <1>8, <2>1 DEF Told
<1>14. Good(st, waiting, last, Busy(st), Debts(st))
  BY <1>3, <1>4, <1>7, <1>10, <1>11, <1>13 DEF Good
<1>15. LoopOK(st)
  BY <1>1, <1>3, <1>5, <1>6 DEF LoopOK
<1>16. UpToDate(st, last)
  BY <1>7 DEF UpToDate
<1>17. Caused(st)
  BY <1>2, <1>3 DEF Caused
<1> QED BY <1>3, <1>14, <1>15, <1>16, <1>17 DEF CInv, CI

\* Every step of the thread keeps it.
LEMMA ThreadKeeps == CI(st, waiting, last) /\ Thread => CI(st, waiting, last)'
<1> SUFFICES ASSUME CI(st, waiting, last), Thread PROVE CI(st', waiting', last')
  OBVIOUS
<1>1. waiting' = waiting /\ last' = last
  BY DEF Thread, Run, FeedRest, Throw, Visit, LeaveLoop, CallDeadline, EndOfTick, clients
<1> SUFFICES CI(st', waiting, last)
  BY <1>1
<1>2. Good(st, waiting, last, Busy(st), Debts(st)) /\ st \in States
  BY DEF CI, Good
<1>3. CASE Run
  <2>1. st.loop.doing = "nothing" /\ st.ready # <<>>
    BY <1>3 DEF Run, Idle
  <2>2. PICK h : h = Head(st.ready)
    OBVIOUS
  <2>3. PICK u : u = [st EXCEPT !.ready = Tail(@)]
    OBVIOUS
  <2>4. st' = CASE h.what = "start" -> start(u, h.who)
                [] h.what = "read" -> read_handler(u, h.who, h.ok, h.load)
                [] h.what = "write" /\ u.conn[h.who].state = "live" -> write_handler(u, h.who, h.ok)
                [] h.what = "write" /\ u.conn[h.who].state # "live" -> [u EXCEPT !.broken = TRUE]
                [] h.what = "tick" -> [u EXCEPT !.loop.doing = "tick"]
    BY <1>3, <2>2, <2>3 DEF Run
  <2>9. h.what = "read" /\ h.ok /\ Head(h.load).route \in Logged => st.conn[h.who].open
    BY <1>3, <2>2 DEF Run, CanParse
  <2>10. u.conn = st.conn
    BY <1>2, <2>3 DEF States
  <2>5. Popping(st, u)
    BY <2>3 DEF Popping
  <2>6. h.what \in {"start", "read", "write", "tick"} /\ (h.what # "tick" => h.who \in Conns)
    <3>1. PICK r \in Seq(Handler) : r = st.ready
      BY <1>2, StateFields
    <3>2. PICK n, y : n = Len(r) /\ y = Tail(r)
      OBVIOUS
    <3>3. h = r[1] /\ h \in Handler /\ 1 \in DOMAIN r
      BY <2>1, <2>2, <3>1, <3>2, TailIs
    <3>4. Says(h, last, st.hasty)
      BY <1>2, <3>1, <3>3 DEF Good, Told
    <3> QED BY <3>3, <3>4 DEF Says, Handler
  <2>7. CASE h.what = "tick"
    <3>1. st' = [u EXCEPT !.loop.doing = "tick"]
      BY <2>4, <2>7
    <3> QED BY <2>1, <2>5, <3>1, RunTick
  <2>8. CASE h.what # "tick"
    <3>1. PICK k \in Conns : k = h.who
      BY <2>6, <2>8
    <3>2. Front(st, h, k)
      BY <2>1, <2>2, <3>1 DEF Front
    <3>3. CASE h.what = "start"
      <4>1. st' = start(u, k)
        BY <2>4, <3>1, <3>3
      <4> QED BY <2>1, <2>5, <3>2, <3>3, <4>1, RunStart
    <3>4. CASE h.what = "read"
      <4>1. st' = read_handler(u, k, h.ok, h.load)
        BY <2>4, <3>1, <3>4
      <4>2. h.ok /\ Head(h.load).route \in Logged => st.conn[k].open
        BY <2>9, <3>1, <3>4
      <4> QED BY <2>1, <2>5, <3>2, <3>4, <4>1, <4>2, RunRead
    <3>5. CASE h.what = "write"
      <4>1. CASE st.conn[k].state = "live"
        <5>1. st' = write_handler(u, k, h.ok)
          BY <2>4, <2>10, <3>1, <3>5, <4>1
        <5> QED BY <2>1, <2>5, <3>2, <3>5, <4>1, <5>1, RunWrite
      <4>2. CASE st.conn[k].state # "live"
        <5>1. st' = [u EXCEPT !.broken = TRUE]
          BY <2>4, <2>10, <3>1, <3>5, <4>2
        <5> QED BY <2>1, <2>5, <5>1, RunDangling
      <4> QED BY <4>1, <4>2
    <3> QED BY <2>6, <2>8, <3>3, <3>4, <3>5
  <2> QED BY <2>7, <2>8
<1>4. CASE Throw
  <2>1. PICK h, u, k : h = Head(st.ready) /\ u = [st EXCEPT !.ready = Tail(@)] /\ k = h.who
    OBVIOUS
  <2>2. CASE /\ st.loop.doing = "nothing" /\ st.ready # <<>> /\ h.what = "read" /\ h.ok
             /\ st' = Thrown(u, k, Head(h.load))
    <3>1. Popping(st, u) /\ Front(st, h, k)
      BY <2>1, <2>2 DEF Popping, Front
    <3>2. k \in Conns
      <4>1. PICK r \in Seq(Handler) : r = st.ready
        BY <1>2, StateFields
      <4>2. PICK n, y : n = Len(r) /\ y = Tail(r)
        OBVIOUS
      <4>3. h = r[1] /\ h \in Handler /\ 1 \in DOMAIN r
        BY <2>1, <2>2, <4>1, <4>2, TailIs
      <4>4. Says(h, last, st.hasty)
        BY <1>2, <4>1, <4>3 DEF Good, Told
      <4> QED BY <2>1, <2>2, <4>4 DEF Says
    <3> QED BY <2>2, <3>1, <3>2, ThrowKeeps
  <2>3. PICK p : p = st.loop.by
    OBVIOUS
  <2>4. CASE /\ st.loop.doing = "feed"
             /\ st' = Thrown([st EXCEPT !.loop = NoLoop, !.rest = <<>>], p, Head(st.rest))
    BY <2>3, <2>4, ThrowRestKeeps
  <2> QED BY <1>4, <2>1, <2>2, <2>3, <2>4 DEF Throw, Idle
<1>9. CASE FeedRest
  <2>1. PICK p, r : p = st.loop.by /\ r = Head(st.rest)
    OBVIOUS
  <2>2. /\ st.loop.doing = "feed" /\ (r.route \in Logged => st.conn[p].open)
        /\ st' = feed([st EXCEPT !.loop = NoLoop, !.rest = Tail(@)], p, r)
    BY <1>9, <2>1 DEF FeedRest, CanParse
  <2> QED BY <2>1, <2>2, FeedRestKeeps
<1>5. CASE Visit
  BY <1>5, VisitKeeps DEF Visit
<1>6. CASE LeaveLoop
  <2>1. /\ st.loop.doing \in {"send", "poll"} /\ st.loop.left = <<>>
        /\ st' = FeedOn(LoopLeft(st), st.loop.by)
    BY <1>6 DEF LeaveLoop
  <2> QED BY <2>1, LeaveSend, LeavePoll
<1>7. CASE CallDeadline
  <2>1. PICK k, u : k = Head(st.q.dq).who /\ u = [st EXCEPT !.q = Popped(@)]
    OBVIOUS
  <2>2. st.loop.doing = "tick" /\ FrontIsDue(st.q)
    BY <1>7 DEF CallDeadline
  <2>3. Dues(st, u, st', k)
    BY <1>7, <2>1 DEF CallDeadline, Dues
  <2> QED BY <2>1, <2>2, <2>3, CallKeeps
<1>8. CASE EndOfTick
  <2>1. st.loop.doing = "tick" /\ Ended(st, st')
    BY <1>8 DEF EndOfTick, Ended
  <2> QED BY <2>1, EndKeeps
<1> QED BY <1>3, <1>4, <1>5, <1>6, <1>7, <1>8, <1>9 DEF Thread

\* What is read is requests, which say what the client knows.
LEMMA RequestsAre ==
    ASSUME NEW k \in Conns, NEW reqs \in Seq(Routes \X BOOLEAN), reqs # <<>>, last[k] \in Nat,
           NEW load, load = Requests(k, reqs)
    PROVE  /\ load \in Seq(Request) /\ load # <<>> /\ Len(load) = Len(reqs) /\ Len(reqs) \in Nat
           /\ Head(load).last = last[k] /\ Head(load).route = reqs[1][1]
<1>1. PICK n \in Nat : n = Len(reqs) /\ n # 0 /\ DOMAIN reqs = 1 .. n
  BY EmptySeq
<1>2. \A i \in 1 .. n : reqs[i] \in Routes \X BOOLEAN
  BY <1>1
<1>3. DOMAIN load = 1 .. n /\ \A i \in 1 .. n : load[i] = [route |-> reqs[i][1], close |-> reqs[i][2], last |-> last[k]]
  BY <1>1 DEF Requests
<1>4. \A i \in 1 .. n : load[i] \in Request
  <2> SUFFICES ASSUME NEW i \in 1 .. n PROVE load[i] \in Request
    OBVIOUS
  <2>1. reqs[i][1] \in Routes /\ reqs[i][2] \in BOOLEAN
    BY <1>2
  <2> QED BY <1>3, <2>1 DEF Request
<1>5. load = [i \in 1 .. n |-> load[i]]
  BY <1>1 DEF Requests
<1>6. load \in [1 .. n -> Request]
  BY <1>4, <1>5
<1>7. load \in Seq(Request) /\ Len(load) = n
  BY <1>6
<1>8. load # <<>> /\ Head(load) = load[1] /\ 1 \in 1 .. n
  BY <1>1, <1>7, EmptySeq
<1> QED BY <1>1, <1>3, <1>7, <1>8

\* And after every step, action by action.
LEMMA NextInvariant == CInv /\ [CrowNext]_crowVars => CInv'
<1> SUFFICES ASSUME CInv, [CrowNext]_crowVars PROVE CI(st', waiting', last') /\ asks' \in Nat
  BY DEF CInv
<1>0. CI(st, waiting, last) /\ asks \in Nat
  BY DEF CInv
<1>1. CASE Thread
  <2>1. asks' = asks
    BY <1>1 DEF Thread, Run, FeedRest, Throw, Visit, LeaveLoop, CallDeadline, EndOfTick, clients
  <2>2. CI(st, waiting, last)'
    BY <1>0, <1>1, ThreadKeeps
  <2> QED BY <1>0, <2>1, <2>2
<1>2. CASE Second
  <2>1. /\ waiting' = waiting /\ last' = last /\ asks' = asks
        /\ st' = [Ready(st, Nobody, "tick", TRUE, <<>>) EXCEPT !.q = Aged(@)]
    BY <1>2 DEF Second, clients
  <2>2. CI(st', waiting, last)
    BY <1>0, <2>1, SecondKeeps
  <2> QED BY <1>0, <2>1, <2>2
<1>3. ASSUME NEW k \in Conns, Accept(k) PROVE CI(st', waiting', last') /\ asks' \in Nat
  <2>1. waiting' = waiting /\ last' = last /\ asks' = asks /\ st.conn[k].state = "free" /\ Accepted(st, st', k)
    BY <1>3 DEF Accept, Accepted, clients
  <2>2. CI(st', waiting, last)
    BY <1>0, <2>1, AcceptKeeps
  <2> QED BY <1>0, <2>1, <2>2
<1>4. ASSUME NEW k \in Conns, NEW reqs \in Asked[k], Ask(k, reqs)
      PROVE  CI(st', waiting', last') /\ asks' \in Nat
  <2>1. reqs \in Seq(Routes \X BOOLEAN) /\ reqs # <<>>
    BY ClientAssumption
  <2>2. last[k] \in Nat
    BY <1>0 DEF CI, Good, Told
  <2>3. PICK load : load = Requests(k, reqs)
    OBVIOUS
  <2>4. /\ load \in Seq(Request) /\ load # <<>> /\ Len(load) = Len(reqs) /\ Len(reqs) \in Nat
        /\ Head(load).last = last[k] /\ Head(load).route = reqs[1][1]
    BY <2>1, <2>2, <2>3, RequestsAre
  <2>5. PICK v : v = waiting'
    OBVIOUS
  <2>6. k \in st.reads /\ last' = last /\ asks' = asks + Len(reqs)
    BY <1>4 DEF Ask
  <2>7. AsksFor(st, st', k, load, waiting)
    BY <1>4, <2>3, <2>4 DEF Ask, AsksFor
  <2>8. v = WaitFor(waiting, k, load)
    BY <1>4, <2>4, <2>5 DEF Ask, WaitFor
  <2>9. CI(st', v, last)
    BY <1>0, <2>4, <2>6, <2>7, <2>8, AskKeeps
  <2> QED BY <1>0, <2>4, <2>5, <2>6, <2>9
<1>5. ASSUME NEW k \in Conns, HangUp(k) PROVE CI(st', waiting', last') /\ asks' \in Nat
  <2>1. waiting' = waiting /\ last' = last /\ asks' = asks /\ k \in st.reads /\ HungUp(st, st', k)
    BY <1>5 DEF HangUp, HungUp, clients
  <2>2. CI(st', waiting, last)
    BY <1>0, <2>1, HangUpKeeps
  <2> QED BY <1>0, <2>1, <2>2
<1>6. ASSUME NEW k \in Conns, WriteEnds(k) PROVE CI(st', waiting', last') /\ asks' \in Nat
  <2>1. PICK ok \in BOOLEAN : WroteTo(st, st', k, ok)
    BY <1>6 DEF WriteEnds, WroteTo
  <2>2. PICK v, m : v = waiting' /\ m = last'
    OBVIOUS
  <2>3. st.wire[k] # <<>> /\ asks' = asks /\ v = waiting \ {k} /\ m = Knows(last, k, Head(st.wire[k]))
    BY <1>6, <2>2 DEF WriteEnds, Knows
  <2>4. CI(st', v, m)
    BY <1>0, <2>1, <2>3, WriteEndsKeeps
  <2> QED BY <1>0, <2>2, <2>3, <2>4
<1>7. CASE UNCHANGED crowVars
  <2>1. st' = st /\ waiting' = waiting /\ last' = last /\ asks' = asks
    BY <1>7 DEF crowVars, clients
  <2> QED BY <1>0, <2>1
<1> QED BY <1>1, <1>2, <1>3, <1>4, <1>5, <1>6, <1>7 DEF CrowNext, Client

\* The inductive invariant: per connection one read at most, and of a client
\* that waits one write, the flags say which, deadlines are owned, clients know
\* what they were told.
THEOREM Invariance == CrowSpec => []CInv
BY InitInvariant, NextInvariant, PTL DEF CrowSpec

\* No function in the timer queue outlives its connection, and no stale key
\* cancels the deadline of another (dumb_timer_queue.h:28).
THEOREM DeadlinesAreOwned == CrowSpec => []DeadlinesOwned
<1>1. CInv => DeadlinesOwned
  BY DEF CInv, CI, Good, Owned, DeadlinesOwned
<1> QED BY <1>1, Invariance, PTL

\* No handler and no pending operation is left of a deleted connection, but that
\* of a write of a client that asked before it had its answer: the flags that
\* check_destroy looks at are enough for all reads, whatever one of them brings,
\* and for the writes of clients that wait (http_connection.h:512, 539).
THEOREM NoHandlerDangles == CrowSpec => []NoDanglingHandler
<1>1. CInv => NoDanglingHandler
  <2> SUFFICES ASSUME CInv PROVE NoDanglingHandler
    OBVIOUS
  <2>1. st \in States /\ Sound(st, waiting, Busy(st), Debts(st))
    BY DEF CInv, CI, Good
  <2>2. ASSUME NEW k \in Conns, st.conn[k].state # "live"
        PROVE  /\ k \notin st.reads /\ st.wire[k] = <<>>
               /\ \A j \in DOMAIN st.ready : st.ready[j].who = k => k \in st.hasty /\ st.ready[j].what = "write"
    BY <2>1, <2>2 DEF Sound, Fine, Gone
  <2>3. \A j \in DOMAIN st.ready : st.ready[j].who \in Conns \cup {Nobody}
    <3>1. PICK r \in Seq(Handler) : r = st.ready
      BY <2>1, StateFields
    <3>2. ASSUME NEW j \in DOMAIN r PROVE r[j].who \in Conns \cup {Nobody}
      <4>1. r[j] \in Handler
        OBVIOUS
      <4> QED BY <4>1 DEF Handler
    <3> QED BY <3>1, <3>2
  <2> QED BY <2>2, <2>3 DEF NoDanglingHandler
<1> QED BY <1>1, Invariance, PTL

\* A response in ress outlives its connection only when that was to be closed
\* after the answer, or its client asked before it had one: of a client that
\* waits for its answers neither a deadline, nor a hang-up, nor a broadcast does
\* that (http_connection.h:342, 479, 496).
THEOREM HeldAreCaused == CrowSpec => []HeldHasCause
<1>1. CInv => HeldHasCause
  BY DEF CInv, CI, Caused, HeldHasCause
<1> QED BY <1>1, Invariance, PTL

\* A poll of a client that waits for its answers is answered with just the
\* messages that follow those it knows (example_chat.cpp:18, 53).
THEOREM PollsFollow == CrowSpec => []PollsContiguous
<1>1. CInv => PollsContiguous
  BY DEF CInv, CI, Good, Told, PollsContiguous
<1> QED BY <1>1, Invariance, PTL

=============================================================================
