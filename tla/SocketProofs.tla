----------------------------- MODULE SocketProofs -----------------------------
(***************************************************************************)
(* What server.cpp and client.cpp keep for any number of clients, names,    *)
(* files and slots, whatever the clients ask for and wherever it is cut: no *)
(* two connections have one name; and, as long as every read returns a      *)
(* whole field and nobody is killed, files arrive whole, and the server     *)
(* exits for a full table or an unknown word only.                          *)
(***************************************************************************)
EXTENDS SocketClient, SequenceTheorems, FiniteSetTheorems, WellFoundedInduction, TLAPS

NamesInv == (\E S : usernames \in Seq(S)) /\ UniqueNames

\* Register (server.cpp:99) stores a name that the scan before it has not found.
LEMMA RegisterHolds ==
    ASSUME NamesInv, NEW n, ~ Taken(n), usernames' = Append(usernames, n)
    PROVE  NamesInv'
<1>1. PICK S : usernames \in Seq(S)
  BY DEF NamesInv
<1> DEFINE T == S \cup {n}
<1>2. usernames \in Seq(T) /\ n \in T
  BY <1>1
<1>3. usernames' \in Seq(T)
  BY <1>2
<1>4. /\ DOMAIN usernames = 1 .. Len(usernames) /\ Len(usernames) \in Nat
      /\ DOMAIN usernames' = 1 .. (Len(usernames) + 1)
      /\ \A i \in 1 .. Len(usernames) : usernames'[i] = usernames[i]
      /\ usernames'[Len(usernames) + 1] = n
  BY <1>2
<1>5. \A i \in DOMAIN usernames' :
         \/ i \in DOMAIN usernames /\ usernames'[i] = usernames[i]
         \/ i = Len(usernames) + 1 /\ usernames'[i] = n
  BY <1>4
<1>6. \A i \in DOMAIN usernames : usernames[i] # n
  BY DEF Taken
<1>7. UniqueNames'
  BY <1>5, <1>6 DEF NamesInv, UniqueNames
<1>. QED BY <1>3, <1>7 DEF NamesInv

\* The handshake registers a name that is free, or leaves the table alone.
LEMMA HelloHolds ==
    ASSUME NamesInv, Hello
    PROVE  NamesInv'
<1>1. ASSUME NEW n, Verdict(n) PROVE NamesInv'
  <2>1. CASE ~ Taken(n) /\ Register(n)
    BY <2>1, RegisterHolds DEF Register
  <2>2. CASE UNCHANGED usernames
    BY <2>2 DEF NamesInv, UniqueNames
  <2>. QED BY <1>1, <2>1, <2>2 DEF Verdict
<1>. QED BY <1>1 DEF Hello

\* Nothing else touches the table.
LEMMA NamesHold == NamesInv /\ [SocketNext]_socketVars => NamesInv'
<1>. SUFFICES ASSUME NamesInv, [SocketNext]_socketVars PROVE NamesInv'
  OBVIOUS
<1>1. CASE Hello
  BY <1>1, HelloHolds
<1>2. CASE UNCHANGED usernames
  BY <1>2 DEF NamesInv, UniqueNames
<1>3. ASSUME ServerNext, ~ Hello PROVE UNCHANGED usernames
  BY <1>3 DEF ServerNext, Serve, Accept, Select, NextFd, Command, PicName, PicSize, PicData,
              FileName, PicReset, table
<1>4. ASSUME NEW c \in Clients, Proceed(c) \/ User(c) \/ Kill(c) PROVE UNCHANGED usernames
  BY <1>4 DEF Proceed, User, Kill, SendName, Write, Read, Close, Connect, Ls, Quit, Get, Put,
              Issue, serverOnly, table
<1>5. CASE UNCHANGED socketVars
  BY <1>5, <1>2 DEF socketVars, serverVars, table
<1>. QED BY <1>1, <1>2, <1>3, <1>4, <1>5 DEF SocketNext

\* The table is empty at first.
LEMMA NamesInit == SocketInit => NamesInv
<1>. SUFFICES ASSUME SocketInit PROVE NamesInv
  OBVIOUS
<1>1. usernames = <<>>
  BY DEF SocketInit, ServerInit
<1>2. usernames \in Seq({})
  BY <1>1
<1>. QED BY <1>1, <1>2 DEF NamesInv, UniqueNames

\* The names of two connections differ (server.cpp:93), those included that were never
\* sent, and those stored when the table was full.
THEOREM NamesStayUnique == SocketSpec => []UniqueNames
<1>1. SocketInit => NamesInv
  BY NamesInit
<1>2. NamesInv /\ [SocketNext]_socketVars => NamesInv'
  BY NamesHold
<1>3. NamesInv => UniqueNames
  BY DEF NamesInv
<1>. QED BY <1>1, <1>2, <1>3, PTL DEF SocketSpec
-----------------------------------------------------------------------------
(* While no field has been cut and nobody was killed, both ends know where   *)
(* they are in either stream: what TransfersWhole and ExitHasCause rest on.  *)

Kinds == {"name", "verdict", "cmd", "list", "file", "size", "data", "ok", "no", "pad"}
Words == {"msg", "pic", "file", "quit", "ls", "put", "get",
          "connect successfully", "in used", ""}
Values == Words \cup Names \cup Files \cup Nat \cup (SUBSET Files) \cup {None}
          \cup (Clients \X Nat \X Nat)
Units == [is : Kinds, val : Values]
Places == {"start", "naming", "verdict", "prompt", "list", "ok", "size", "data", "quit", "gone"}

Datum(c, k, n) == Unit("data", <<c, k, n>>)

\* What the server has still to read from a client, s: the units on their way, a, then
\* those the client has still to write, in the chunks t, whose ends in s are the points p.
Cut(s, a, t, p) ==
    /\ p[0] = Len(a) /\ p[Len(t)] = Len(s)
    /\ \A i, j \in 0 .. Len(t) : i <= j => p[i] <= p[j]
    /\ \A i \in 1 .. Len(t) :
          /\ t[i] # <<>> /\ p[i] = p[i - 1] + Len(t[i]) /\ p[i] <= Len(s)
          /\ \A k \in 1 .. Len(t[i]) : t[i][k] = s[p[i - 1] + k]
          /\ t[i][1] # Pad

Ahead(s, a, t) ==
    /\ s \in Seq(Units) /\ Len(a) <= Len(s) /\ \A i \in 1 .. Len(a) : a[i] = s[i]
    /\ \E p \in [0 .. Len(t) -> Nat] : Cut(s, a, t, p)

\* At position i stands a command or nothing; a field.
CommandAt(s, i) == i <= Len(s) => s[i].is = "cmd"
FieldAt(s, i, is, V) == i + 1 <= Len(s) /\ s[i].is = is /\ s[i].val \in V /\ s[i + 1] = Pad

\* What a client waits for that has nothing to read.
Awaits(c) == IF s2c[c] = <<>> THEN pc[c] ELSE "answered"

\* What follows unit i of stream s of client c: after the word of an upload come a name, a
\* size and as many units as it says; whoever asks for something, or quits, sends no more.
WordAt(e, s, i) ==
    /\ s[i].val \in Commands \cup {"ls", "put", "get"}
    /\ s[i].val = "msg" => i = Len(s) /\ e = "list"
    /\ s[i].val = "pic" => FieldAt(s, i + 1, "file", Files) /\ FieldAt(s, i + 3, "size", Sizes)
    /\ s[i].val = "file" => FieldAt(s, i + 1, "file", Files) /\ i + 2 = Len(s) /\ e = "ok"
    /\ s[i].val = "quit" => i = Len(s) /\ e \in {"quit", "gone"}
SizeAt(c, s, i) ==
    /\ i + 1 <= Len(s)
    /\ IF s[i].val = 0 THEN CommandAt(s, i + 2)
       ELSE i + 2 <= Len(s) /\ s[i + 2] = Datum(c, 1, s[i].val)
DatumAt(c, s, i, k, n) ==
    IF k = n THEN CommandAt(s, i + 1) ELSE i + 1 <= Len(s) /\ s[i + 1] = Datum(c, k + 1, n)
FramedAt(c, e, s, i) ==
    /\ s[i].is = "cmd" => WordAt(e, s, i)
    /\ s[i].is = "size" => SizeAt(c, s, i)
    /\ \A n \in Sizes : \A k \in 1 .. n : s[i] = Datum(c, k, n) => DatumAt(c, s, i, k, n)
FramedBy(c, e, s) == \A i \in 1 .. Len(s) : FramedAt(c, e, s, i)
Framed(c, s) == FramedBy(c, Awaits(c), s)

Uploads == {"pic_name", "pic_size", "pic_data", "file_name"}
InHand(c) == at \in Uploads /\ Peer = c

\* What the server expects next of a client it has registered.
Expected(c, s) ==
    /\ ~ InHand(c) => CommandAt(s, 1)
    /\ InHand(c) /\ at = "pic_name" => FieldAt(s, 1, "file", Files) /\ FieldAt(s, 3, "size", Sizes)
    /\ InHand(c) /\ at = "pic_size" => FieldAt(s, 1, "size", Sizes)
    /\ InHand(c) /\ at = "pic_data" =>
          IF job.total = job.size THEN CommandAt(s, 1)
          ELSE 1 <= Len(s) /\ s[1] = Datum(c, job.total + 1, job.size)
    /\ InHand(c) /\ at = "file_name" =>
          FieldAt(s, 1, "file", Files) /\ Len(s) = 2 /\ pc[c] = "ok" /\ s2c[c] = <<>>

Flow(c, s) ==
    /\ Ahead(s, c2s[c], todo[c]) /\ Framed(c, s) /\ Expected(c, s)
    /\ pc[c] \in {"quit", "gone"} => s # <<>> /\ s[Len(s)] = Unit("cmd", "quit")

\* Where a client is: it has not come, is queued, is greeted, or is registered.
Nameless(c) ==
    /\ todo[c] = <<>> /\ s2c[c] = <<>>
    /\ \/ pc[c] = "naming" /\ c2s[c] = <<>>
       \/ pc[c] = "verdict" /\ \E n \in Names : c2s[c] = <<Unit("name", n)>>
Refusals == {"in used", ""}
TurnedAway(c) ==
    /\ pc[c] = "verdict" /\ c2s[c] = <<>> /\ todo[c] = <<>>
    /\ \E v \in Refusals : s2c[c] = <<Unit("verdict", v)>>

Queued(c) == \E i \in 1 .. Len(backlog) : backlog[i] = c
Absent(c) == \A fd \in Fds : owner[fd] # c
Registered(c) == \E fd \in rset : owner[fd] = c

Talks(c) ==
    /\ pc[c] \notin {"start", "naming"}
    /\ pc[c] = "verdict" =>
          /\ c2s[c] = <<>> /\ todo[c] = <<>>
          /\ s2c[c] \in {<<>>, <<Unit("verdict", "connect successfully")>>}
    /\ Up => \E s : Flow(c, s)

Placed(c) ==
    /\ pc[c] = "start" => ~ Queued(c) /\ Absent(c) /\ c2s[c] = <<>> /\ todo[c] = <<>>
    /\ Queued(c) => Nameless(c) /\ Absent(c)
    /\ at = "hello" /\ Peer = c => Nameless(c) \/ TurnedAway(c)
    /\ Registered(c) => Talks(c)
    /\ c \in gone => pc[c] = "gone"
    /\ pc[c] = "gone" => todo[c] = <<>>

\* What a client has still to read, r, and what it has got.
Sent(d) == Field("size", Len(d)) \o d

Half(c, g, r) ==
    /\ g \in Seq(Units) /\ want[c].total = Len(g)
    /\ (r = <<>> /\ g = <<>>) \/ (g \o r \in Whole /\ Len(g) + Len(r) = want[c].size)

Answers(c) ==
    /\ pc[c] \in {"start", "naming", "prompt", "quit", "gone"} => s2c[c] = <<>>
    /\ pc[c] = "verdict" => s2c[c] = <<>> \/ \E v \in Words : s2c[c] = <<Unit("verdict", v)>>
    /\ pc[c] = "list" => s2c[c] = <<>> \/ \E F \in SUBSET Files : s2c[c] = Field("list", F)
    /\ pc[c] = "ok" =>
          \/ s2c[c] = <<>> \/ s2c[c] = Field("no", None)
          \/ \E d \in Whole : s2c[c] = Field("ok", None) \o Sent(d)
    /\ pc[c] = "size" => s2c[c] = <<>> \/ \E d \in Whole : s2c[c] = Sent(d)
    /\ pc[c] = "size" => got[c][want[c].file] = <<>>
    /\ pc[c] = "data" => Half(c, got[c][want[c].file], s2c[c])
    /\ pc[c] \in {"ok", "size", "data"} => want[c].file \in Files
    /\ pc[c] \in {"ok", "size"} => want[c].total = 0
    /\ \A f \in Files : got[c][f] \in Whole \cup {None} \/ (pc[c] = "data" /\ f = want[c].file)

\* The server: its descriptors, and the file it receives.
Descriptors ==
    /\ rset \subseteq Fds /\ copy \subseteq rset
    /\ at \in {"loop", "hello", "command", "exit"} \cup Uploads
    /\ at = "hello" => cur \in Fds \ rset /\ Peer \in Clients /\ copy = {}
    /\ at \in {"command"} \cup Uploads => cur \in rset \ copy
    /\ \A fd \in rset : owner[fd] \in Clients
    /\ \A fd \in Fds : owner[fd] \in Clients => fd \in rset \/ (at = "hello" /\ fd = cur)
    /\ \A fd, gd \in Fds : owner[fd] = owner[gd] /\ owner[fd] \in Clients => fd = gd
    /\ \A i, j \in 1 .. Len(backlog) : backlog[i] = backlog[j] => i = j

Receiving ==
    /\ at \in {"pic_size", "pic_data"} => job.file \in Files
    /\ at = "pic_size" => disk[job.file] = <<>>
    /\ at = "pic_data" =>
          /\ job.size \in Sizes /\ job.total \in 0 .. job.size
          /\ disk[job.file] = SubSeq(Content(Peer, job.size), 1, job.total)
    /\ \A f \in Files :
          disk[f] \in Whole \cup {None} \/ (at \in {"pic_size", "pic_data"} /\ f = job.file)

Typed ==
    /\ backlog \in Seq(Clients) /\ gone \subseteq Clients
    /\ c2s \in [Clients -> Seq(Units)] /\ s2c \in [Clients -> Seq(Units)]
    /\ owner \in [Fds -> Clients \cup {None}]
    /\ pc \in [Clients -> Places] /\ todo \in [Clients -> Seq(Seq(Units))]
    /\ want \in [Clients -> [file : Files \cup {None}, size : Nat, total : Nat]]
    /\ got \in [Clients -> [Files -> Seq(Units) \cup {None}]]
    /\ disk \in [Files -> Seq(Units) \cup {None}]
    /\ job \in [file : Files \cup {None}, size : Nat, total : Nat]

Cause == at = "exit" => Len(usernames) >= SLOTS \/ last \in {"ls", "put", "get"}

Core == Typed /\ Descriptors /\ Receiving /\ Cause /\ \A c \in Clients : Answers(c) /\ Placed(c)
FrameInv == Calm => Core
-----------------------------------------------------------------------------
(* Streams.                                                                  *)

\* What is left of a stream after a read (server.cpp:141) of its first k units.
LEMMA RestIs ==
    ASSUME NEW T, NEW s \in Seq(T), NEW k \in 0 .. Len(s)
    PROVE  /\ Rest(s, k) \in Seq(T) /\ Len(Rest(s, k)) = Len(s) - k
           /\ \A i \in 1 .. (Len(s) - k) : Rest(s, k)[i] = s[i + k]
<1>1. /\ k + 1 \in Int /\ Len(s) \in Int /\ \A i \in (k + 1) .. Len(s) : s[i] \in T
  OBVIOUS
<1>2. /\ SubSeq(s, k + 1, Len(s)) \in Seq(T)
      /\ Len(SubSeq(s, k + 1, Len(s)))
           = IF k + 1 <= Len(s) THEN Len(s) - (k + 1) + 1 ELSE 0
      /\ \A i \in 1 .. (Len(s) - (k + 1) + 1) :
            SubSeq(s, k + 1, Len(s))[i] = s[k + 1 + i - 1]
  BY <1>1, SubSeqProperties
<1>. QED BY <1>2 DEF Rest

\* The same of a stream of units.
LEMMA UnitsRestIs ==
    ASSUME NEW s \in Seq(Units), NEW k \in 0 .. Len(s)
    PROVE  /\ Rest(s, k) \in Seq(Units) /\ Len(Rest(s, k)) = Len(s) - k
           /\ \A i \in 1 .. (Len(s) - k) : Rest(s, k)[i] = s[i + k]
BY RestIs

\* What a read of k units returns.
LEMMA PrefixIs ==
    ASSUME NEW T, NEW s \in Seq(T), NEW k \in 0 .. Len(s)
    PROVE  /\ Prefix(s, k) \in Seq(T) /\ Len(Prefix(s, k)) = k
           /\ \A i \in 1 .. k : Prefix(s, k)[i] = s[i]
<1>1. 1 \in Int /\ k \in Int /\ \A i \in 1 .. k : s[i] \in T
  OBVIOUS
<1>2. /\ SubSeq(s, 1, k) \in Seq(T)
      /\ Len(SubSeq(s, 1, k)) = IF 1 <= k THEN k - 1 + 1 ELSE 0
      /\ \A i \in 1 .. (k - 1 + 1) : SubSeq(s, 1, k)[i] = s[1 + i - 1]
  BY <1>1, SubSeqProperties
<1>. QED BY <1>2 DEF Prefix

\* A write (client.cpp:122) moves a chunk from what the client has to write to what is on
\* its way, and leaves what the server has to read as it was.
LEMMA AheadWrite ==
    ASSUME NEW s, NEW a \in Seq(Units), NEW t \in Seq(Seq(Units)), t # <<>>, Ahead(s, a, t)
    PROVE  Ahead(s, a \o Head(t), Tail(t))
<1>1. PICK p \in [0 .. Len(t) -> Nat] : Cut(s, a, t, p)
  BY DEF Ahead
<1>2. /\ Len(t) \in Nat /\ Len(t) >= 1 /\ t[1] \in Seq(Units) /\ Head(t) = t[1]
      /\ Tail(t) \in Seq(Seq(Units)) /\ Len(Tail(t)) = Len(t) - 1
      /\ \A i \in 1 .. (Len(t) - 1) : Tail(t)[i] = t[i + 1]
  BY HeadTailProperties
<1>3. /\ a \o t[1] \in Seq(Units) /\ Len(a \o t[1]) = Len(a) + Len(t[1])
      /\ \A i \in 1 .. Len(a) + Len(t[1]) :
            (a \o t[1])[i] = IF i <= Len(a) THEN a[i] ELSE t[1][i - Len(a)]
  BY <1>2, ConcatProperties
<1>4. /\ p[0] = Len(a) /\ p[1] = p[0] + Len(t[1]) /\ p[1] <= Len(s) /\ p[Len(t)] = Len(s)
      /\ \A k \in 1 .. Len(t[1]) : t[1][k] = s[p[0] + k]
  <2>1. 1 \in 1 .. Len(t) /\ 1 - 1 = 0
    BY <1>2
  <2>. QED BY <1>1, <2>1 DEF Cut
<1>5. s \in Seq(Units) /\ \A i \in 1 .. Len(a) : a[i] = s[i]
  BY DEF Ahead
<1>6. /\ Len(a \o t[1]) <= Len(s)
      /\ \A i \in 1 .. Len(a \o t[1]) : (a \o t[1])[i] = s[i]
  <2>1. ASSUME NEW i \in 1 .. Len(a \o t[1]) PROVE (a \o t[1])[i] = s[i]
    <3>1. CASE i <= Len(a)
      BY <3>1, <1>3, <1>5
    <3>2. CASE i > Len(a)
      <4>1. i - Len(a) \in 1 .. Len(t[1])
        BY <3>2, <1>2, <1>3
      <4>2. t[1][i - Len(a)] = s[Len(a) + (i - Len(a))]
        BY <4>1, <1>4
      <4>. QED BY <3>2, <4>1, <4>2, <1>3
    <3>. QED BY <3>1, <3>2, <1>3
  <2>. QED BY <2>1, <1>3, <1>4
<1> DEFINE q == [i \in 0 .. Len(Tail(t)) |-> p[i + 1]]
<1>7. q \in [0 .. Len(Tail(t)) -> Nat]
  BY <1>2
<1>8. Cut(s, a \o t[1], Tail(t), q)
  <2>1. q[0] = Len(a \o t[1]) /\ q[Len(Tail(t))] = Len(s)
    BY <1>2, <1>3, <1>4
  <2>3. \A i, j \in 0 .. Len(Tail(t)) : i <= j => q[i] <= q[j]
    <3>1. ASSUME NEW i \in 0 .. Len(Tail(t)), NEW j \in 0 .. Len(Tail(t)), i <= j
          PROVE  q[i] <= q[j]
      <4>1. i + 1 \in 0 .. Len(t) /\ j + 1 \in 0 .. Len(t) /\ i + 1 <= j + 1
        BY <3>1, <1>2
      <4>2. p[i + 1] <= p[j + 1]
        BY <4>1, <1>1 DEF Cut
      <4>. QED BY <4>2
    <3>. QED BY <3>1
  <2>2. ASSUME NEW i \in 1 .. Len(Tail(t))
        PROVE  /\ Tail(t)[i] # <<>> /\ q[i] = q[i - 1] + Len(Tail(t)[i]) /\ q[i] <= Len(s)
               /\ \A k \in 1 .. Len(Tail(t)[i]) : Tail(t)[i][k] = s[q[i - 1] + k]
               /\ Tail(t)[i][1] # Pad
    <3>1. i + 1 \in 1 .. Len(t) /\ q[i] = p[i + 1] /\ q[i - 1] = p[i] /\ Tail(t)[i] = t[i + 1]
      BY <1>2
    <3>2. /\ t[i + 1] # <<>> /\ p[i + 1] = p[i] + Len(t[i + 1]) /\ p[i + 1] <= Len(s)
          /\ \A k \in 1 .. Len(t[i + 1]) : t[i + 1][k] = s[p[i] + k]
          /\ t[i + 1][1] # Pad
      <4>1. (i + 1) - 1 = i
        OBVIOUS
      <4>. QED BY <3>1, <4>1, <1>1 DEF Cut
    <3>. QED BY <3>1, <3>2
  <2>. QED BY <2>1, <2>2, <2>3 DEF Cut
<1>. QED BY <1>2, <1>5, <1>6, <1>7, <1>8 DEF Ahead

\* A read takes the same units off both.
LEMMA AheadTake ==
    ASSUME NEW s, NEW a \in Seq(Units), NEW t \in Seq(Seq(Units)), NEW k \in 1 .. Len(a),
           Ahead(s, a, t)
    PROVE  Ahead(Rest(s, k), Rest(a, k), t)
<1>1. PICK p \in [0 .. Len(t) -> Nat] : Cut(s, a, t, p)
  BY DEF Ahead
<1>2. /\ s \in Seq(Units) /\ Len(a) <= Len(s) /\ \A i \in 1 .. Len(a) : a[i] = s[i]
      /\ Len(a) \in Nat /\ Len(s) \in Nat /\ Len(t) \in Nat
  BY DEF Ahead
<1>3. /\ Rest(s, k) \in Seq(Units) /\ Len(Rest(s, k)) = Len(s) - k
      /\ \A i \in 1 .. (Len(s) - k) : Rest(s, k)[i] = s[i + k]
  <2>1. s \in Seq(Units) /\ k \in 0 .. Len(s)
    BY <1>2
  <2>. QED BY <2>1, UnitsRestIs
<1>4. /\ Rest(a, k) \in Seq(Units) /\ Len(Rest(a, k)) = Len(a) - k
      /\ \A i \in 1 .. (Len(a) - k) : Rest(a, k)[i] = a[i + k]
  <2>1. k \in 0 .. Len(a)
    BY <1>2
  <2>. QED BY <2>1, UnitsRestIs
<1>5. \A i \in 1 .. (Len(a) - k) : Rest(a, k)[i] = Rest(s, k)[i]
  <2>1. ASSUME NEW i \in 1 .. (Len(a) - k) PROVE Rest(a, k)[i] = Rest(s, k)[i]
    <3>1. i + k \in 1 .. Len(a) /\ i \in 1 .. (Len(s) - k)
      BY <1>2
    <3>. QED BY <3>1, <1>2, <1>3, <1>4
  <2>. QED BY <2>1
<1>6. /\ p[0] = Len(a) /\ p[Len(t)] = Len(s)
      /\ \A i, j \in 0 .. Len(t) : i <= j => p[i] <= p[j]
  BY <1>1 DEF Cut
<1>7. \A i \in 0 .. Len(t) : p[i] \in Nat /\ p[i] >= Len(a)
  <2>1. ASSUME NEW i \in 0 .. Len(t) PROVE p[i] \in Nat /\ p[i] >= Len(a)
    <3>1. p[i] \in Nat /\ 0 \in 0 .. Len(t) /\ 0 <= i
      BY <1>2
    <3>. QED BY <3>1, <1>6
  <2>. QED BY <2>1
<1> DEFINE q == [i \in 0 .. Len(t) |-> p[i] - k]
<1>8. q \in [0 .. Len(t) -> Nat]
  BY <1>7, <1>2
<1>9. Cut(Rest(s, k), Rest(a, k), t, q)
  <2>1. q[0] = Len(Rest(a, k)) /\ q[Len(t)] = Len(Rest(s, k))
    BY <1>2, <1>3, <1>4, <1>6
  <2>2. \A i, j \in 0 .. Len(t) : i <= j => q[i] <= q[j]
    BY <1>6, <1>7
  <2>3. ASSUME NEW i \in 1 .. Len(t)
        PROVE  /\ t[i] # <<>> /\ q[i] = q[i - 1] + Len(t[i]) /\ q[i] <= Len(Rest(s, k))
               /\ \A j \in 1 .. Len(t[i]) : t[i][j] = Rest(s, k)[q[i - 1] + j]
               /\ t[i][1] # Pad
    <3>1. /\ t[i] # <<>> /\ p[i] = p[i - 1] + Len(t[i]) /\ p[i] <= Len(s) /\ t[i][1] # Pad
          /\ \A j \in 1 .. Len(t[i]) : t[i][j] = s[p[i - 1] + j]
      BY <1>1 DEF Cut
    <3>2. /\ i \in 0 .. Len(t) /\ i - 1 \in 0 .. Len(t)
          /\ q[i] = p[i] - k /\ q[i - 1] = p[i - 1] - k
      BY <1>2
    <3>3. Len(t[i]) \in Nat /\ p[i] \in Nat /\ p[i - 1] \in Nat /\ p[i - 1] >= Len(a)
      BY <1>2, <1>7, <3>2
    <3>4. ASSUME NEW j \in 1 .. Len(t[i]) PROVE t[i][j] = Rest(s, k)[q[i - 1] + j]
      <4>1. q[i - 1] + j \in 1 .. (Len(s) - k) /\ (q[i - 1] + j) + k = p[i - 1] + j
        <5>1. j \in Nat /\ j >= 1 /\ j <= Len(t[i]) /\ k \in Nat /\ k <= Len(a)
          BY <3>3, <1>2
        <5>2. /\ q[i - 1] = p[i - 1] - k /\ p[i] = p[i - 1] + Len(t[i]) /\ p[i] <= Len(s)
              /\ p[i - 1] \in Nat /\ p[i - 1] >= Len(a) /\ Len(t[i]) \in Nat
              /\ Len(a) \in Nat /\ Len(s) \in Nat
          BY <1>2, <3>1, <3>2, <3>3
        <5> HIDE DEF q
        <5>3. q[i - 1] + j <= Len(s) - k /\ q[i - 1] + j >= 1 /\ q[i - 1] + j \in Int
          BY <5>1, <5>2
        <5>4. (q[i - 1] + j) + k = p[i - 1] + j
          BY <5>1, <5>2
        <5>. QED BY <5>1, <5>2, <5>3, <5>4
      <4>. QED BY <4>1, <1>3, <3>1
    <3>5. q[i] = q[i - 1] + Len(t[i]) /\ q[i] <= Len(Rest(s, k))
      BY <1>2, <1>3, <3>1, <3>2, <3>3
    <3>. QED BY <3>1, <3>4, <3>5
  <2>. QED BY <2>1, <2>2, <2>3 DEF Cut
<1>. QED BY <1>2, <1>3, <1>4, <1>5, <1>8, <1>9 DEF Ahead

\* A client with nothing to write has sent it all.
LEMMA AheadDone ==
    ASSUME NEW s, NEW a \in Seq(Units), Ahead(s, a, <<>>)
    PROVE  s = a
<1>1. /\ s \in Seq(Units) /\ \A i \in 1 .. Len(a) : a[i] = s[i]
  BY DEF Ahead
<1>2. PICK p \in [0 .. Len(<<>>) -> Nat] : Cut(s, a, <<>>, p)
  BY DEF Ahead
<1>3. Len(s) = Len(a)
  BY <1>2 DEF Cut
<1>. QED BY <1>1, <1>3

\* A field is written at once (client.cpp:122): its second half comes with the first.
LEMMA AheadWhole ==
    ASSUME NEW s, NEW a \in Seq(Units), NEW t \in Seq(Seq(Units)), Ahead(s, a, t),
           a # <<>>, Len(s) >= 2, s[2] = Pad
    PROVE  Len(a) >= 2
<1>1. PICK p \in [0 .. Len(t) -> Nat] : Cut(s, a, t, p)
  BY DEF Ahead
<1>2. Len(a) \in Nat /\ Len(a) # 0
  OBVIOUS
<1>3. ASSUME Len(a) = 1 PROVE FALSE
  <2>1. Len(t) \in Nat /\ Len(t) # 0
    BY <1>1, <1>3 DEF Cut
  <2>2. 1 \in 1 .. Len(t) /\ 1 - 1 = 0 /\ t[1] \in Seq(Units)
    BY <2>1
  <2>3. t[1] # <<>> /\ t[1][1] # Pad /\ \A k \in 1 .. Len(t[1]) : t[1][k] = s[p[0] + k]
    BY <1>1, <2>2 DEF Cut
  <2>4. 1 \in 1 .. Len(t[1]) /\ p[0] = 1
    BY <1>1, <1>3, <2>2, <2>3 DEF Cut
  <2>5. t[1][1] = s[1 + 1]
    BY <2>3, <2>4
  <2>6. 1 + 1 = 2
    OBVIOUS
  <2>. QED BY <2>3, <2>5, <2>6
<1>4. Len(a) # 1
  BY <1>3
<1> DEFINE n == Len(a)
<1> HIDE DEF n
<1>5. n \in Nat /\ n # 0 /\ n # 1 => n >= 2
  OBVIOUS
<1>. QED BY <1>2, <1>4, <1>5 DEF n

\* A client that has nothing to write, and takes the chunks t upon itself: f is t in one.
LEMMA AheadIssue ==
    ASSUME NEW a \in Seq(Units), NEW f \in Seq(Units), NEW t \in Seq(Seq(Units)),
           NEW p \in [0 .. Len(t) -> Nat], Cut(f, <<>>, t, p)
    PROVE  Ahead(a \o f, a, t)
<1>1. PICK s : s = a \o f
  OBVIOUS
<1>2. /\ s \in Seq(Units) /\ Len(s) = Len(a) + Len(f)
      /\ Len(a) \in Nat /\ Len(f) \in Nat /\ Len(t) \in Nat
  BY <1>1, ConcatProperties
<1>3. /\ \A i \in 1 .. Len(a) : a[i] = s[i]
      /\ \A i \in 1 .. Len(f) : f[i] = s[Len(a) + i]
  BY <1>1, ConcatProperties
<1>4. PICK q \in [0 .. Len(t) -> Nat] : \A i \in 0 .. Len(t) : q[i] = p[i] + Len(a)
  <2>1. [i \in 0 .. Len(t) |-> p[i] + Len(a)] \in [0 .. Len(t) -> Nat]
    BY <1>2
  <2>. QED BY <2>1
<1>5. /\ p[0] = 0 /\ p[Len(t)] = Len(f)
      /\ \A i, j \in 0 .. Len(t) : i <= j => p[i] <= p[j]
  BY DEF Cut
<1>6. \A i \in 0 .. Len(t) : p[i] \in Nat
  OBVIOUS
<1>7. q[0] = Len(a) /\ q[Len(t)] = Len(s)
  <2>1. 0 \in 0 .. Len(t) /\ Len(t) \in 0 .. Len(t)
    BY <1>2
  <2>2. q[0] = p[0] + Len(a) /\ q[Len(t)] = p[Len(t)] + Len(a)
    BY <2>1, <1>4
  <2>. QED BY <2>2, <1>2, <1>5
<1>8. \A i, j \in 0 .. Len(t) : i <= j => q[i] <= q[j]
  <2>1. ASSUME NEW i \in 0 .. Len(t), NEW j \in 0 .. Len(t), i <= j PROVE q[i] <= q[j]
    <3>1. p[i] <= p[j] /\ p[i] \in Nat /\ p[j] \in Nat
      BY <2>1, <1>5, <1>6
    <3>2. q[i] = p[i] + Len(a) /\ q[j] = p[j] + Len(a)
      BY <1>4
    <3>. QED BY <3>1, <3>2, <1>2
  <2>. QED BY <2>1
<1>9. ASSUME NEW i \in 1 .. Len(t)
      PROVE  /\ t[i] # <<>> /\ q[i] = q[i - 1] + Len(t[i]) /\ q[i] <= Len(s)
             /\ \A j \in 1 .. Len(t[i]) : t[i][j] = s[q[i - 1] + j]
             /\ t[i][1] # Pad
  <2>1. /\ t[i] # <<>> /\ p[i] = p[i - 1] + Len(t[i]) /\ p[i] <= Len(f) /\ t[i][1] # Pad
        /\ \A j \in 1 .. Len(t[i]) : t[i][j] = f[p[i - 1] + j]
    BY DEF Cut
  <2>2. i \in 0 .. Len(t) /\ i - 1 \in 0 .. Len(t) /\ t[i] \in Seq(Units)
    BY <1>2
  <2>3. /\ Len(t[i]) \in Nat /\ p[i] \in Nat /\ p[i - 1] \in Nat
        /\ q[i] = p[i] + Len(a) /\ q[i - 1] = p[i - 1] + Len(a)
    BY <2>2, <1>4, <1>6
  <2>4. ASSUME NEW j \in 1 .. Len(t[i]) PROVE t[i][j] = s[q[i - 1] + j]
    <3>1. j \in Nat /\ j >= 1 /\ j <= Len(t[i])
      BY <2>3
    <3>4. p[i] = p[i - 1] + Len(t[i]) /\ p[i] <= Len(f)
      BY <2>1
    <3>6. PICK x \in Nat, y \in Nat, z \in Nat : x = p[i - 1] /\ y = Len(t[i]) /\ z = Len(f)
      BY <2>3, <1>2
    <3>7. x + y <= z /\ j \in Nat /\ j >= 1 /\ j <= y
      BY <3>1, <3>4, <3>6
    <3>8. x + j <= z /\ x + j >= 1 /\ x + j \in Nat
      BY <3>7
    <3>5. p[i - 1] + j <= Len(f) /\ p[i - 1] + j >= 1 /\ p[i - 1] + j \in Nat
      BY <3>6, <3>8
    <3>2. p[i - 1] + j \in 1 .. Len(f) /\ Len(a) + (p[i - 1] + j) = q[i - 1] + j
      BY <3>5, <3>1, <2>3, <1>2
    <3>3. f[p[i - 1] + j] = s[Len(a) + (p[i - 1] + j)]
      BY <3>2, <1>3
    <3>. QED BY <3>2, <3>3, <2>1
  <2>5. q[i] = q[i - 1] + Len(t[i]) /\ q[i] <= Len(s)
    BY <2>1, <2>3, <1>2
  <2>. QED BY <2>1, <2>4, <2>5
<1>10. Cut(s, a, t, q)
  BY <1>7, <1>8, <1>9 DEF Cut
<1>11. Len(a) <= Len(s)
  BY <1>2
<1>. QED BY <1>1, <1>2, <1>3, <1>10, <1>11 DEF Ahead
-----------------------------------------------------------------------------
(* The framing.                                                              *)

\* The units of a file are all different.
LEMMA DatumsDiffer ==
    ASSUME NEW c, NEW k, NEW n, NEW d, NEW j, NEW m, Datum(c, k, n) = Datum(d, j, m)
    PROVE  c = d /\ k = j /\ n = m
<1>1. Datum(c, k, n).val = Datum(d, j, m).val
  OBVIOUS
<1>2. <<c, k, n>> = <<d, j, m>>
  BY <1>1 DEF Datum, Unit
<1>. QED BY <1>2

\* A unit of a file is neither a command nor half a field.
LEMMA DatumIs ==
    ASSUME NEW c, NEW k, NEW n
    PROVE  Datum(c, k, n).is = "data" /\ Datum(c, k, n) # Pad
<1>1. Datum(c, k, n).is = "data" /\ Pad.is = "pad"
  BY DEF Datum, Unit, Pad
<1>. QED BY <1>1

\* What follows a unit is the same after those before it were read (server.cpp:141).
LEMMA FramedRest ==
    ASSUME NEW c, NEW e, NEW s \in Seq(Units), NEW k \in 0 .. Len(s), FramedBy(c, e, s)
    PROVE  FramedBy(c, e, Rest(s, k))
<1>1. PICK r : r = Rest(s, k)
  OBVIOUS
<1>2. /\ r \in Seq(Units) /\ Len(r) = Len(s) - k /\ Len(s) \in Nat /\ k \in Nat
      /\ \A i \in 1 .. (Len(s) - k) : r[i] = s[i + k]
  <2>1. /\ Rest(s, k) \in Seq(Units) /\ Len(Rest(s, k)) = Len(s) - k
        /\ \A i \in 1 .. (Len(s) - k) : Rest(s, k)[i] = s[i + k]
    BY UnitsRestIs
  <2>. QED BY <2>1, <1>1
<1>3. ASSUME NEW i \in 1 .. Len(r) PROVE FramedAt(c, e, r, i)
  <2>1. /\ i + k \in 1 .. Len(s) /\ r[i] = s[i + k] /\ i \in Nat
        /\ FramedAt(c, e, s, i + k)
    BY <1>2 DEF FramedBy
  <2>2. ASSUME NEW j \in 1 .. 5, i + k + j <= Len(s) PROVE r[i + j] = s[i + k + j]
    <3>1. i + j \in 1 .. (Len(s) - k) /\ (i + j) + k = i + k + j
      BY <2>1, <2>2, <1>2
    <3>. QED BY <3>1, <1>2
  <2>3. /\ 1 \in 1 .. 5 /\ 2 \in 1 .. 5 /\ 3 \in 1 .. 5 /\ 4 \in 1 .. 5
        /\ \A j \in 1 .. 5 : i + j <= Len(r) <=> i + k + j <= Len(s)
        /\ (i = Len(r) <=> i + k = Len(s)) /\ (i + 2 = Len(r) <=> i + k + 2 = Len(s))
    BY <2>1, <1>2
  <2>4. ASSUME r[i].is = "cmd" PROVE WordAt(e, r, i)
    <3>1. WordAt(e, s, i + k)
      BY <2>4, <2>1 DEF FramedAt
    <3>2. /\ i + 1 + 1 = i + 2 /\ i + 3 + 1 = i + 4
          /\ i + k + 1 + 1 = i + k + 2 /\ i + k + 3 + 1 = i + k + 4
      BY <2>1, <1>2
    <3>3. /\ FieldAt(s, i + k + 1, "file", Files) => FieldAt(r, i + 1, "file", Files)
          /\ FieldAt(s, i + k + 3, "size", Sizes) => FieldAt(r, i + 3, "size", Sizes)
      <4>1. i + k + 2 <= Len(s) => i + k + 1 <= Len(s)
        BY <2>1, <1>2
      <4>2. i + k + 4 <= Len(s) => i + k + 3 <= Len(s)
        BY <2>1, <1>2
      <4>. QED BY <4>1, <4>2, <3>2, <2>2, <2>3 DEF FieldAt
    <3>. QED BY <3>1, <3>3, <2>1, <2>3 DEF WordAt
  <2>5. ASSUME r[i].is = "size" PROVE SizeAt(c, r, i)
    <3>1. SizeAt(c, s, i + k)
      BY <2>5, <2>1 DEF FramedAt
    <3>. QED BY <3>1, <2>1, <2>2, <2>3 DEF SizeAt, CommandAt
  <2>6. ASSUME NEW n \in Sizes, NEW j \in 1 .. n, r[i] = Datum(c, j, n)
        PROVE  DatumAt(c, r, i, j, n)
    <3>1. DatumAt(c, s, i + k, j, n)
      BY <2>6, <2>1 DEF FramedAt
    <3>. QED BY <3>1, <2>1, <2>2, <2>3 DEF DatumAt, CommandAt
  <2>. QED BY <2>4, <2>5, <2>6 DEF FramedAt
<1>. QED BY <1>1, <1>3 DEF FramedBy
-----------------------------------------------------------------------------
(* Whom a step leaves alone.                                                 *)

\* What a client has to read and has got, when a step does not touch it.
LEMMA AnswersFrame ==
    ASSUME NEW c, Answers(c), s2c'[c] = s2c[c], pc'[c] = pc[c],
           want'[c] = want[c], got'[c] = got[c]
    PROVE  Answers(c)'
BY DEF Answers, Half

\* Where a client is, when a step does not touch it, and the server does not turn to it or
\* from it (server.cpp:124).
LEMMA PlacedFrame ==
    ASSUME NEW c, Placed(c), c2s'[c] = c2s[c], s2c'[c] = s2c[c], pc'[c] = pc[c],
           todo'[c] = todo[c], c \in gone' => c \in gone,
           Queued(c)' => Queued(c), Absent(c) => Absent(c)', Registered(c)' => Registered(c),
           at' = "hello" /\ Peer' = c => at = "hello" /\ Peer = c,
           Up' => Up, InHand(c)' <=> InHand(c), InHand(c) => at' = at /\ job' = job
    PROVE  Placed(c)'
<1>1. ASSUME NEW s, Flow(c, s) PROVE Flow(c, s)'
  <2>1. Framed(c, s)'
    BY <1>1 DEF Flow, Framed, Awaits
  <2>2. Expected(c, s)'
    <3>1. CASE InHand(c)
      <4>1. InHand(c)' /\ at' = at /\ job' = job
        BY <3>1
      <4>. QED BY <1>1, <3>1, <4>1 DEF Flow, Expected
    <3>2. CASE ~ InHand(c)
      BY <1>1, <3>2 DEF Flow, Expected
    <3>. QED BY <3>1, <3>2
  <2>. QED BY <1>1, <2>1, <2>2 DEF Flow
<1>2. Talks(c) => Talks(c)'
  BY <1>1 DEF Talks
<1>3. Nameless(c) => Nameless(c)'
  BY DEF Nameless
<1>4. TurnedAway(c) => TurnedAway(c)'
  BY DEF TurnedAway
<1>. QED BY <1>2, <1>3, <1>4 DEF Placed

\* A step of one client leaves the others alone.
LEMMA OthersFrame ==
    ASSUME NEW c, Answers(c), Placed(c), UNCHANGED <<backlog, owner, rset, at, cur, job>>,
           c2s'[c] = c2s[c], s2c'[c] = s2c[c], pc'[c] = pc[c], todo'[c] = todo[c],
           want'[c] = want[c], got'[c] = got[c], c \in gone' => c \in gone
    PROVE  Answers(c)' /\ Placed(c)'
<1>1. Answers(c)'
  BY AnswersFrame
<1>2. /\ Queued(c)' => Queued(c)
      /\ Absent(c) => Absent(c)'
      /\ Registered(c)' => Registered(c)
      /\ Peer' = Peer /\ at' = at /\ job' = job
      /\ InHand(c)' <=> InHand(c)
      /\ Up' => Up
  BY DEF Queued, Absent, Registered, Peer, InHand, Up
<1>3. Placed(c)'
  BY <1>2, PlacedFrame
<1>. QED BY <1>1, <1>3

-----------------------------------------------------------------------------
(* The connection in hand.                                                   *)

\* Whoever the server reads a command or a field from is registered, and the framing holds.
LEMMA PeerTalks ==
    ASSUME Core, at \in {"command"} \cup Uploads
    PROVE  /\ Peer \in Clients /\ cur \in Fds /\ cur \in rset /\ cur \notin copy
           /\ Talks(Peer) /\ \E s : Flow(Peer, s)
<1>1. cur \in rset /\ cur \notin copy /\ rset \subseteq Fds /\ owner[cur] \in Clients
  BY DEF Core, Descriptors
<1>2. Registered(Peer)
  BY <1>1 DEF Registered, Peer
<1>3. Talks(Peer)
  BY <1>1, <1>2 DEF Core, Placed, Peer
<1>4. Up
  BY DEF Up, Uploads
<1>. QED BY <1>1, <1>3, <1>4 DEF Talks, Peer

\* Nobody leaves without a quit that the server has still to read: no read of it comes
\* upon the end of the stream (server.cpp:141).
LEMMA NeverEnded ==
    ASSUME Core, at \in Waiting
    PROVE  ~ Ended /\ Peer \in Clients
<1>1. CASE at = "hello"
  <2>1. Peer \in Clients
    BY <1>1 DEF Core, Descriptors
  <2>2. Placed(Peer)
    BY <2>1 DEF Core
  <2>3. pc[Peer] # "gone"
    BY <1>1, <2>2 DEF Placed, Nameless, TurnedAway
  <2>. QED BY <2>1, <2>2, <2>3 DEF Placed, Ended
<1>2. CASE at \in {"command"} \cup Uploads
  <2>1. Peer \in Clients /\ \E s : Flow(Peer, s)
    BY <1>2, PeerTalks
  <2>2. PICK s : Flow(Peer, s)
    BY <2>1
  <2>3. ASSUME Ended PROVE FALSE
    <3>1. PICK c \in Clients : c = Peer
      BY <2>1
    <3>2. pc[c] = "gone" /\ todo[c] = <<>> /\ c2s[c] = <<>>
      BY <3>1, <2>3 DEF Core, Placed, Ended
    <3>3. Ahead(s, <<>>, <<>>) /\ s # <<>>
      BY <2>2, <3>1, <3>2 DEF Flow
    <3>4. <<>> \in Seq(Units)
      OBVIOUS
    <3>. QED BY <3>3, <3>4, AheadDone
  <2>. QED BY <2>1, <2>3
<1>. QED BY <1>1, <1>2 DEF Waiting, Uploads

\* A read of k units of what client c sends, s, has left the rest of it.
Took(c, s, k) ==
    /\ k \in 1 .. Len(c2s[c]) /\ k \in 1 .. Len(s)
    /\ c2s' = [c2s EXCEPT ![c] = Rest(c2s[c], k)] /\ c2s'[c] = Rest(c2s[c], k)
    /\ s \in Seq(Units) /\ Len(Rest(s, k)) = Len(s) - k
    /\ \A i \in 1 .. (Len(s) - k) : Rest(s, k)[i] = s[i + k]
    /\ Len(c2s[c]) <= Len(s) /\ \A i \in 1 .. Len(c2s[c]) : c2s[c][i] = s[i]
    /\ Ahead(Rest(s, k), Rest(c2s[c], k), todo[c]) /\ Framed(c, Rest(s, k))
    /\ Rest(c2s[c], k) # <<>> => Head(Rest(c2s[c], k)).is # "pad"

\* A read of k units that loses nothing: they are the next ones, and what follows them
\* is the framing that is left.
LEMMA TakeFlow ==
    ASSUME Typed, NEW c \in Clients, c = Peer, NEW s, Flow(c, s), NEW n, NEW k, NEW lost,
           Take(n, k, lost), astray' = {}
    PROVE  ~ lost /\ k \in 1 .. n /\ Took(c, s, k)
<1>1. k \in Lengths(c, c2s[c], n) /\ c2s' = [c2s EXCEPT ![c] = Rest(c2s[c], k)]
  BY DEF Take
<1>2. c2s \in [Clients -> Seq(Units)] /\ c2s[c] \in Seq(Units) /\ todo[c] \in Seq(Seq(Units))
  BY DEF Typed
<1>3. c2s'[c] = Rest(c2s[c], k)
  BY <1>1, <1>2
<1>4. k \in 1 .. n /\ k <= Len(c2s[c]) 
  BY <1>1 DEF Lengths
<1>5. k \in 1 .. Len(c2s[c])
  BY <1>2, <1>4
<1>6. /\ ~ lost
      /\ ~ (c2s'[c] # <<>> /\ Head(c2s'[c]).is = "pad")
  BY DEF Take
<1>7. /\ s \in Seq(Units) /\ Len(c2s[c]) <= Len(s) /\ \A i \in 1 .. Len(c2s[c]) : c2s[c][i] = s[i]
      /\ Ahead(s, c2s[c], todo[c]) /\ Framed(c, s)
  BY DEF Flow, Ahead
<1>8. k \in 1 .. Len(s) /\ k \in 0 .. Len(s)
  BY <1>5, <1>7, <1>2
<1>9. Ahead(Rest(s, k), Rest(c2s[c], k), todo[c])
  BY <1>2, <1>5, <1>7, AheadTake
<1>10. Framed(c, Rest(s, k))
  BY <1>7, <1>8, FramedRest DEF Framed
<1>11. /\ Len(Rest(s, k)) = Len(s) - k
       /\ \A i \in 1 .. (Len(s) - k) : Rest(s, k)[i] = s[i + k]
  BY <1>7, <1>8, UnitsRestIs
<1>. QED BY <1>1, <1>3, <1>4, <1>5, <1>6, <1>7, <1>8, <1>9, <1>10, <1>11 DEF Took

\* A read of a field that loses nothing is a read of the whole field (server.cpp:168).
LEMMA TakeField ==
    ASSUME Typed, NEW c \in Clients, c = Peer, NEW s, Flow(c, s), NEW k, NEW lost,
           Take(BUFSIZE, k, lost), astray' = {}, Len(s) >= 2, s[2] = Pad
    PROVE  k = 2
<1>1. /\ k \in 1 .. Len(c2s[c]) /\ k \in 1 .. BUFSIZE
      /\ \A i \in 1 .. Len(c2s[c]) : c2s[c][i] = s[i]
      /\ Rest(c2s[c], k) # <<>> => Head(Rest(c2s[c], k)).is # "pad"
  BY TakeFlow DEF Took
<1>2. c2s[c] \in Seq(Units) /\ todo[c] \in Seq(Seq(Units)) /\ Ahead(s, c2s[c], todo[c])
  BY DEF Typed, Flow
<1>3. c2s[c] # <<>>
  BY <1>1, <1>2
<1>4. Len(c2s[c]) >= 2
  BY <1>2, <1>3, AheadWhole
<1>5. c2s[c][2] = Pad
  BY <1>1, <1>2, <1>4
<1>6. ASSUME k = 1 PROVE FALSE
  <2>1. /\ Rest(c2s[c], 1) \in Seq(Units) /\ Len(Rest(c2s[c], 1)) = Len(c2s[c]) - 1
        /\ \A i \in 1 .. (Len(c2s[c]) - 1) : Rest(c2s[c], 1)[i] = c2s[c][i + 1]
    <3>1. 1 \in 0 .. Len(c2s[c])
      BY <1>2, <1>4
    <3>. QED BY <3>1, <1>2, UnitsRestIs
  <2>2. 1 \in 1 .. (Len(c2s[c]) - 1) /\ 1 + 1 = 2
    BY <1>2, <1>4
  <2>3. Rest(c2s[c], 1)[1] = Pad /\ Rest(c2s[c], 1) # <<>>
    BY <2>1, <2>2, <1>5
  <2>4. Head(Rest(c2s[c], 1)) = Pad
    BY <2>1, <2>3
  <2>. QED BY <2>3, <2>4, <1>1, <1>6 DEF Pad, Unit
<1>. QED BY <1>1, <1>6 DEF BUFSIZE
-----------------------------------------------------------------------------
(* The descriptors, and the steps of the loop that read nothing.             *)

\* The lowest descriptor that is free, and the next that the loop looks at.
LEMMA LeastIs ==
    ASSUME NEW S, S \subseteq Nat, S # {}
    PROVE  Least(S) \in S
<1>1. PICK n \in S : \A m \in S : ~ (<<m, n>> \in OpToRel(<, Nat))
  BY NatLessThanWellFounded, WFMin
<1>2. ASSUME NEW m \in S PROVE n <= m
  <2>1. ~ (m < n)
    BY <1>1 DEF OpToRel
  <2>. QED BY <2>1
<1>. QED BY <1>2 DEF Least

\* Descriptors are numbers: the loop takes the lowest first (server.cpp:124).
LEMMA FdsAreNumbers == Fds \subseteq Nat
<1>1. Cardinality(Clients) \in Nat /\ FirstFd \in Nat
  BY SocketAssumption, FS_CardinalityType
<1>. QED BY <1>1 DEF Fds

\* There is a descriptor for whoever waits: a client has one at most (server.cpp:83).
LEMMA FreeFd ==
    ASSUME Typed, Descriptors, NEW h \in Clients, Absent(h)
    PROVE  Least({d \in Fds : owner[d] = None}) \in {d \in Fds : owner[d] = None}
<1> DEFINE Free == {d \in Fds : owner[d] = None}
<1>1. Free # {}
  <2>. SUFFICES ASSUME \A d \in Fds : owner[d] # None PROVE FALSE
    OBVIOUS
  <2>1. owner \in [Fds -> Clients \ {h}]
    BY DEF Typed, Absent
  <2>2. /\ IsFiniteSet(Clients \ {h}) /\ Cardinality(Clients \ {h}) = Cardinality(Clients) - 1
        /\ Cardinality(Clients) \in Nat
    BY SocketAssumption, FS_RemoveElement, FS_CardinalityType
  <2>3. Cardinality(Clients) # 0
    BY SocketAssumption, FS_EmptySet
  <2>4. IsFiniteSet(Fds) /\ Cardinality(Fds) = Cardinality(Clients)
    <3>1. FirstFd \in Int /\ FirstFd + Cardinality(Clients) - 1 \in Int
      BY SocketAssumption, <2>2
    <3>2. ~ (FirstFd > FirstFd + Cardinality(Clients) - 1)
      BY SocketAssumption, <2>2, <2>3
    <3>3. /\ IsFiniteSet(Fds)
          /\ Cardinality(Fds) = (FirstFd + Cardinality(Clients) - 1) - FirstFd + 1
      BY <3>1, <3>2, FS_Interval DEF Fds
    <3>4. (FirstFd + Cardinality(Clients) - 1) - FirstFd + 1 = Cardinality(Clients)
      BY SocketAssumption, <2>2
    <3>. QED BY <3>3, <3>4
  <2>5. Cardinality(Clients \ {h}) < Cardinality(Fds)
    BY <2>2, <2>4
  <2>6. \E x, y \in Fds : x # y /\ owner[x] = owner[y]
    BY <2>1, <2>2, <2>4, <2>5, FS_PigeonHole
  <2>. QED BY <2>1, <2>6 DEF Descriptors
<1>2. Free \subseteq Nat
  BY FdsAreNumbers
<1>3. Least(Free) \in Free
  BY <1>1, <1>2, LeastIs
<1>. QED BY <1>3

\* server.cpp:83: a newcomer gets a descriptor that nobody has, and is greeted.
LEMMA AcceptHolds ==
    ASSUME Core, Accept, UNCHANGED clientVars
    PROVE  Core'
<1>1. PICK h : h = Head(backlog)
  OBVIOUS
<1>2. PICK fd : fd = Least({d \in Fds : owner[d] = None})
  OBVIOUS
<1>3. /\ backlog \in Seq(Clients) /\ backlog # <<>> /\ backlog' = Tail(backlog)
      /\ owner' = [owner EXCEPT ![fd] = h] /\ cur' = fd /\ at' = "hello" /\ at = "loop"
      /\ copy = {} /\ copy' = {} /\ rset' = rset
      /\ UNCHANGED <<c2s, s2c, gone, usernames, job, disk, last, astray>>
      /\ UNCHANGED <<pc, todo, want, got>>
  BY <1>1, <1>2 DEF Core, Typed, Accept, Selecting, streams, clientVars
<1>4. /\ h \in Clients /\ Queued(h) /\ backlog' \in Seq(Clients)
      /\ Len(backlog') = Len(backlog) - 1 /\ h = backlog[1] /\ Len(backlog) \in Nat /\ Len(backlog) >= 1
      /\ \A i \in 1 .. (Len(backlog) - 1) : backlog'[i] = backlog[i + 1]
  BY <1>1, <1>3, HeadTailProperties DEF Queued
<1>5. Nameless(h) /\ Absent(h)
  BY <1>4 DEF Core, Placed
<1>6. fd \in Fds /\ owner[fd] = None
  BY <1>2, <1>4, <1>5, FreeFd DEF Core
<1>7. /\ owner \in [Fds -> Clients \cup {None}] /\ owner'[fd] = h
      /\ owner' \in [Fds -> Clients \cup {None}]
      /\ \A d \in Fds : d # fd => owner'[d] = owner[d]
  BY <1>3, <1>4, <1>6 DEF Core, Typed
<1>8. None \notin Clients /\ rset \subseteq Fds /\ fd \notin rset
  BY <1>6, SocketAssumption DEF Core, Descriptors
<1>9. Typed'
  BY <1>3, <1>4, <1>7 DEF Core, Typed
<1>10. Descriptors'
  <2>1. \A d \in rset : d # fd /\ d \in Fds
    BY <1>8
  <2>2. \A d \in rset : owner'[d] \in Clients
    BY <2>1, <1>7 DEF Core, Descriptors
  <2>3. \A d \in Fds : owner'[d] \in Clients => d \in rset \/ d = fd
    BY <1>3, <1>7 DEF Core, Descriptors
  <2>4. \A d, gd \in Fds : owner'[d] = owner'[gd] /\ owner'[d] \in Clients => d = gd
    <3>1. \A d \in Fds : owner[d] # h
      BY <1>5 DEF Absent
    <3>2. \A d, gd \in Fds : owner[d] = owner[gd] /\ owner[d] \in Clients => d = gd
      BY DEF Core, Descriptors
    <3>. QED BY <3>1, <3>2, <1>7
  <2>5. \A i, j \in 1 .. Len(backlog') : backlog'[i] = backlog'[j] => i = j
    <3>1. ASSUME NEW i \in 1 .. Len(backlog'), NEW j \in 1 .. Len(backlog'), backlog'[i] = backlog'[j]
          PROVE  i = j
      <4>1. i + 1 \in 1 .. Len(backlog) /\ j + 1 \in 1 .. Len(backlog)
        BY <1>4
      <4>2. backlog[i + 1] = backlog[j + 1]
        BY <3>1, <1>4
      <4>3. i + 1 = j + 1
        BY <4>1, <4>2 DEF Core, Descriptors
      <4>. QED BY <4>3
    <3>. QED BY <3>1
  <2>6. rset' \subseteq Fds /\ copy' \subseteq rset' /\ Peer' = h
    BY <1>3, <1>7, <1>8 DEF Peer
  <2>. QED BY <1>3, <1>4, <1>6, <1>8, <2>2, <2>3, <2>4, <2>5, <2>6 DEF Descriptors, Uploads
<1>11. Receiving'
  BY <1>3 DEF Core, Receiving
<1>12. Cause'
  BY <1>3 DEF Cause
<1>13. ASSUME NEW c \in Clients PROVE Answers(c)' /\ Placed(c)'
  <2>1. Answers(c) /\ Placed(c)
    BY DEF Core
  <2>2. Answers(c)'
    BY <2>1, <1>3, AnswersFrame
  <2>3. ~ InHand(c) /\ ~ InHand(c)' /\ (Up' => Up) /\ Peer' = h
    BY <1>3, <1>7 DEF InHand, Uploads, Up, Peer
  <2>4. Queued(c)' => Queued(c)
    <3>1. ASSUME NEW i \in 1 .. Len(backlog'), backlog'[i] = c PROVE Queued(c)
      <4>1. i + 1 \in 1 .. Len(backlog) /\ backlog[i + 1] = c
        BY <3>1, <1>4
      <4>. QED BY <4>1 DEF Queued
    <3>. QED BY <3>1 DEF Queued
  <2>5. Registered(c)' => Registered(c)
    BY <1>3, <1>7, <1>8 DEF Registered
  <2>6. CASE c # h
    <3>1. Absent(c) => Absent(c)'
      BY <2>6, <1>7 DEF Absent
    <3>. QED BY <2>1, <2>2, <2>3, <2>4, <2>5, <2>6, <3>1, <1>3, PlacedFrame
  <2>7. CASE c = h
    <3>1. Nameless(c)'
      BY <2>7, <1>3, <1>5 DEF Nameless
    <3>2. ~ Queued(c)'
      <4>1. ASSUME NEW i \in 1 .. Len(backlog'), backlog'[i] = c PROVE FALSE
        <5>1. i + 1 \in 1 .. Len(backlog) /\ backlog[i + 1] = backlog[1] /\ 1 \in 1 .. Len(backlog)
          BY <4>1, <1>4, <2>7
        <5>2. i + 1 = 1
          BY <5>1 DEF Core, Descriptors
        <5>. QED BY <5>2
      <4>. QED BY <4>1 DEF Queued
    <3>3. ~ Registered(c)
      BY <2>7, <1>5, <1>8 DEF Registered, Absent
    <3>4. pc[c] \notin {"start", "gone"} /\ c \notin gone
      BY <2>1, <2>7, <1>5 DEF Nameless, Placed
    <3>. QED BY <2>2, <2>5, <3>1, <3>2, <3>3, <3>4, <1>3 DEF Placed
  <2>. QED BY <2>6, <2>7
<1>. QED BY <1>9, <1>10, <1>11, <1>12, <1>13 DEF Core

\* server.cpp:75: select says which descriptors are readable.
LEMMA SelectHolds ==
    ASSUME Core, Select, UNCHANGED clientVars
    PROVE  Core'
<1>1. /\ UNCHANGED <<backlog, c2s, s2c, gone, owner, rset, usernames, at, cur, job, disk, last>>
      /\ UNCHANGED <<pc, todo, want, got>> /\ at = "loop" /\ copy' \subseteq rset
  BY DEF Select, Selecting, streams, table, clientVars
<1>2. Typed'
  BY <1>1 DEF Core, Typed
<1>3. Descriptors'
  BY <1>1 DEF Core, Descriptors, Uploads
<1>4. Receiving' /\ Cause'
  BY <1>1 DEF Core, Receiving, Cause
<1>5. ASSUME NEW c \in Clients PROVE Answers(c)' /\ Placed(c)'
  BY <1>1, OthersFrame DEF Core
<1>. QED BY <1>2, <1>3, <1>4, <1>5 DEF Core

\* server.cpp:124: the loop turns to the next of them, or passes it over.
LEMMA NextFdHolds ==
    ASSUME Core, NextFd, UNCHANGED clientVars
    PROVE  Core'
<1>1. /\ UNCHANGED <<backlog, c2s, s2c, gone, owner, rset, usernames, job, disk, last>>
      /\ UNCHANGED <<pc, todo, want, got>>
      /\ at = "loop" /\ copy # {} /\ copy' = copy \ {Least(copy)}
      /\ \/ UNCHANGED <<at, cur>>
         \/ at' = "command" /\ cur' = Least(copy)
  BY DEF NextFd, streams, table, clientVars
<1>2. copy \subseteq rset /\ rset \subseteq Fds /\ copy \subseteq Nat
  BY FdsAreNumbers DEF Core, Descriptors
<1>3. Least(copy) \in copy
  BY <1>1, <1>2, LeastIs
<1>4. Typed'
  BY <1>1 DEF Core, Typed
<1>5. Descriptors'
  BY <1>1, <1>2, <1>3 DEF Core, Descriptors, Uploads
<1>6. Receiving' /\ Cause'
  BY <1>1 DEF Core, Receiving, Cause
<1>7. ASSUME NEW c \in Clients PROVE Answers(c)' /\ Placed(c)'
  <2>1. Answers(c) /\ Placed(c)
    BY DEF Core
  <2>2. Answers(c)'
    BY <2>1, <1>1, AnswersFrame
  <2>3. /\ ~ InHand(c) /\ ~ InHand(c)' /\ (Up' => Up)
        /\ ~ (at' = "hello" /\ Peer' = c)
        /\ Queued(c)' => Queued(c)
        /\ Absent(c) => Absent(c)'
        /\ Registered(c)' => Registered(c)
    BY <1>1 DEF InHand, Uploads, Up, Queued, Absent, Registered
  <2>. QED BY <2>1, <2>2, <2>3, <1>1, PlacedFrame
<1>. QED BY <1>4, <1>5, <1>6, <1>7 DEF Core
-----------------------------------------------------------------------------
(* The steps of the server that read.                                        *)

\* A field is two units, of which the second says nothing.
LEMMA FieldIs ==
    ASSUME NEW is \in Kinds, NEW v \in Values
    PROVE  /\ Unit(is, v) \in Units /\ <<Unit(is, v)>> \in Seq(Units) /\ Pad \in Units
           /\ Field(is, v) \in Seq(Units) /\ Len(Field(is, v)) = 2
           /\ Field(is, v)[1] = Unit(is, v) /\ Field(is, v)[2] = Pad
<1>1. Unit(is, v) \in Units /\ Pad \in Units
  BY DEF Unit, Units, Pad, Values, Kinds
<1>2. /\ <<Unit(is, v), Pad>> \in Seq(Units) /\ Len(<<Unit(is, v), Pad>>) = 2
      /\ <<Unit(is, v), Pad>>[1] = Unit(is, v) /\ <<Unit(is, v), Pad>>[2] = Pad
  BY <1>1
<1>3. <<Unit(is, v)>> \in Seq(Units)
  BY <1>1
<1>. QED BY <1>1, <1>2, <1>3 DEF Field

\* Who has been told nothing, and is asked for nothing.
LEMMA NothingAhead ==
    /\ Ahead(<<>>, <<>>, <<>>)
    /\ \A c, e : FramedBy(c, e, <<>>)
<1>1. PICK p : p = [i \in {0} |-> 0]
  OBVIOUS
<1>2. 0 .. Len(<<>>) = {0} /\ 1 .. Len(<<>>) = {} /\ Len(<<>>) = 0
  OBVIOUS
<1>3. p \in [0 .. Len(<<>>) -> Nat] /\ p[0] = 0
  BY <1>1, <1>2
<1>4. Cut(<<>>, <<>>, <<>>, p)
  BY <1>2, <1>3 DEF Cut
<1>. QED BY <1>2, <1>3, <1>4 DEF Ahead, FramedBy

\* The framing of what is on its way does not change with what else happens.
LEMMA FramedSame ==
    ASSUME NEW c, NEW s, Framed(c, s), pc'[c] = pc[c], s2c'[c] = s2c[c]
    PROVE  Framed(c, s)'
BY DEF Framed, Awaits

\* What the server does with one connection leaves the clients of the others alone.
LEMMA ElsewhereFrame ==
    ASSUME Core, NEW c \in Clients, c # Peer, c # Peer', UNCHANGED <<pc, todo, want, got>>,
           UNCHANGED <<backlog, gone>>, c2s'[c] = c2s[c], s2c'[c] = s2c[c],
           Absent(c) => Absent(c)', Registered(c)' => Registered(c), Up
    PROVE  Answers(c)' /\ Placed(c)'
<1>1. Answers(c) /\ Placed(c)
  BY DEF Core
<1>2. Answers(c)'
  BY <1>1, AnswersFrame
<1>3. /\ ~ InHand(c) /\ ~ InHand(c)' /\ (Queued(c)' => Queued(c))
      /\ ~ (at' = "hello" /\ Peer' = c) /\ (Up' => Up)
  BY DEF InHand, Queued
<1>. QED BY <1>1, <1>2, <1>3, PlacedFrame

\* The client in hand, when what the server has still to read from it is known.
LEMMA PeerFrame ==
    ASSUME Core, at \in {"command"} \cup Uploads, NEW c \in Clients, c = Peer,
           UNCHANGED <<pc, todo, backlog, gone, owner, rset>>, pc[c] # "verdict",
           at' # "hello", Up' => \E s : Flow(c, s)'
    PROVE  Placed(c)'
<1>1. Talks(c) /\ owner[cur] = c /\ cur \in Fds
  BY PeerTalks DEF Peer
<1>2. ~ Absent(c)
  BY <1>1 DEF Absent
<1>3. ~ Queued(c) /\ (c \in gone => pc[c] = "gone") /\ (pc[c] = "gone" => todo[c] = <<>>)
  BY <1>2 DEF Core, Placed
<1>4. ~ Queued(c)'
  BY <1>3 DEF Queued
<1>5. Talks(c)'
  BY <1>1 DEF Talks
<1>. QED BY <1>1, <1>3, <1>4, <1>5 DEF Placed, Talks

\* Who has sent something that can be read has been let in.
LEMMA PastVerdict ==
    ASSUME Core, at \in {"command"} \cup Uploads, NEW c \in Clients, c = Peer,
           NEW s, Flow(c, s), s # <<>>
    PROVE  pc[c] # "verdict"
<1>. SUFFICES ASSUME pc[c] = "verdict" PROVE FALSE
  OBVIOUS
<1>1. c2s[c] = <<>> /\ todo[c] = <<>>
  BY PeerTalks DEF Talks
<1>2. Ahead(s, <<>>, <<>>)
  BY <1>1 DEF Flow
<1>3. <<>> \in Seq(Units)
  OBVIOUS
<1>. QED BY <1>2, <1>3, AheadDone

\* The handshake: the newcomer is registered and told, or told to find another name.
LEMMA GreetHolds ==
    ASSUME Core, NamesInv, Hello, UNCHANGED clientVars
    PROVE  Core'
<1>1. PICK h : h = Peer
  OBVIOUS
<1>2. /\ at = "hello" /\ UNCHANGED <<backlog, gone, owner, copy, cur, job, disk, last>>
      /\ UNCHANGED <<pc, todo, want, got>>
  BY DEF Hello, clientVars
<1>3. h \in Clients /\ owner[cur] = h /\ cur \in Fds /\ cur \notin rset /\ copy = {}
  BY <1>1, <1>2 DEF Core, Descriptors, Peer
<1>4. c2s[h] # <<>> /\ Take(1, 1, FALSE) /\ Verdict(Head(c2s[h]).val)
  BY <1>1, <1>2, NeverEnded DEF Hello, ReadNothing, Waiting
<1>5. Placed(h) /\ Answers(h)
  BY <1>3 DEF Core
<1>6. /\ pc[h] = "verdict" /\ todo[h] = <<>> /\ s2c[h] = <<>>
      /\ \E n \in Names : c2s[h] = <<Unit("name", n)>>
  BY <1>1, <1>2, <1>4, <1>5 DEF Placed, Nameless, TurnedAway
<1>7. h \notin gone
  BY <1>5, <1>6 DEF Placed
<1>8. c2s \in [Clients -> Seq(Units)] /\ s2c \in [Clients -> Seq(Units)]
  BY DEF Core, Typed
<1>9. Rest(c2s[h], 1) = <<>>
  <2>1. c2s[h] \in Seq(Units) /\ Len(c2s[h]) = 1
    BY <1>3, <1>6, <1>8
  <2>3. 1 \in 0 .. Len(c2s[h])
    BY <2>1
  <2>4. Rest(c2s[h], 1) \in Seq(Units) /\ Len(Rest(c2s[h], 1)) = Len(c2s[h]) - 1
    BY <2>1, <2>3, UnitsRestIs
  <2>2. Rest(c2s[h], 1) \in Seq(Units) /\ Len(Rest(c2s[h], 1)) = 1 - 1
    BY <2>1, <2>4
  <2>. QED BY <2>2
<1>10. c2s' = [c2s EXCEPT ![h] = <<>>]
  BY <1>1, <1>4, <1>9 DEF Take
<1>11. c2s' \in [Clients -> Seq(Units)] /\ c2s'[h] = <<>> /\ \A c \in Clients : c # h => c2s'[c] = c2s[c]
  BY <1>3, <1>8, <1>10
<1> DEFINE Told(v) == s2c' = [s2c EXCEPT ![h] = <<Unit("verdict", v)>>]
<1>12. ASSUME NEW v, NEW next, Reply(<<Unit("verdict", v)>>, next)
       PROVE  at' = next /\ Told(v)
  <2>1. at' = next /\ s2c' = [s2c EXCEPT ![h] = s2c[h] \o <<Unit("verdict", v)>>]
    BY <1>1, <1>7, <1>12 DEF Reply
  <2>2. <<>> \o <<Unit("verdict", v)>> = <<Unit("verdict", v)>>
    OBVIOUS
  <2>. QED BY <2>1, <2>2, <1>6
<1> DEFINE Refuses == at' = "hello" /\ UNCHANGED <<rset, usernames>> /\ \E v \in Refusals : Told(v)
           Accepts == /\ rset' = rset \cup {cur} /\ Len(usernames') = Len(usernames) + 1
                      /\ Len(usernames) \in Nat
                      /\ \/ at' = "loop" /\ Told("connect successfully")
                         \/ at' = "exit" /\ UNCHANGED s2c /\ Len(usernames) + 1 >= SLOTS
<1>13. Refuses \/ Accepts
  <2>1. PICK n : n = Head(c2s[h]).val
    OBVIOUS
  <2>2. Verdict(n)
    BY <1>4, <2>1
  <2>3. CASE Taken(n) /\ Reply(<<Unit("verdict", "in used")>>, "hello") /\ UNCHANGED <<rset, usernames>>
    BY <2>3, <1>12 DEF Refusals
  <2>4. CASE /\ ~Taken(n) /\ Len(usernames) > SLOTS
             /\ Reply(<<Unit("verdict", "")>>, "hello") /\ UNCHANGED <<rset, usernames>>
    BY <2>4, <1>12 DEF Refusals
  <2>5. CASE Register(n)
    <3>1. PICK S : usernames \in Seq(S)
      BY DEF NamesInv
    <3>2. usernames' = Append(usernames, n) /\ rset' = rset \cup {cur}
      BY <2>5 DEF Register
    <3>3. Len(usernames') = Len(usernames) + 1 /\ Len(usernames) \in Nat
      BY <3>1, <3>2
    <3>4. CASE Reply(<<Unit("verdict", "connect successfully")>>, "loop")
      BY <3>2, <3>3, <3>4, <1>12
    <3>5. CASE Len(usernames) + 1 >= SLOTS /\ at' = "exit" /\ UNCHANGED s2c
      BY <3>2, <3>3, <3>5
    <3>. QED BY <2>5, <3>4, <3>5 DEF Register
  <2>. QED BY <2>2, <2>3, <2>4, <2>5 DEF Verdict
<1>14. /\ s2c' \in [Clients -> Seq(Units)] /\ \A c \in Clients : c # h => s2c'[c] = s2c[c]
       /\ Refuses => \E v \in Refusals : s2c'[h] = <<Unit("verdict", v)>>
       /\ Accepts => s2c'[h] \in {<<>>, <<Unit("verdict", "connect successfully")>>}
  <2>1. ASSUME NEW v \in Words, Told(v)
        PROVE  /\ s2c' \in [Clients -> Seq(Units)] /\ \A c \in Clients : c # h => s2c'[c] = s2c[c]
               /\ s2c'[h] = <<Unit("verdict", v)>>
    <3>1. v \in Values /\ "verdict" \in Kinds
      BY DEF Values, Kinds
    <3>2. <<Unit("verdict", v)>> \in Seq(Units)
      BY <3>1, FieldIs
    <3>. QED BY <2>1, <3>2, <1>3, <1>8
  <2>2. \A v \in Refusals : v \in Words
    BY DEF Refusals, Words
  <2>3. "connect successfully" \in Words
    BY DEF Words
  <2>4. CASE Refuses
    BY <2>1, <2>2, <2>4
  <2>5. CASE Accepts
    <3>1. CASE Told("connect successfully")
      BY <2>1, <2>3, <2>5, <3>1
    <3>2. CASE UNCHANGED s2c /\ at' = "exit"
      BY <2>5, <3>2, <1>6, <1>8
    <3>. QED BY <2>5, <3>1, <3>2
  <2>. QED BY <1>13, <2>4, <2>5
<1>15. Typed'
  BY <1>2, <1>11, <1>14 DEF Core, Typed
<1>16. Peer' = h
  BY <1>2, <1>3 DEF Peer
<1>17. Descriptors'
  BY <1>2, <1>3, <1>13, <1>16 DEF Core, Descriptors, Uploads
<1>18. Receiving'
  BY <1>2, <1>13 DEF Core, Receiving
<1>19. Cause'
  BY <1>13, SocketAssumption DEF Cause
<1>20. ASSUME NEW c \in Clients, c # h PROVE Answers(c)' /\ Placed(c)'
  <2>1. /\ Absent(c) => Absent(c)'
        /\ Registered(c)' => Registered(c)
        /\ Up
    BY <1>2, <1>3, <1>13, <1>20 DEF Absent, Registered, Up
  <2>2. c # Peer /\ c # Peer' /\ c2s'[c] = c2s[c] /\ s2c'[c] = s2c[c]
    BY <1>1, <1>11, <1>14, <1>16, <1>20
  <2>. QED BY <1>2, <2>1, <2>2, ElsewhereFrame
<1>21. Answers(h)'
  <2>1. s2c'[h] = <<>> \/ \E v \in Words : s2c'[h] = <<Unit("verdict", v)>>
    <3>1. Refusals \subseteq Words /\ "connect successfully" \in Words
      BY DEF Refusals, Words
    <3>. QED BY <3>1, <1>13, <1>14
  <2>. QED BY <2>1, <1>2, <1>5, <1>6 DEF Answers
<1>22. ~ Queued(h)' /\ ~ Registered(h)
  <2>1. ~ Absent(h)
    BY <1>3 DEF Absent
  <2>2. ~ Queued(h)
    BY <2>1, <1>5 DEF Placed
  <2>3. ~ Registered(h)
    <3>1. ASSUME NEW fd \in rset, owner[fd] = h PROVE FALSE
      <4>1. fd \in Fds /\ owner[fd] = owner[cur] /\ owner[fd] \in Clients
        BY <3>1, <1>3 DEF Core, Descriptors
      <4>2. fd = cur
        BY <4>1, <1>3 DEF Core, Descriptors
      <4>. QED BY <4>2, <1>3
    <3>. QED BY <3>1 DEF Registered
  <2>. QED BY <2>2, <2>3, <1>2 DEF Queued
<1>23. Placed(h)'
  <2>1. CASE Refuses
    <3>1. TurnedAway(h)'
      BY <2>1, <1>2, <1>6, <1>11, <1>14 DEF TurnedAway
    <3>2. ~ Registered(h)'
      BY <2>1, <1>2, <1>22 DEF Registered
    <3>. QED BY <3>1, <3>2, <1>2, <1>6, <1>7, <1>22 DEF Placed
  <2>2. CASE Accepts
    <3>1. Flow(h, <<>>)'
      <4>1. ~ (at' \in Uploads)
        BY <2>2 DEF Uploads
      <4>4. Len(<<>>) = 0 /\ ~ (1 <= 0)
        OBVIOUS
      <4>5. Expected(h, <<>>)'
        BY <4>1, <4>4 DEF Expected, CommandAt, InHand
      <4>2. Framed(h, <<>>)'
        BY <4>4 DEF Framed, FramedBy
      <4>3. Ahead(<<>>, c2s'[h], todo'[h])
        BY <1>2, <1>6, <1>11, NothingAhead
      <4>. QED BY <4>2, <4>3, <4>5, <1>2, <1>6 DEF Flow
    <3>2. Talks(h)'
      BY <3>1, <2>2, <1>2, <1>6, <1>11, <1>14 DEF Talks
    <3>. QED BY <3>2, <2>2, <1>2, <1>6, <1>7, <1>22 DEF Placed
  <2>. QED BY <2>1, <2>2, <1>13
<1>. QED BY <1>15, <1>17, <1>18, <1>19, <1>20, <1>21, <1>23 DEF Core
\* A field further on in a stream, seen from after the first k units.
LEMMA FieldRest ==
    ASSUME NEW s \in Seq(Units), NEW k \in 1 .. Len(s), NEW r,
           Len(r) = Len(s) - k, \A i \in 1 .. (Len(s) - k) : r[i] = s[i + k],
           NEW j \in 1 .. 5, NEW is, NEW V, FieldAt(s, k + j, is, V)
    PROVE  FieldAt(r, j, is, V)
<1>1. k + j + 1 <= Len(s) /\ s[k + j].is = is /\ s[k + j].val \in V /\ s[k + j + 1] = Pad
  BY DEF FieldAt
<1>2. /\ j \in 1 .. (Len(s) - k) /\ j + 1 \in 1 .. (Len(s) - k)
      /\ j + k = k + j /\ (j + 1) + k = k + j + 1
  BY <1>1
<1>3. r[j] = s[k + j] /\ r[j + 1] = s[k + j + 1] /\ j + 1 <= Len(r)
  BY <1>2
<1>. QED BY <1>1, <1>3 DEF FieldAt

\* The word of a command is read where a command begins.
LEMMA CommandRead ==
    ASSUME Core, at = "command", astray' = {}, Command
    PROVE  /\ UNCHANGED <<backlog, gone, usernames, copy, cur, job, disk>>
           /\ \E c \in Clients, s \in Seq(Units) : /\ c = Peer /\ Flow(c, s) /\ s \in Seq(Units) /\ s # <<>>
                 /\ Take(1, 1, FALSE) /\ Obey(s[1].val)
                 /\ WordAt(Awaits(c), s, 1)
<1>1. Peer \in Clients /\ \E s : Flow(Peer, s)
  BY PeerTalks
<1>2. PICK c \in Clients : c = Peer
  BY <1>1
<1>3. PICK s : Flow(c, s)
  BY <1>1, <1>2
<1>4. ~ Ended
  BY NeverEnded DEF Waiting
<1>5. /\ Take(1, 1, FALSE)
      /\ LET u == Head(c2s[c]) IN Obey(IF u.is = "cmd" THEN u.val ELSE "garbage")
  BY <1>2, <1>4 DEF Command, ReadNothing
<1>6. /\ 1 \in 1 .. Len(c2s[c]) /\ 1 \in 1 .. Len(s) /\ s \in Seq(Units)
      /\ \A i \in 1 .. Len(c2s[c]) : c2s[c][i] = s[i]
  <2>1. Typed
    BY DEF Core
  <2>2. Took(c, s, 1)
    BY <2>1, <1>2, <1>3, <1>5, TakeFlow
  <2>. QED BY <2>2 DEF Took
<1>7. c2s[c] \in Seq(Units)
  BY DEF Core, Typed
<1>8. Head(c2s[c]) = s[1] /\ s # <<>>
  BY <1>6, <1>7
<1>9. s[1].is = "cmd" /\ WordAt(Awaits(c), s, 1)
  <2>1. ~ InHand(c)
    BY DEF InHand, Uploads
  <2>2. CommandAt(s, 1) /\ FramedAt(c, Awaits(c), s, 1)
    BY <2>1, <1>3, <1>6 DEF Flow, Expected, Framed, FramedBy
  <2>. QED BY <2>2, <1>6 DEF CommandAt, FramedAt
<1>10. Obey(s[1].val)
  BY <1>5, <1>8, <1>9
<1>11. UNCHANGED <<backlog, gone, usernames, copy, cur, job, disk>>
  BY DEF Command
<1>. QED BY <1>2, <1>3, <1>5, <1>6, <1>8, <1>9, <1>10, <1>11

\* server.cpp:141: a list, an upload, a download, a farewell, or the end of the server.
LEMMA CommandHolds ==
    ASSUME Core, Command, UNCHANGED clientVars, astray' = {}
    PROVE  Core'
<1>1. at = "command" /\ UNCHANGED <<pc, todo, want, got>> /\ Up
  BY DEF Command, clientVars, Up
<1>2. UNCHANGED <<backlog, gone, usernames, copy, cur, job, disk>>
  BY <1>1, CommandRead
<1>3. PICK c \in Clients, s \in Seq(Units) :
         /\ c = Peer /\ Flow(c, s) /\ s \in Seq(Units) /\ s # <<>>
         /\ Take(1, 1, FALSE) /\ Obey(s[1].val) /\ WordAt(Awaits(c), s, 1)
  BY <1>1, CommandRead
<1>4. PICK w : w = s[1].val
  OBVIOUS
<1>5. PICK r : r = Rest(s, 1)
  OBVIOUS
<1>6. /\ c2s' = [c2s EXCEPT ![c] = Rest(c2s[c], 1)] /\ c2s'[c] = Rest(c2s[c], 1)
      /\ 1 \in 1 .. Len(s) /\ 1 \in 1 .. Len(c2s[c]) /\ Len(r) = Len(s) - 1
      /\ \A i \in 1 .. (Len(s) - 1) : r[i] = s[i + 1]
      /\ Ahead(r, c2s'[c], todo[c]) /\ Framed(c, r)
  <2>1. Typed
    BY DEF Core
  <2>3. c = Peer /\ Flow(c, s) /\ Take(1, 1, FALSE)
    BY <1>3
  <2>2. Took(c, s, 1)
    BY <2>1, <2>3, TakeFlow
  <2>. QED BY <2>2, <1>5 DEF Took
<1>7. /\ c2s \in [Clients -> Seq(Units)] /\ s2c \in [Clients -> Seq(Units)]
      /\ owner \in [Fds -> Clients \cup {None}] /\ c2s[c] \in Seq(Units)
  BY DEF Core, Typed
<1>8. c2s' \in [Clients -> Seq(Units)] /\ \A d \in Clients : d # c => c2s'[d] = c2s[d]
  <2>1. 1 \in 0 .. Len(c2s[c])
    BY <1>6, <1>7
  <2>2. Rest(c2s[c], 1) \in Seq(Units)
    BY <2>1, <1>7, UnitsRestIs
  <2>. QED BY <2>2, <1>6, <1>7
<1>9. /\ cur \in Fds /\ cur \in rset /\ cur \notin copy /\ owner[cur] = c /\ pc[c] # "verdict"
      /\ Talks(c) /\ Answers(c) /\ Placed(c)
  <2>1. at \in {"command"} \cup Uploads
    BY <1>1
  <2>2. pc[c] # "verdict"
    BY <2>1, <1>3, PastVerdict
  <2>. QED BY <2>1, <2>2, <1>3, PeerTalks DEF Peer, Core
<1>10. /\ last' = w
       /\ \/ /\ w = "msg"
             /\ Reply(Field("list", {f \in Files : disk[f] # None}), "loop")
             /\ UNCHANGED <<owner, rset>>
          \/ w = "pic" /\ at' = "pic_name" /\ UNCHANGED <<s2c, owner, rset>>
          \/ w = "file" /\ at' = "file_name" /\ UNCHANGED <<s2c, owner, rset>>
          \/ /\ w = "quit"
             /\ rset' = rset \ {cur} /\ owner' = [owner EXCEPT ![cur] = None]
             /\ at' = "loop" /\ UNCHANGED s2c
          \/ w \notin Commands /\ at' = "exit" /\ UNCHANGED <<s2c, owner, rset>>
  BY <1>3, <1>4 DEF Obey
<1>11. WordAt(Awaits(c), s, 1) /\ w = s[1].val /\ w \in Commands \cup {"ls", "put", "get"}
  BY <1>3, <1>4 DEF WordAt
\* What every branch but the farewell shares.
<1>12. ASSUME UNCHANGED <<owner, rset>>, at' \in {"loop", "pic_name", "file_name", "exit"},
              s2c' \in [Clients -> Seq(Units)], \A d \in Clients : d # c => s2c'[d] = s2c[d],
              Answers(c)', Cause', Up' => Framed(c, r)' /\ Expected(c, r)',
              pc[c] \in {"quit", "gone"} => r # <<>> /\ r[Len(r)] = s[Len(s)]
       PROVE  Core'
  <2>1. Typed'
    BY <1>1, <1>2, <1>8, <1>12 DEF Core, Typed
  <2>2. Descriptors'
    BY <1>1, <1>2, <1>9, <1>12 DEF Core, Descriptors, Uploads
  <2>3. Receiving'
    BY <1>1, <1>2, <1>12 DEF Core, Receiving
  <2>4. ASSUME NEW d \in Clients, d # c PROVE Answers(d)' /\ Placed(d)'
    <3>1. /\ Absent(d) => Absent(d)'
          /\ Registered(d)' => Registered(d)
          /\ d # Peer /\ d # Peer' /\ c2s'[d] = c2s[d] /\ s2c'[d] = s2c[d]
      BY <1>2, <1>3, <1>8, <1>12, <2>4 DEF Absent, Registered, Peer
    <3>. QED BY <3>1, <1>1, <1>2, ElsewhereFrame
  <2>5. Placed(c)'
    <3>1. Up' => Flow(c, r)'
      <4>1. Flow(c, s)
        BY <1>3
      <4>2. Ahead(r, c2s[c], todo[c])'
        BY <1>1, <1>6
      <4>3. pc[c]' \in {"quit", "gone"} => r # <<>> /\ r[Len(r)] = Unit("cmd", "quit")
        BY <4>1, <1>1, <1>12 DEF Flow
      <4>. QED BY <4>2, <4>3, <1>12 DEF Flow
    <3>. QED BY <3>1, <1>1, <1>2, <1>3, <1>9, <1>12, PeerFrame
  <2>. QED BY <2>1, <2>2, <2>3, <2>4, <2>5, <1>12 DEF Core
<1>13. CASE /\ w = "msg" /\ Reply(Field("list", {f \in Files : disk[f] # None}), "loop")
            /\ UNCHANGED <<owner, rset>>
  <2>1. 1 = Len(s) /\ pc[c] = "list" /\ s2c[c] = <<>>
    BY <1>11, <1>13 DEF WordAt, Awaits
  <2>2. c \notin gone
    BY <2>1, <1>9 DEF Placed
  <2>3. PICK F : F = {f \in Files : disk[f] # None}
    OBVIOUS
  <2>4. Field("list", F) \in Seq(Units) /\ F \in SUBSET Files
    <3>1. F \in SUBSET Files
      BY <2>3
    <3>2. F \in Values /\ "list" \in Kinds
      BY <3>1 DEF Values, Kinds
    <3>. QED BY <3>1, <3>2, FieldIs
  <2>5. at' = "loop" /\ s2c' = [s2c EXCEPT ![c] = s2c[c] \o Field("list", F)]
    BY <1>3, <1>13, <2>2, <2>3 DEF Reply
  <2>6. s2c' = [s2c EXCEPT ![c] = Field("list", F)]
    BY <2>1, <2>4, <2>5
  <2>7. /\ s2c' \in [Clients -> Seq(Units)] /\ s2c'[c] = Field("list", F)
        /\ \A d \in Clients : d # c => s2c'[d] = s2c[d]
    BY <2>4, <2>6, <1>7
  <2>8. Answers(c)'
    BY <2>1, <2>4, <2>7, <1>1, <1>9 DEF Answers
  <2>9. Len(r) = 0 /\ ~ (1 <= 0)
    <3>1. Len(r) = Len(s) - 1
      BY <1>6
    <3>2. 1 - 1 = 0 /\ ~ (1 <= 0)
      OBVIOUS
    <3>. QED BY <2>1, <3>1, <3>2
  <2>10. Framed(c, r)' /\ Expected(c, r)'
    <3>1. ~ (at' \in Uploads)
      BY <2>5 DEF Uploads
    <3>2. 1 .. Len(r) = {}
      BY <2>9
    <3>. QED BY <3>1, <3>2, <2>9 DEF Framed, FramedBy, Expected, InHand, CommandAt
  <2>11. Cause'
    BY <2>5 DEF Cause
  <2>. QED BY <1>12, <1>13, <2>1, <2>5, <2>7, <2>8, <2>10, <2>11
<1>14. ASSUME UNCHANGED <<s2c, owner, rset>> PROVE Answers(c)' /\ Framed(c, r)'
  <2>1. Answers(c)'
    BY <1>1, <1>9, <1>14, AnswersFrame
  <2>. QED BY <2>1, <1>1, <1>6, <1>14, FramedSame
<1>15. ASSUME w # "quit" PROVE pc[c] \in {"quit", "gone"} => r # <<>> /\ r[Len(r)] = s[Len(s)]
  <2>. SUFFICES ASSUME pc[c] \in {"quit", "gone"} PROVE r # <<>> /\ r[Len(r)] = s[Len(s)]
    OBVIOUS
  <2>1. s[Len(s)] = Unit("cmd", "quit")
    BY <1>3 DEF Flow
  <2>2. Len(s) \in Nat /\ Len(s) # 1 /\ Len(s) >= 1
    BY <2>1, <1>3, <1>4, <1>15 DEF Unit
  <2>3. Len(r) \in 1 .. (Len(s) - 1) /\ Len(r) + 1 = Len(s)
    BY <2>2, <1>6
  <2>4. r[Len(r)] = s[Len(r) + 1]
    BY <2>3, <1>6
  <2>. QED BY <2>3, <2>4
<1>16. CASE w = "pic" /\ at' = "pic_name" /\ UNCHANGED <<s2c, owner, rset>>
  <2>1. FieldAt(s, 2, "file", Files) /\ FieldAt(s, 4, "size", Sizes)
    <3>1. 1 + 1 = 2 /\ 1 + 3 = 4
      OBVIOUS
    <3>. QED BY <3>1, <1>11, <1>16 DEF WordAt
  <2>2. FieldAt(r, 1, "file", Files) /\ FieldAt(r, 3, "size", Sizes)
    <3>1. 1 + 1 = 2 /\ 1 + 3 = 4 /\ 1 \in 1 .. 5 /\ 3 \in 1 .. 5
      OBVIOUS
    <3>. QED BY <2>1, <3>1, <1>3, <1>6, FieldRest
  <2>3. Expected(c, r)'
    <3>1. InHand(c)' /\ at' = "pic_name"
      BY <1>2, <1>9, <1>16 DEF InHand, Uploads, Peer
    <3>. QED BY <3>1, <2>2 DEF Expected
  <2>4. Cause'
    BY <1>16 DEF Cause
  <2>. QED BY <1>7, <1>12, <1>14, <1>15, <1>16, <2>3, <2>4
<1>17. CASE w = "file" /\ at' = "file_name" /\ UNCHANGED <<s2c, owner, rset>>
  <2>1. FieldAt(s, 2, "file", Files) /\ 3 = Len(s) /\ pc[c] = "ok" /\ s2c[c] = <<>>
    <3>1. 1 + 1 = 2 /\ 1 + 2 = 3
      OBVIOUS
    <3>. QED BY <3>1, <1>11, <1>17 DEF WordAt, Awaits
  <2>2. FieldAt(r, 1, "file", Files) /\ Len(r) = 2
    <3>1. 1 + 1 = 2 /\ 1 \in 1 .. 5 /\ 3 - 1 = 2
      OBVIOUS
    <3>2. FieldAt(r, 1, "file", Files)
      <4>1. FieldAt(s, 1 + 1, "file", Files)
        BY <2>1, <3>1
      <4>2. /\ s \in Seq(Units) /\ 1 \in 1 .. Len(s) /\ Len(r) = Len(s) - 1
            /\ \A i \in 1 .. (Len(s) - 1) : r[i] = s[i + 1]
        BY <1>3, <1>6
      <4>. QED BY <3>1, <4>1, <4>2, FieldRest
    <3>. QED BY <3>1, <3>2, <2>1, <1>6
  <2>3. Expected(c, r)'
    <3>1. InHand(c)' /\ at' = "file_name"
      BY <1>2, <1>9, <1>17 DEF InHand, Uploads, Peer
    <3>. QED BY <3>1, <2>1, <2>2, <1>1, <1>17 DEF Expected
  <2>4. Cause'
    BY <1>17 DEF Cause
  <2>. QED BY <1>7, <1>12, <1>14, <1>15, <1>17, <2>3, <2>4
<1>18. CASE w \notin Commands /\ at' = "exit" /\ UNCHANGED <<s2c, owner, rset>>
  <2>1. ~ Up'
    BY <1>18 DEF Up
  <2>2. Cause'
    BY <1>10, <1>11, <1>18 DEF Cause
  <2>3. w # "quit"
    BY <1>18 DEF Commands
  <2>. QED BY <1>7, <1>12, <1>14, <1>15, <1>18, <2>1, <2>2, <2>3
<1>19. CASE /\ w = "quit" /\ rset' = rset \ {cur} /\ owner' = [owner EXCEPT ![cur] = None]
            /\ at' = "loop" /\ UNCHANGED s2c
  <2>1. /\ owner' \in [Fds -> Clients \cup {None}] /\ owner'[cur] = None
        /\ \A fd \in Fds : fd # cur => owner'[fd] = owner[fd]
        /\ None \notin Clients /\ rset \subseteq Fds
    BY <1>7, <1>9, <1>19, SocketAssumption DEF Core, Descriptors
  <2>2. Typed'
    BY <1>1, <1>2, <1>8, <1>19, <2>1 DEF Core, Typed
  <2>3. Descriptors'
    <3>1. copy' \subseteq rset' /\ rset' \subseteq Fds
      BY <1>2, <1>9, <1>19 DEF Core, Descriptors
    <3>2. \A fd \in rset' : owner'[fd] \in Clients
      BY <1>19, <2>1 DEF Core, Descriptors
    <3>3. \A fd \in Fds : owner'[fd] \in Clients => fd \in rset'
      BY <1>1, <1>19, <2>1 DEF Core, Descriptors
    <3>4. \A fd, gd \in Fds : owner'[fd] = owner'[gd] /\ owner'[fd] \in Clients => fd = gd
      BY <2>1 DEF Core, Descriptors
    <3>5. \A i, j \in 1 .. Len(backlog') : backlog'[i] = backlog'[j] => i = j
      BY <1>2 DEF Core, Descriptors
    <3>. QED BY <1>19, <3>1, <3>2, <3>3, <3>4, <3>5 DEF Descriptors, Uploads
  <2>4. Receiving' /\ Cause'
    BY <1>1, <1>2, <1>19 DEF Core, Receiving, Cause
  <2>5. ASSUME NEW d \in Clients, d # c PROVE Answers(d)' /\ Placed(d)'
    <3>1. Absent(d) => Absent(d)'
      BY <2>1, <2>5 DEF Absent
    <3>2. Registered(d)' => Registered(d)
      BY <2>1, <1>19, <2>5 DEF Registered
    <3>3. d # Peer /\ d # Peer' /\ c2s'[d] = c2s[d] /\ s2c'[d] = s2c[d]
      BY <1>2, <1>3, <1>8, <1>19, <2>1, <2>5 DEF Peer
    <3>. QED BY <3>1, <3>2, <3>3, <1>1, <1>2, ElsewhereFrame
  <2>6. Answers(c)'
    BY <1>1, <1>9, <1>19, AnswersFrame
  <2>7. Placed(c)'
    <3>1. ~ Queued(c)'
      <4>1. ~ Absent(c)
        BY <1>9 DEF Absent
      <4>2. ~ Queued(c)
        BY <4>1, <1>9 DEF Placed
      <4>. QED BY <4>2, <1>2 DEF Queued
    <3>2. ~ Registered(c)'
      <4>1. ASSUME NEW fd \in rset', owner'[fd] = c PROVE FALSE
        <5>1. fd \in Fds /\ fd # cur /\ owner[fd] = owner[cur] /\ owner[fd] \in Clients
          BY <4>1, <1>9, <1>19, <2>1
        <5>2. fd = cur
          BY <5>1, <1>9 DEF Core, Descriptors
        <5>. QED BY <5>1, <5>2
      <4>. QED BY <4>1 DEF Registered
    <3>3. pc[c] # "start"
      BY <1>9 DEF Talks
    <3>. QED BY <3>1, <3>2, <3>3, <1>1, <1>2, <1>9, <1>19 DEF Placed
  <2>. QED BY <2>2, <2>3, <2>4, <2>5, <2>6, <2>7 DEF Core
<1>. QED BY <1>10, <1>13, <1>16, <1>17, <1>18, <1>19

\* What the reads of an upload and of a name share: one client is in hand, it has been
\* read k units further, and the last of them was no command.
LEMMA ServerReads ==
    ASSUME Core, at \in Uploads, NEW c \in Clients, c = Peer, NEW s, NEW k,
           Flow(c, s), Took(c, s, k), s[k].is # "cmd",
           UNCHANGED <<backlog, gone, owner, rset, usernames, copy, cur, last>>,
           UNCHANGED <<pc, todo, want, got>>, at' \in {"loop"} \cup Uploads,
           s2c' \in [Clients -> Seq(Units)], \A d \in Clients : d # c => s2c'[d] = s2c[d],
           disk' \in [Files -> Seq(Units) \cup {None}],
           job' \in [file : Files \cup {None}, size : Nat, total : Nat],
           Receiving', Answers(c)', Framed(c, Rest(s, k))', Expected(c, Rest(s, k))'
    PROVE  Core'
<1>1. /\ c2s' = [c2s EXCEPT ![c] = Rest(c2s[c], k)] /\ c2s'[c] = Rest(c2s[c], k)
      /\ k \in 1 .. Len(s) /\ k \in 1 .. Len(c2s[c]) /\ s \in Seq(Units)
      /\ Len(Rest(s, k)) = Len(s) - k
      /\ \A i \in 1 .. (Len(s) - k) : Rest(s, k)[i] = s[i + k]
      /\ Ahead(Rest(s, k), c2s'[c], todo[c])
  BY DEF Took
<1>2. c2s \in [Clients -> Seq(Units)] /\ c2s[c] \in Seq(Units)
  BY DEF Core, Typed
<1>3. c2s' \in [Clients -> Seq(Units)] /\ \A d \in Clients : d # c => c2s'[d] = c2s[d]
  <2>1. k \in 0 .. Len(c2s[c])
    BY <1>1, <1>2
  <2>2. Rest(c2s[c], k) \in Seq(Units)
    BY <2>1, <1>2, UnitsRestIs
  <2>. QED BY <2>2, <1>1, <1>2
<1>4. /\ cur \in Fds /\ cur \in rset /\ cur \notin copy /\ owner[cur] = c /\ pc[c] # "verdict"
      /\ at \in {"command"} \cup Uploads
  <2>1. s # <<>>
    BY <1>1
  <2>. QED BY <2>1, PeerTalks, PastVerdict DEF Peer
<1>5. Typed'
  BY <1>3 DEF Core, Typed
<1>6. Descriptors'
  <2>1. at \notin {"hello", "exit"} /\ at' # "hello"
    BY DEF Uploads
  <2>. QED BY <1>4, <2>1 DEF Core, Descriptors, Uploads
<1>7. Cause'
  BY DEF Cause, Uploads
<1>8. Up /\ at' # "hello"
  BY DEF Up, Uploads
<1>9. ASSUME NEW d \in Clients, d # c PROVE Answers(d)' /\ Placed(d)'
  <2>1. /\ Absent(d) => Absent(d)'
        /\ Registered(d)' => Registered(d)
        /\ d # Peer /\ d # Peer' /\ c2s'[d] = c2s[d] /\ s2c'[d] = s2c[d]
    BY <1>3, <1>9 DEF Absent, Registered, Peer
  <2>. QED BY <2>1, <1>8, ElsewhereFrame
<1>10. Flow(c, Rest(s, k))'
  <2>1. ASSUME pc[c] \in {"quit", "gone"}
        PROVE  /\ Rest(s, k) # <<>> 
               /\ Rest(s, k)[Len(Rest(s, k))] = Unit("cmd", "quit")
    <3>1. s[Len(s)] = Unit("cmd", "quit")
      BY <2>1 DEF Flow
    <3>2. k # Len(s)
      BY <3>1 DEF Unit
    <3>3. PICK m : m = Len(s) - k
      OBVIOUS
    <3>4. m \in 1 .. (Len(s) - k) /\ m + k = Len(s)
      BY <3>2, <3>3, <1>1
    <3>5. Rest(s, k)[m] = s[m + k] /\ Len(Rest(s, k)) = m
      BY <3>3, <3>4, <1>1
    <3>. QED BY <3>1, <3>4, <3>5
  <2>2. Ahead(Rest(s, k), c2s[c], todo[c])'
    BY <1>1
  <2>. QED BY <2>1, <2>2 DEF Flow
<1>11. Placed(c)'
  BY <1>4, <1>8, <1>10, PeerFrame
<1>. QED BY <1>5, <1>6, <1>7, <1>9, <1>11 DEF Core

\* A read of a field that is where it should be (server.cpp:168): the whole field, and what
\* it says.
LEMMA FieldRead ==
    ASSUME Core, at \in Uploads, astray' = {}, NEW c \in Clients, c = Peer, NEW s, Flow(c, s),
           NEW is, NEW V, FieldAt(s, 1, is, V), NEW k, NEW Stray,
           Take(BUFSIZE, k, s[1].val \in Stray)
    PROVE  /\ k = 2 /\ Took(c, s, 2) /\ s[1].val \in V /\ s[1].val \notin Stray
           /\ s[2].is # "cmd"
<1>1. Typed
  BY DEF Core
<1>2. Len(s) >= 2 /\ s[2] = Pad /\ s[1].is = is /\ s[1].val \in V
  <2>1. 1 + 1 = 2
    OBVIOUS
  <2>. QED BY <2>1 DEF FieldAt
<1>3. PICK lost : lost = (s[1].val \in Stray)
  OBVIOUS
<1>4. Take(BUFSIZE, k, lost)
  BY <1>3
<1>5. k = 2
  BY <1>1, <1>2, <1>4, TakeField
<1>6. ~ lost /\ Took(c, s, k)
  BY <1>1, <1>4, TakeFlow
<1>8. s[2].is # "cmd"
  BY <1>2 DEF Pad, Unit
<1>. QED BY <1>2, <1>3, <1>5, <1>6, <1>8

\* What is read first is the first of what the server has still to read.
LEMMA HeadAhead ==
    ASSUME Typed, NEW c \in Clients, NEW s, Flow(c, s), c2s[c] # <<>>
    PROVE  Head(c2s[c]) = s[1]
<1>1. c2s[c] \in Seq(Units) /\ \A i \in 1 .. Len(c2s[c]) : c2s[c][i] = s[i]
  BY DEF Typed, Flow, Ahead
<1>2. 1 \in 1 .. Len(c2s[c])
  BY <1>1
<1>. QED BY <1>1, <1>2

\* Of a client that the server reads: who it is, what it sends, and that nothing has
\* ended its stream.
LEMMA InHandFlow ==
    ASSUME Core, at \in Uploads
    PROVE  /\ ~ Ended
           /\ \E c \in Clients, s \in Seq(Units) : /\ c = Peer /\ Flow(c, s) /\ InHand(c)
                                    /\ s \in Seq(Units) /\ Answers(c) /\ Placed(c)
                                    /\ Talks(c) /\ owner[cur] = c
<1>1. at \in {"command"} \cup Uploads /\ at \in Waiting
  BY DEF Uploads, Waiting
<1>2. /\ ~ Ended /\ Peer \in Clients /\ Talks(Peer)
      /\ \E s : Flow(Peer, s)
  BY <1>1, NeverEnded, PeerTalks
<1>3. PICK c \in Clients, s \in Seq(Units) : c = Peer /\ Flow(c, s)
  <2>1. \A s : Flow(Peer, s) => s \in Seq(Units)
    BY DEF Flow, Ahead
  <2>. QED BY <1>2, <2>1
<1>5. Answers(c) /\ Placed(c) /\ InHand(c) /\ owner[cur] = c
  BY <1>3 DEF Core, InHand, Peer
<1>. QED BY <1>2, <1>3, <1>5

\* server.cpp:168: a name that can be opened empties the file.
LEMMA PicNameHolds ==
    ASSUME Core, PicName, UNCHANGED clientVars, astray' = {}
    PROVE  Core'
<1>1. /\ at = "pic_name" /\ at \in Uploads /\ UNCHANGED <<pc, todo, want, got>>
      /\ UNCHANGED <<backlog, gone, owner, rset, usernames, copy, cur, last, s2c>>
  BY DEF PicName, clientVars, table, Uploads
<1>2. PICK c \in Clients, s \in Seq(Units) :
         /\ c = Peer /\ Flow(c, s) /\ InHand(c) /\ s \in Seq(Units) /\ ~ Ended
         /\ Answers(c) /\ owner[cur] = c
  BY <1>1, InHandFlow
<1>3. FieldAt(s, 1, "file", Files) /\ FieldAt(s, 3, "size", Sizes)
  BY <1>1, <1>2 DEF Flow, Expected
<1>4. PICK k : k \in 1 .. BUFSIZE /\ ReadField("file", k, OpenForWriting, Files, Unopenable, None)
  BY DEF PicName
<1>5. c2s[c] # <<>>
  BY <1>2, <1>4 DEF ReadField, ReadNothing
<1>6. Head(c2s[c]) = s[1] /\ s[1].is = "file" /\ Typed
  BY <1>2, <1>3, <1>5, HeadAhead DEF Core, FieldAt
<1>7. PICK f : f = s[1].val
  OBVIOUS
<1>8. Take(BUFSIZE, k, f \in Unopenable) /\ OpenForWriting(f)
  BY <1>2, <1>4, <1>6, <1>7 DEF ReadField, ReadNothing
<1>9. k = 2 /\ Took(c, s, 2) /\ f \in Files /\ f \notin Unopenable /\ s[2].is # "cmd"
  <2>1. Take(BUFSIZE, k, s[1].val \in Unopenable)
    BY <1>7, <1>8
  <2>. QED BY <2>1, <1>1, <1>2, <1>3, <1>7, FieldRead
<1>10. /\ disk' = [disk EXCEPT ![f] = <<>>] /\ job' = [job EXCEPT !.file = f]
       /\ at' = "pic_size"
  BY <1>8, <1>9, SocketAssumption DEF OpenForWriting
<1>11. /\ disk' \in [Files -> Seq(Units) \cup {None}] /\ job'.file = f
       /\ job' \in [file : Files \cup {None}, size : Nat, total : Nat]
       /\ disk'[f] = <<>> /\ \A g \in Files : g # f => disk'[g] = disk[g]
  <2>1. disk \in [Files -> Seq(Units) \cup {None}] /\ <<>> \in Seq(Units)
        /\ job \in [file : Files \cup {None}, size : Nat, total : Nat]
    BY DEF Core, Typed
  <2>. QED BY <2>1, <1>9, <1>10
<1>12. Receiving'
  BY <1>1, <1>9, <1>10, <1>11 DEF Core, Receiving
<1>13. s2c' \in [Clients -> Seq(Units)] /\ \A d \in Clients : d # c => s2c'[d] = s2c[d]
  BY <1>1 DEF Core, Typed
<1>14. Answers(c)' /\ Framed(c, Rest(s, 2))'
  BY <1>1, <1>2, <1>9, AnswersFrame, FramedSame DEF Took
<1>15. Expected(c, Rest(s, 2))'
  <2>1. InHand(c)' /\ at' = "pic_size"
    BY <1>1, <1>2, <1>10 DEF InHand, Uploads, Peer
  <2>2. FieldAt(s, 2 + 1, "size", Sizes)
    <3>1. 2 + 1 = 3
      OBVIOUS
    <3>. QED BY <3>1, <1>3
  <2>3. FieldAt(Rest(s, 2), 1, "size", Sizes)
    <3>1. 1 \in 1 .. 5
      OBVIOUS
    <3>2. /\ 2 \in 1 .. Len(s) /\ Len(Rest(s, 2)) = Len(s) - 2
          /\ \A i \in 1 .. (Len(s) - 2) : Rest(s, 2)[i] = s[i + 2]
      BY <1>9 DEF Took
    <3>. QED BY <3>1, <3>2, <2>2, <1>2, FieldRest
  <2>. QED BY <2>1, <2>3 DEF Expected
<1>. QED BY <1>1, <1>2, <1>9, <1>10, <1>11, <1>12, <1>13, <1>14, <1>15, ServerReads DEF Uploads

\* A file of n units of client c is one that a client may put.
LEMMA ContentIs ==
    ASSUME NEW c \in Clients, NEW n \in Nat
    PROVE  /\ Content(c, n) \in Seq(Units) /\ Len(Content(c, n)) = n
           /\ \A i \in 1 .. n : Content(c, n)[i] = Datum(c, i, n)
           /\ n \in Sizes => Content(c, n) \in Whole
<1>1. ASSUME NEW i \in 1 .. n PROVE Datum(c, i, n) \in Units
  <2>1. <<c, i, n>> \in Values /\ "data" \in Kinds
    BY DEF Values, Kinds
  <2>. QED BY <2>1, FieldIs DEF Datum
<1>2. /\ Content(c, n) = [i \in 1 .. n |-> Datum(c, i, n)]
  BY DEF Content, Datum
<1>3. Content(c, n) \in [1 .. n -> Units]
  BY <1>1, <1>2
<1>4. Content(c, n) \in Seq(Units)
  BY <1>3
<1>5. Len(Content(c, n)) = n /\ \A i \in 1 .. n : Content(c, n)[i] = Datum(c, i, n)
  BY <1>2, <1>4
<1>. QED BY <1>4, <1>5 DEF Whole

\* server.cpp:176: the size of the file.
LEMMA PicSizeHolds ==
    ASSUME Core, PicSize, UNCHANGED clientVars, astray' = {}
    PROVE  Core'
<1>1. /\ at = "pic_size" /\ at \in Uploads /\ UNCHANGED <<pc, todo, want, got>>
      /\ UNCHANGED <<backlog, gone, owner, rset, usernames, copy, cur, last, s2c, disk>>
  BY DEF PicSize, clientVars, table, Uploads
<1>2. PICK c \in Clients, s \in Seq(Units) :
         /\ c = Peer /\ Flow(c, s) /\ InHand(c) /\ s \in Seq(Units) /\ ~ Ended
         /\ Answers(c) /\ owner[cur] = c
  BY <1>1, InHandFlow
<1>3. FieldAt(s, 1, "size", Sizes)
  BY <1>1, <1>2 DEF Flow, Expected
<1>4. PICK k : k \in 1 .. BUFSIZE /\ ReadField("size", k, ExpectBytes, Sizes, {}, 0)
  BY DEF PicSize
<1>5. c2s[c] # <<>>
  BY <1>2, <1>4 DEF ReadField, ReadNothing
<1>6. Head(c2s[c]) = s[1] /\ s[1].is = "size" /\ Typed
  BY <1>2, <1>3, <1>5, HeadAhead DEF Core, FieldAt
<1>7. PICK n : n = s[1].val
  OBVIOUS
<1>8. Take(BUFSIZE, k, n \in {}) /\ ExpectBytes(n)
  BY <1>2, <1>4, <1>6, <1>7 DEF ReadField, ReadNothing
<1>9. k = 2 /\ Took(c, s, 2) /\ n \in Sizes /\ n \in Nat /\ s[2].is # "cmd"
  <2>1. Take(BUFSIZE, k, s[1].val \in {})
    BY <1>7, <1>8
  <2>. QED BY <2>1, <1>1, <1>2, <1>3, <1>7, FieldRead, SocketAssumption
<1>10. job' = [job EXCEPT !.size = n, !.total = 0] /\ at' = "pic_data"
  BY <1>8 DEF ExpectBytes
<1>11. /\ job' \in [file : Files \cup {None}, size : Nat, total : Nat]
       /\ job'.file = job.file /\ job'.size = n /\ job'.total = 0
  <2>1. job \in [file : Files \cup {None}, size : Nat, total : Nat]
    BY DEF Core, Typed
  <2>. QED BY <2>1, <1>9, <1>10
<1>12. disk' \in [Files -> Seq(Units) \cup {None}] /\ s2c' \in [Clients -> Seq(Units)]
  BY <1>1 DEF Core, Typed
<1>13. Receiving'
  <2>1. /\ job.file \in Files /\ disk[job.file] = <<>>
        /\ \A f \in Files : disk[f] \in Whole \cup {None} \/ f = job.file
    BY <1>1 DEF Core, Receiving
  <2>2. SubSeq(Content(Peer', n), 1, 0) = <<>>
    BY SubSeqEmpty
  <2>3. disk'[job'.file] = SubSeq(Content(Peer', job'.size), 1, job'.total)
    BY <2>1, <2>2, <1>1, <1>11
  <2>4. job'.file \in Files /\ job'.size \in Sizes /\ job'.total \in 0 .. job'.size
    BY <2>1, <1>9, <1>11
  <2>5. \A f \in Files : disk'[f] \in Whole \cup {None} \/ f = job'.file
    BY <2>1, <1>1, <1>11
  <2>. QED BY <2>3, <2>4, <2>5, <1>10 DEF Receiving
<1>14. Answers(c)' /\ Framed(c, Rest(s, 2))'
  BY <1>1, <1>2, <1>9, AnswersFrame, FramedSame DEF Took
<1>15. Expected(c, Rest(s, 2))'
  <2>1. InHand(c)' /\ at' = "pic_data"
    BY <1>1, <1>2, <1>10 DEF InHand, Uploads, Peer
  <2>2. SizeAt(c, s, 1)
    <3>1. 1 \in 1 .. Len(s)
      BY <1>3, <1>2 DEF FieldAt
    <3>2. FramedAt(c, Awaits(c), s, 1)
      BY <3>1, <1>2 DEF Flow, Framed, FramedBy
    <3>. QED BY <3>2, <1>6 DEF FramedAt
  <2>3. /\ 2 \in 1 .. Len(s) /\ Len(Rest(s, 2)) = Len(s) - 2 /\ Len(s) \in Nat
        /\ \A i \in 1 .. (Len(s) - 2) : Rest(s, 2)[i] = s[i + 2]
    BY <1>9, <1>2 DEF Took
  <2>4. IF n = 0 THEN 3 <= Len(s) => s[3].is = "cmd"
        ELSE 3 <= Len(s) /\ s[3] = Datum(c, 1, n)
    <3>1. 1 + 2 = 3
      OBVIOUS
    <3>. QED BY <3>1, <2>2, <1>7 DEF SizeAt, CommandAt
  <2>5. 3 <= Len(s) <=> 1 <= Len(Rest(s, 2))
    BY <2>3
  <2>6. 3 <= Len(s) => Rest(s, 2)[1] = s[3]
    <3>1. ASSUME 3 <= Len(s) PROVE 1 \in 1 .. (Len(s) - 2) /\ 1 + 2 = 3
      BY <3>1, <2>3
    <3>. QED BY <3>1, <2>3
  <2>7. 0 + 1 = 1
    OBVIOUS
  <2>. QED BY <2>1, <2>4, <2>5, <2>6, <2>7, <1>11 DEF Expected, CommandAt
<1>. QED BY <1>1, <1>2, <1>9, <1>10, <1>11, <1>12, <1>13, <1>14, <1>15, ServerReads DEF Uploads

\* The next one or two units of an upload, and what comes after them.
LEMMA DataAhead ==
    ASSUME NEW c, NEW e, NEW s, FramedBy(c, e, s), Len(s) \in Nat, NEW n \in Sizes, NEW t \in Nat, t < n,
           1 <= Len(s), s[1] = Datum(c, t + 1, n),
           NEW k \in 1 .. 2, k <= Len(s), t + k <= n
    PROVE  /\ \A i \in 1 .. k : s[i] = Datum(c, t + i, n)
           /\ IF t + k = n THEN CommandAt(s, k + 1)
              ELSE k + 1 <= Len(s) /\ s[k + 1] = Datum(c, t + k + 1, n)
<1>1. n \in Nat /\ 1 \in 1 .. Len(s) /\ t + 1 \in 1 .. n /\ 1 + 1 = 2
  BY SocketAssumption
<1>2. DatumAt(c, s, 1, t + 1, n)
  BY <1>1 DEF FramedBy, FramedAt
<1>3. CASE k = 1
  BY <1>1, <1>2, <1>3 DEF DatumAt
<1>4. CASE k = 2
  <2>1. t + 1 # n /\ t + 1 + 1 = t + 2 /\ 2 \in 1 .. Len(s) /\ t + 2 \in 1 .. n /\ 2 + 1 = 3
    BY <1>1, <1>4
  <2>2. s[2] = Datum(c, t + 2, n)
    BY <1>1, <1>2, <2>1 DEF DatumAt
  <2>3. DatumAt(c, s, 2, t + 2, n)
    BY <2>1, <2>2 DEF FramedBy, FramedAt
  <2>4. \A i \in 1 .. 2 : i = 1 \/ i = 2
    OBVIOUS
  <2>. QED BY <1>4, <2>1, <2>2, <2>3, <2>4 DEF DatumAt
<1>. QED BY <1>3, <1>4

\* a is the k units of an upload of n that follow the first t.
Slice(a, c, t, k, n) == Len(a) = k /\ \A i \in 1 .. k : a[i] = Datum(c, t + i, n)

\* What is written to the file, when k more units have come.
LEMMA ContentGrows ==
    ASSUME NEW c \in Clients, NEW n \in Nat, NEW t \in Nat, NEW k \in Nat, t + k <= n,
           NEW a \in Seq(Units), Slice(a, c, t, k, n)
    PROVE  SubSeq(Content(c, n), 1, t) \o a = SubSeq(Content(c, n), 1, t + k)
<1>0. Len(a) = k /\ \A i \in 1 .. k : a[i] = Datum(c, t + i, n)
  BY DEF Slice
<1>1. PICK d : d = Content(c, n)
  OBVIOUS
<1>2. d \in Seq(Units) /\ Len(d) = n /\ \A i \in 1 .. n : d[i] = Datum(c, i, n)
  BY <1>1, ContentIs
<1>3. PICK x : x = SubSeq(d, 1, t)
  OBVIOUS
<1>4. PICK y : y = SubSeq(d, 1, t + k)
  OBVIOUS
<1>5. x \in Seq(Units) /\ Len(x) = t /\ \A i \in 1 .. t : x[i] = d[i]
  <2>1. t \in 0 .. Len(d)
    BY <1>2
  <2>2. /\ Prefix(d, t) \in Seq(Units) /\ Len(Prefix(d, t)) = t
        /\ \A i \in 1 .. t : Prefix(d, t)[i] = d[i]
    BY <1>2, <2>1, PrefixIs
  <2>. QED BY <2>2, <1>3 DEF Prefix
<1>6. y \in Seq(Units) /\ Len(y) = t + k /\ \A i \in 1 .. (t + k) : y[i] = d[i]
  <2>1. t + k \in 0 .. Len(d)
    BY <1>2
  <2>2. /\ Prefix(d, t + k) \in Seq(Units) /\ Len(Prefix(d, t + k)) = t + k
        /\ \A i \in 1 .. (t + k) : Prefix(d, t + k)[i] = d[i]
    BY <1>2, <2>1, PrefixIs
  <2>. QED BY <2>2, <1>4 DEF Prefix
<1>7. /\ x \o a \in Seq(Units) /\ Len(x \o a) = t + k
      /\ \A i \in 1 .. (t + k) : (x \o a)[i] = IF i <= t THEN x[i] ELSE a[i - t]
  BY <1>0, <1>5, ConcatProperties
<1>8. ASSUME NEW i \in 1 .. (t + k) PROVE (x \o a)[i] = y[i]
  <2>1. CASE i <= t
    BY <2>1, <1>5, <1>6, <1>7
  <2>2. CASE i > t
    <3>1. i - t \in 1 .. k /\ t + (i - t) = i /\ i \in 1 .. n
      BY <2>2
    <3>2. a[i - t] = Datum(c, i, n)
      BY <3>1, <1>0
    <3>3. (x \o a)[i] = a[i - t] /\ ~ (i <= t)
      <4>1. ~ (i <= t)
        BY <2>2
      <4>. QED BY <4>1, <1>7
    <3>4. y[i] = Datum(c, i, n)
      BY <3>1, <1>2, <1>6
    <3>. QED BY <3>2, <3>3, <3>4
  <2>3. i <= t \/ i > t
    <3>1. i \in Int /\ t \in Int
      OBVIOUS
    <3>. QED BY <3>1
  <2>. QED BY <2>1, <2>2, <2>3
<1>9. x \o a = y
  BY <1>6, <1>7, <1>8
<1>. QED BY <1>1, <1>3, <1>4, <1>9

\* server.cpp:183: the data, as they come.
LEMMA PicDataHolds ==
    ASSUME Core, PicData, UNCHANGED clientVars, astray' = {}
    PROVE  Core'
<1>1. /\ at = "pic_data" /\ at \in Uploads /\ UNCHANGED <<pc, todo, want, got>>
      /\ UNCHANGED <<backlog, gone, owner, rset, usernames, copy, cur, last, s2c>>
  BY DEF PicData, clientVars, table, Uploads
<1>2. PICK c \in Clients, s \in Seq(Units) :
         /\ c = Peer /\ Flow(c, s) /\ InHand(c) /\ s \in Seq(Units) /\ ~ Ended
         /\ Answers(c) /\ Placed(c) /\ Talks(c) /\ owner[cur] = c
  BY <1>1, InHandFlow
<1>3. PICK f, n, t : f = job.file /\ n = job.size /\ t = job.total
  OBVIOUS
<1>4. /\ f \in Files /\ n \in Sizes /\ n \in Nat /\ t \in 0 .. n
      /\ disk[f] = SubSeq(Content(c, n), 1, t)
      /\ \A g \in Files : g # f => disk[g] \in Whole \cup {None}
  BY <1>1, <1>2, <1>3, SocketAssumption DEF Core, Receiving
<1>5. /\ disk \in [Files -> Seq(Units) \cup {None}] /\ s2c \in [Clients -> Seq(Units)]
      /\ job \in [file : Files \cup {None}, size : Nat, total : Nat]
      /\ c2s \in [Clients -> Seq(Units)] /\ c2s[c] \in Seq(Units)
  BY DEF Core, Typed
<1>6. Content(c, n) \in Whole /\ SubSeq(Content(c, n), 1, n) = Content(c, n)
  BY <1>4, ContentIs, SubSeqFull
<1>7. CASE n = t /\ UNCHANGED <<c2s, disk, job, astray>> /\ at' = "loop"
  <2>1. Typed'
    BY <1>1, <1>7 DEF Core, Typed
  <2>2. Descriptors'
    BY <1>1, <1>7 DEF Core, Descriptors, Uploads
  <2>3. Receiving'
    <3>1. \A g \in Files : disk[g] \in Whole \cup {None}
      BY <1>4, <1>6, <1>7
    <3>. QED BY <3>1, <1>7 DEF Receiving
  <2>4. Cause'
    BY <1>7 DEF Cause
  <2>5. ASSUME NEW d \in Clients, d # c PROVE Answers(d)' /\ Placed(d)'
    <3>1. /\ Absent(d) => Absent(d)'
          /\ Registered(d)' => Registered(d)
          /\ d # Peer /\ d # Peer' /\ c2s'[d] = c2s[d] /\ s2c'[d] = s2c[d] /\ Up
      BY <1>1, <1>2, <1>7, <2>5 DEF Absent, Registered, Peer, Up
    <3>. QED BY <3>1, <1>1, ElsewhereFrame
  <2>6. Answers(c)' /\ Framed(c, s)'
    BY <1>1, <1>2, AnswersFrame, FramedSame DEF Flow
  <2>7. Flow(c, s)'
    <3>1. CommandAt(s, 1)
      BY <1>1, <1>2, <1>3, <1>7 DEF Flow, Expected
    <3>2. Expected(c, s)'
      BY <3>1, <1>7 DEF Expected, InHand, Uploads
    <3>. QED BY <3>2, <2>6, <1>1, <1>2, <1>7 DEF Flow
  <2>8. Placed(c)'
    <3>1. ~ Queued(c)'
      <4>1. ~ Absent(c)
        BY <1>1, <1>2, PeerTalks DEF Absent
      <4>2. ~ Queued(c)
        BY <4>1, <1>2 DEF Placed
      <4>. QED BY <4>2, <1>1 DEF Queued
    <3>2. Talks(c)'
      BY <2>7, <1>1, <1>2, <1>7 DEF Talks
    <3>. QED BY <3>1, <3>2, <1>1, <1>2, <1>7 DEF Placed, Talks
  <2>. QED BY <2>1, <2>2, <2>3, <2>4, <2>5, <2>6, <2>8 DEF Core
<1>8. ASSUME NEW k \in 1 .. Wanted, Take(Wanted, k, FALSE),
             disk' = [disk EXCEPT ![job.file] = @ \o Prefix(c2s[Peer], k)],
             job' = [job EXCEPT !.total = @ + k],
             at' = IF job.total + k = job.size THEN "loop" ELSE at
      PROVE  Core'
  <2>1. k \in 1 .. 2 /\ t + k <= n /\ t < n /\ t \in Nat
    <3>1. k \in 1 .. (IF n - t < 2 THEN n - t ELSE 2)
      BY <1>3, <1>8 DEF Wanted, BUFSIZE
    <3>2. n \in Nat /\ t \in 0 .. n
      BY <1>4
    <3>. QED BY <3>1, <3>2
  <2>2. Took(c, s, k)
    <3>1. Typed
      BY DEF Core
    <3>2. PICK m, lost : m = Wanted /\ lost = FALSE
      OBVIOUS
    <3>3. Take(m, k, lost)
      BY <1>8, <3>2
    <3>. QED BY <3>1, <3>3, <1>2, TakeFlow
  <2>3. /\ Len(s) \in Nat /\ k \in 1 .. Len(s) /\ k \in 1 .. Len(c2s[c]) /\ Framed(c, s)
        /\ Len(Rest(s, k)) = Len(s) - k
        /\ \A i \in 1 .. (Len(s) - k) : Rest(s, k)[i] = s[i + k]
        /\ \A i \in 1 .. Len(c2s[c]) : c2s[c][i] = s[i]
    <3>1. Len(s) \in Nat /\ Framed(c, s)
      BY <1>2 DEF Flow
    <3>2. k \in 1 .. Len(s) /\ k \in 1 .. Len(c2s[c]) /\ Len(Rest(s, k)) = Len(s) - k
      BY <2>2 DEF Took
    <3>3. \A i \in 1 .. (Len(s) - k) : Rest(s, k)[i] = s[i + k]
      BY <2>2 DEF Took
    <3>4. \A i \in 1 .. Len(c2s[c]) : c2s[c][i] = s[i]
      BY <2>2 DEF Took
    <3>. QED BY <3>1, <3>2, <3>3, <3>4
  <2>4. 1 <= Len(s) /\ s[1] = Datum(c, t + 1, n)
    <3>1. t # n
      BY <2>1, <1>4
    <3>. QED BY <3>1, <1>1, <1>2, <1>3 DEF Flow, Expected
  <2>5. /\ \A i \in 1 .. k : s[i] = Datum(c, t + i, n)
        /\ IF t + k = n THEN CommandAt(s, k + 1)
           ELSE k + 1 <= Len(s) /\ s[k + 1] = Datum(c, t + k + 1, n)
    <3>1. k <= Len(s) /\ FramedBy(c, Awaits(c), s) /\ Len(s) \in Nat
      BY <2>3 DEF Framed
    <3>2. n \in Sizes /\ t \in Nat /\ t < n /\ k \in 1 .. 2 /\ t + k <= n
      BY <2>1, <1>4
    <3>. QED BY <3>1, <3>2, <2>4, DataAhead
  <2>6. PICK a : a = Prefix(c2s[c], k)
    OBVIOUS
  <2>7. a \in Seq(Units) /\ Len(a) = k /\ \A i \in 1 .. k : a[i] = Datum(c, t + i, n)
    <3>1. k \in 0 .. Len(c2s[c])
      BY <2>3
    <3>2. a \in Seq(Units) /\ Len(a) = k /\ \A i \in 1 .. k : a[i] = c2s[c][i]
      BY <3>1, <2>6, <1>5, PrefixIs
    <3>3. ASSUME NEW i \in 1 .. k PROVE a[i] = Datum(c, t + i, n)
      <4>1. i \in 1 .. Len(c2s[c])
        BY <2>3, <1>5
      <4>. QED BY <4>1, <3>2, <2>3, <2>5
    <3>. QED BY <3>2, <3>3
  <2>8. SubSeq(Content(c, n), 1, t) \o a = SubSeq(Content(c, n), 1, t + k)
    <3>1. k \in Nat /\ t \in Nat /\ n \in Nat /\ t + k <= n
      BY <2>1, <1>4
    <3>2. a \in Seq(Units) /\ Slice(a, c, t, k, n)
      BY <2>7 DEF Slice
    <3>. QED BY <3>1, <3>2, ContentGrows
  <2>9. PICK b : b = SubSeq(Content(c, n), 1, t + k)
    OBVIOUS
  <2>10. b \in Seq(Units)
    <3>1. t + k \in 0 .. Len(Content(c, n)) /\ Content(c, n) \in Seq(Units)
      BY <2>1, <1>4, ContentIs
    <3>2. Prefix(Content(c, n), t + k) \in Seq(Units)
      BY <3>1, PrefixIs
    <3>. QED BY <3>2, <2>9 DEF Prefix
  <2>11. /\ disk' = [disk EXCEPT ![f] = b]
    BY <2>6, <2>8, <2>9, <1>2, <1>3, <1>4, <1>8
  <2>12. /\ disk' \in [Files -> Seq(Units) \cup {None}] /\ disk'[f] = b
         /\ \A g \in Files : g # f => disk'[g] = disk[g]
    BY <2>10, <2>11, <1>4, <1>5
  <2>13. /\ job' \in [file : Files \cup {None}, size : Nat, total : Nat]
         /\ job'.file = f /\ job'.size = n /\ job'.total = t + k
    <3>1. t + k \in Nat
      BY <2>1
    <3>. QED BY <3>1, <1>3, <1>5, <1>8
  <2>14. /\ t + k = n => at' = "loop"
         /\ t + k # n => at' = "pic_data"
    BY <1>1, <1>3, <1>8
  <2>15. Peer' = c
    BY <1>1, <1>2 DEF Peer
  <2>16. Receiving'
    <3>1. CASE t + k = n
      <4>1. b \in Whole
        BY <3>1, <2>9, <1>6
      <4>2. \A g \in Files : disk'[g] \in Whole \cup {None}
        BY <4>1, <2>12, <1>4
      <4>. QED BY <4>2, <3>1, <2>14 DEF Receiving
    <3>2. CASE t + k # n
      <4>1. disk'[job'.file] = SubSeq(Content(Peer', job'.size), 1, job'.total)
        BY <2>9, <2>12, <2>13, <2>15
      <4>2. job'.file \in Files /\ job'.size \in Sizes /\ job'.total \in 0 .. job'.size
        BY <2>1, <2>13, <1>4
      <4>3. \A g \in Files : disk'[g] \in Whole \cup {None} \/ g = job'.file
        BY <2>12, <2>13, <1>4
      <4>. QED BY <4>1, <4>2, <4>3, <3>2, <2>14 DEF Receiving
    <3>. QED BY <3>1, <3>2
  <2>17. Answers(c)' /\ Framed(c, Rest(s, k))'
    BY <1>1, <1>2, <2>2, AnswersFrame, FramedSame DEF Took
  <2>18. /\ IF t + k = n THEN CommandAt(Rest(s, k), 1)
            ELSE 1 <= Len(Rest(s, k)) /\ Rest(s, k)[1] = Datum(c, t + k + 1, n)
    <3>1. k + 1 <= Len(s) <=> 1 <= Len(Rest(s, k))
      BY <2>1, <2>3
    <3>2. k + 1 <= Len(s) => Rest(s, k)[1] = s[k + 1]
      <4>1. ASSUME k + 1 <= Len(s) PROVE 1 \in 1 .. (Len(s) - k) /\ 1 + k = k + 1
        BY <4>1, <2>1, <2>3
      <4>. QED BY <4>1, <2>3
    <3>. QED BY <3>1, <3>2, <2>5 DEF CommandAt
  <2>19. Expected(c, Rest(s, k))'
    <3>1. CASE t + k = n
      BY <3>1, <2>14, <2>18 DEF Expected, InHand, Uploads
    <3>2. CASE t + k # n
      BY <3>2, <2>13, <2>14, <2>15, <2>18 DEF Expected, InHand, Uploads
    <3>. QED BY <3>1, <3>2
  <2>20. s[k].is # "cmd"
    <3>1. k \in 1 .. k
      BY <2>1
    <3>2. s[k] = Datum(c, t + k, n)
      BY <3>1, <2>5
    <3>. QED BY <3>2, DatumIs
  <2>21. at' \in {"loop"} \cup Uploads
    BY <2>14 DEF Uploads
  <2>22. s2c' \in [Clients -> Seq(Units)] /\ \A d \in Clients : d # c => s2c'[d] = s2c[d]
    BY <1>1, <1>5
  <2>. QED BY <1>1, <1>2, <2>2, <2>12, <2>13, <2>16, <2>17, <2>19, <2>20, <2>21, <2>22, ServerReads
<1>9. \/ job.size = job.total /\ UNCHANGED <<c2s, disk, job, astray>> /\ at' = "loop"
      \/ \E k \in 1 .. Wanted :
            /\ Take(Wanted, k, FALSE)
            /\ disk' = [disk EXCEPT ![job.file] = @ \o Prefix(c2s[Peer], k)]
            /\ job' = [job EXCEPT !.total = @ + k]
            /\ at' = IF job.total + k = job.size THEN "loop" ELSE at
  BY DEF PicData
<1>. QED BY <1>3, <1>7, <1>8, <1>9

\* What goes out in one answer is what is read, field by field.
LEMMA SentIs ==
    ASSUME NEW d \in Seq(Units)
    PROVE  /\ Sent(d) \in Seq(Units)
           /\ Field("ok", None) \o Sent(d) \in Seq(Units)
           /\ (Field("ok", None) \o Field("size", Len(d))) \o d = Field("ok", None) \o Sent(d)
<1>1. "ok" \in Kinds /\ "size" \in Kinds /\ None \in Values /\ Len(d) \in Values
  BY DEF Kinds, Values
<1>2. Field("ok", None) \in Seq(Units) /\ Field("size", Len(d)) \in Seq(Units)
  BY <1>1, FieldIs
<1>. QED BY <1>2, ConcatProperties, ConcatAssociative DEF Sent

\* A file is a sequence of units.
LEMMA WholeIs == Whole \subseteq Seq(Units)
<1>1. ASSUME NEW c \in Clients, NEW n \in Sizes PROVE Content(c, n) \in Seq(Units)
  BY ContentIs, SocketAssumption
<1>. QED BY <1>1 DEF Whole

\* server.cpp:211: the answer to a get goes out at once.
LEMMA FileNameHolds ==
    ASSUME Core, FileName, UNCHANGED clientVars, astray' = {}
    PROVE  Core'
<1>1. /\ at = "file_name" /\ at \in Uploads /\ UNCHANGED <<pc, todo, want, got>>
      /\ UNCHANGED <<backlog, gone, owner, rset, usernames, copy, cur, last, disk, job>>
  BY DEF FileName, clientVars, table, Uploads
<1>2. PICK c \in Clients, s \in Seq(Units) :
         /\ c = Peer /\ Flow(c, s) /\ InHand(c) /\ s \in Seq(Units) /\ ~ Ended
         /\ Answers(c) /\ Placed(c) /\ owner[cur] = c
  BY <1>1, InHandFlow
<1>3. FieldAt(s, 1, "file", Files) /\ Len(s) = 2 /\ pc[c] = "ok" /\ s2c[c] = <<>>
  BY <1>1, <1>2 DEF Flow, Expected
<1>4. PICK k : k \in 1 .. BUFSIZE /\ ReadField("file", k, SendFile, Files, {}, None)
  BY DEF FileName
<1>5. c2s[c] # <<>>
  BY <1>2, <1>4 DEF ReadField, ReadNothing
<1>6. Head(c2s[c]) = s[1] /\ s[1].is = "file" /\ Typed
  BY <1>2, <1>3, <1>5, HeadAhead DEF Core, FieldAt
<1>7. PICK f : f = s[1].val
  OBVIOUS
<1>8. Take(BUFSIZE, k, f \in {}) /\ SendFile(f)
  BY <1>2, <1>4, <1>6, <1>7 DEF ReadField, ReadNothing
<1>9. k = 2 /\ Took(c, s, 2) /\ f \in Files /\ s[2].is # "cmd"
  <2>1. Take(BUFSIZE, k, s[1].val \in {})
    BY <1>7, <1>8
  <2>2. at \in Uploads /\ c = Peer /\ Flow(c, s) /\ FieldAt(s, 1, "file", Files)
    BY <1>1, <1>2, <1>3
  <2>3. k = 2 /\ Took(c, s, 2) /\ s[1].val \in Files /\ s[2].is # "cmd"
    BY <2>1, <2>2, FieldRead
  <2>. QED BY <2>3, <1>7
<1>10. c \notin gone /\ f # None
  BY <1>2, <1>3, <1>9, SocketAssumption DEF Placed
<1>11. PICK x \in Seq(Units) :
          /\ at' = "loop" /\ s2c' = [s2c EXCEPT ![c] = x]
          /\ x = Field("no", None) \/ \E d \in Whole : x = Field("ok", None) \o Sent(d)
  <2>1. ASSUME NEW y \in Seq(Units), Reply(y, "loop")
        PROVE  at' = "loop" /\ s2c' = [s2c EXCEPT ![c] = y]
    <3>1. at' = "loop" /\ s2c' = [s2c EXCEPT ![c] = s2c[c] \o y]
      BY <2>1, <1>2, <1>10 DEF Reply
    <3>2. <<>> \o y = y
      OBVIOUS
    <3>. QED BY <3>1, <3>2, <1>3
  <2>2. CASE disk[f] = None
    <3>1. Reply(Field("no", None), "loop")
      BY <2>2, <1>8 DEF SendFile
    <3>2. Field("no", None) \in Seq(Units)
      <4>1. "no" \in Kinds /\ None \in Values
        BY DEF Kinds, Values
      <4>. QED BY <4>1, FieldIs
    <3>. QED BY <3>1, <3>2, <2>1
  <2>3. CASE disk[f] # None
    <3>1. PICK d \in Whole : d = disk[f]
      BY <2>3, <1>1, <1>9 DEF Core, Receiving
    <3>2. d \in Seq(Units)
      BY WholeIs
    <3>3. Reply((Field("ok", None) \o Field("size", Len(d))) \o d, "loop")
      BY <2>3, <3>1, <1>8, <1>10 DEF SendFile
    <3>4. Field("ok", None) \o Sent(d) \in Seq(Units) /\ Reply(Field("ok", None) \o Sent(d), "loop")
      BY <3>2, <3>3, SentIs
    <3>. QED BY <3>4, <2>1
  <2>. QED BY <2>2, <2>3
<1>12. /\ s2c' \in [Clients -> Seq(Units)] /\ s2c'[c] = x
       /\ \A d \in Clients : d # c => s2c'[d] = s2c[d]
  BY <1>6, <1>11 DEF Typed
<1>13. /\ disk' \in [Files -> Seq(Units) \cup {None}]
       /\ job' \in [file : Files \cup {None}, size : Nat, total : Nat]
  BY <1>1, <1>6 DEF Typed
<1>14. Receiving'
  BY <1>1, <1>11 DEF Core, Receiving
<1>15. Answers(c)'
  BY <1>1, <1>2, <1>3, <1>11, <1>12 DEF Answers
<1>16. Len(Rest(s, 2)) = 0 /\ ~ (1 <= 0)
  <2>1. Len(Rest(s, 2)) = Len(s) - 2
    BY <1>9 DEF Took
  <2>2. 2 - 2 = 0 /\ ~ (1 <= 0)
    OBVIOUS
  <2>. QED BY <2>1, <2>2, <1>3
<1>17. Framed(c, Rest(s, 2))' /\ Expected(c, Rest(s, 2))'
  <2>1. 1 .. Len(Rest(s, 2)) = {}
    BY <1>16
  <2>2. ~ (at' \in Uploads)
    BY <1>11 DEF Uploads
  <2>. QED BY <2>1, <2>2, <1>16 DEF Framed, FramedBy, Expected, InHand, CommandAt
<1>. QED BY <1>1, <1>2, <1>9, <1>11, <1>12, <1>13, <1>14, <1>15, <1>17, ServerReads

\* The steps of the server keep what is said of a calm system.
LEMMA ServerHolds ==
    ASSUME Core, NamesInv, ServerNext, UNCHANGED clientVars, astray' = {}
    PROVE  Core'
<1>1. CASE Accept
  BY <1>1, AcceptHolds
<1>2. CASE Select
  BY <1>2, SelectHolds
<1>3. CASE Hello
  BY <1>3, GreetHolds
<1>4. CASE NextFd
  BY <1>4, NextFdHolds
<1>5. CASE Command
  BY <1>5, CommandHolds
<1>6. CASE PicName
  BY <1>6, PicNameHolds
<1>7. CASE PicSize
  BY <1>7, PicSizeHolds
<1>8. CASE PicData
  BY <1>8, PicDataHolds
<1>9. CASE FileName
  BY <1>9, FileNameHolds
<1>10. ~ PicReset
  <2>1. at \in Waiting => ~ Ended
    BY NeverEnded
  <2>. QED BY <2>1 DEF PicReset, Waiting
<1>. QED BY <1>1, <1>2, <1>3, <1>4, <1>5, <1>6, <1>7, <1>8, <1>9, <1>10 DEF ServerNext, Serve
-----------------------------------------------------------------------------
(* The steps of the clients.                                                 *)

\* A step of client c.
Only(c) ==
    \A d \in Clients : d # c =>
        /\ c2s'[d] = c2s[d] /\ s2c'[d] = s2c[d] /\ pc'[d] = pc[d] /\ todo'[d] = todo[d]
        /\ want'[d] = want[d] /\ got'[d] = got[d] /\ (d \in gone' => d \in gone)

ServerStill == UNCHANGED <<backlog, owner, rset, usernames, copy, at, cur, job, disk, last>>

\* What one client does leaves the server and the others as they are.
LEMMA ClientFrame ==
    ASSUME Core, NEW c \in Clients, Only(c), ServerStill, Typed', Answers(c)', Placed(c)'
    PROVE  Core'
<1>1. Descriptors'
  BY DEF Core, Descriptors, ServerStill, Peer, Uploads
<1>2. Receiving' /\ Cause'
  BY DEF Core, Receiving, Cause, ServerStill, Peer
<1>3. ASSUME NEW d \in Clients, d # c PROVE Answers(d)' /\ Placed(d)'
  <2>1. Answers(d) /\ Placed(d)
    BY DEF Core
  <2>2. /\ c2s'[d] = c2s[d] /\ s2c'[d] = s2c[d] /\ pc'[d] = pc[d] /\ todo'[d] = todo[d]
        /\ want'[d] = want[d] /\ got'[d] = got[d] /\ (d \in gone' => d \in gone)
    BY <1>3 DEF Only
  <2>3. UNCHANGED <<backlog, owner, rset, at, cur, job>>
    BY DEF ServerStill
  <2>. QED BY <2>1, <2>2, <2>3, OthersFrame
<1>. QED BY <1>1, <1>2, <1>3 DEF Core

\* A client that has been told its name is out of the queue, and nobody greets it.
LEMMA SettledIs ==
    ASSUME NEW c, Placed(c), pc[c] \notin {"naming", "verdict"}
    PROVE  ~ Queued(c) /\ ~ (at = "hello" /\ Peer = c)
BY DEF Placed, Nameless, TurnedAway

\* It stays out of the queue, and is where it was with the server.
LEMMA SettledStays ==
    ASSUME NEW c, Placed(c), ~ Queued(c), ~ (at = "hello" /\ Peer = c), ServerStill,
           pc'[c] # "start", c \in gone' => pc'[c] = "gone", pc'[c] = "gone" => todo'[c] = <<>>,
           Registered(c) => Talks(c)'
    PROVE  Placed(c)'
<1>1. ~ Queued(c)' /\ ~ (at' = "hello" /\ Peer' = c) /\ (Registered(c)' => Registered(c))
  BY DEF ServerStill, Queued, Peer, Registered
<1>. QED BY <1>1 DEF Placed

\* A client that is registered goes on, and what the server has to read of it is r.
LEMMA TalkGoesOn ==
    ASSUME NEW c, pc'[c] \notin {"start", "naming", "verdict"}, NEW r, Up' => Flow(c, r)'
    PROVE  Talks(c)'
BY DEF Talks

\* What the server expects does not change with what a client does that has asked for
\* nothing.
LEMMA ExpectedStays ==
    ASSUME NEW c, NEW s, Expected(c, s), ServerStill,
           (pc'[c] = pc[c] /\ s2c'[c] = s2c[c]) \/ pc[c] # "ok" \/ s2c[c] # <<>>
    PROVE  Expected(c, s)'
<1>1. at' = at /\ job' = job /\ (InHand(c)' <=> InHand(c))
  BY DEF ServerStill, InHand, Peer
<1>2. ~ (InHand(c) /\ at = "file_name") \/ (pc'[c] = pc[c] /\ s2c'[c] = s2c[c])
  BY DEF Expected
<1>. QED BY <1>1, <1>2 DEF Expected

\* Who has asked for nothing has no question on its way.
LEMMA FramedWaits ==
    ASSUME NEW c, NEW e, NEW x, NEW s, FramedBy(c, e, s), e \notin {"list", "ok", "quit", "gone"}
    PROVE  FramedBy(c, x, s)
<1>1. ASSUME NEW i \in 1 .. Len(s) PROVE FramedAt(c, x, s, i)
  <2>1. FramedAt(c, e, s, i)
    BY DEF FramedBy
  <2>. QED BY <2>1 DEF FramedAt, WordAt
<1>. QED BY <1>1 DEF FramedBy

\* Who has quit and closes (client.cpp:192) leaves the quit as the last unit.
LEMMA FramedLeaves ==
    ASSUME NEW c, NEW s, FramedBy(c, "quit", s)
    PROVE  FramedBy(c, "gone", s)
<1>1. ASSUME NEW i \in 1 .. Len(s) PROVE FramedAt(c, "gone", s, i)
  <2>1. FramedAt(c, "quit", s, i)
    BY DEF FramedBy
  <2>. QED BY <2>1 DEF FramedAt, WordAt
<1>. QED BY <1>1 DEF FramedBy

\* client.cpp:38: a client comes, and is queued.
LEMMA ConnectHolds ==
    ASSUME Core, NEW c \in Clients, Connect(c)
    PROVE  Core'
<1>1. /\ pc[c] = "start" /\ backlog' = Append(backlog, c) /\ pc' = [pc EXCEPT ![c] = "naming"]
      /\ UNCHANGED <<c2s, s2c, gone, owner, rset, usernames, copy, at, cur, job, disk, last>>
      /\ UNCHANGED <<todo, want, got>>
  BY DEF Connect, Goto, streams, serverOnly
<1>2. /\ Answers(c) /\ ~ Queued(c) /\ Absent(c) /\ c2s[c] = <<>> /\ todo[c] = <<>>
      /\ s2c[c] = <<>> /\ c \notin gone
  BY <1>1 DEF Core, Placed, Answers
<1>3. pc \in [Clients -> Places] /\ backlog \in Seq(Clients)
  BY DEF Core, Typed
<1>4. /\ pc' \in [Clients -> Places] /\ pc'[c] = "naming"
      /\ \A d \in Clients : d # c => pc'[d] = pc[d]
  BY <1>1, <1>3 DEF Places
<1>5. /\ backlog' \in Seq(Clients) /\ Len(backlog') = Len(backlog) + 1 /\ Len(backlog) \in Nat
      /\ backlog'[Len(backlog) + 1] = c /\ \A i \in 1 .. Len(backlog) : backlog'[i] = backlog[i]
  BY <1>1, <1>3
<1>6. \A i \in 1 .. Len(backlog') : i \in 1 .. Len(backlog) \/ i = Len(backlog) + 1
  BY <1>5
<1>7. Typed'
  BY <1>1, <1>4, <1>5 DEF Core, Typed
<1>8. Descriptors'
  <2>1. \A i \in 1 .. Len(backlog) : backlog[i] # c
    BY <1>2 DEF Queued
  <2>2. \A i, j \in 1 .. Len(backlog) : backlog[i] = backlog[j] => i = j
    BY DEF Core, Descriptors
  <2>3. \A i, j \in 1 .. Len(backlog') : backlog'[i] = backlog'[j] => i = j
    BY <2>1, <2>2, <1>5, <1>6
  <2>. QED BY <2>3, <1>1 DEF Core, Descriptors, Uploads, Peer
<1>9. Receiving' /\ Cause'
  BY <1>1 DEF Core, Receiving, Cause, Peer
<1>10. Answers(c)'
  BY <1>1, <1>2, <1>4 DEF Answers
<1>11. Absent(c)' /\ ~ Registered(c)' /\ ~ (at' = "hello" /\ Peer' = c)
  BY <1>1, <1>2 DEF Core, Descriptors, Absent, Registered, Peer
<1>12. Placed(c)'
  <2>1. Nameless(c)'
    BY <1>1, <1>2, <1>4 DEF Nameless
  <2>. QED BY <2>1, <1>1, <1>2, <1>4, <1>11 DEF Placed
<1>13. ASSUME NEW d \in Clients, d # c PROVE Answers(d)' /\ Placed(d)'
  <2>1. Answers(d) /\ Placed(d) /\ pc'[d] = pc[d]
    BY <1>4, <1>13 DEF Core
  <2>2. Answers(d)'
    BY <2>1, <1>1, AnswersFrame
  <2>3. Queued(d)' => Queued(d)
    BY <1>5, <1>6, <1>13 DEF Queued
  <2>4. /\ Absent(d) => Absent(d)'
        /\ Registered(d)' => Registered(d)
        /\ Peer' = Peer /\ at' = at /\ job' = job
        /\ InHand(d)' <=> InHand(d)
        /\ Up' => Up
    BY <1>1 DEF Absent, Registered, Peer, InHand, Up
  <2>5. Placed(d)'
    BY <2>1, <2>3, <2>4, <1>1, PlacedFrame
  <2>. QED BY <2>2, <2>5
<1>. QED BY <1>7, <1>8, <1>9, <1>10, <1>12, <1>13 DEF Core

\* client.cpp:69: a name is typed.
LEMMA SendNameHolds ==
    ASSUME Core, NEW c \in Clients, NEW n \in Names, SendName(c, n)
    PROVE  Core'
<1>1. /\ pc[c] = "naming" /\ pc' = [pc EXCEPT ![c] = "verdict"]
      /\ c2s' = [c2s EXCEPT ![c] = Append(c2s[c], Unit("name", n))]
      /\ UNCHANGED <<s2c, gone, todo, want, got>> /\ ServerStill
  BY DEF SendName, Goto, serverOnly, ServerStill
<1>2. Answers(c) /\ Placed(c) /\ c \notin gone
  BY <1>1 DEF Core, Placed
<1>3. /\ pc \in [Clients -> Places] /\ c2s \in [Clients -> Seq(Units)]
      /\ c2s[c] \in Seq(Units)
  BY DEF Core, Typed
<1>4. Unit("name", n) \in Units
  <2>1. "name" \in Kinds /\ n \in Values
    BY DEF Kinds, Values
  <2>. QED BY <2>1, FieldIs
<1>5. /\ pc' \in [Clients -> Places] /\ c2s' \in [Clients -> Seq(Units)]
      /\ pc'[c] = "verdict" /\ c2s'[c] = Append(c2s[c], Unit("name", n))
      /\ \A d \in Clients : d # c => pc'[d] = pc[d] /\ c2s'[d] = c2s[d]
  BY <1>1, <1>3, <1>4 DEF Places
<1>6. Typed'
  BY <1>1, <1>5 DEF Core, Typed, ServerStill
<1>7. Only(c)
  BY <1>1, <1>5 DEF Only
<1>8. Answers(c)'
  BY <1>1, <1>2, <1>5 DEF Answers
<1>9. Nameless(c) => Nameless(c)'
  <2>1. ASSUME Nameless(c) PROVE c2s'[c] = <<Unit("name", n)>> /\ todo[c] = <<>> /\ s2c[c] = <<>>
    <3>1. c2s[c] = <<>>
      BY <2>1, <1>1 DEF Nameless
    <3>. QED BY <2>1, <3>1, <1>5 DEF Nameless
  <2>. QED BY <2>1, <1>1, <1>5 DEF Nameless
<1>10. /\ ~ Registered(c)'
       /\ Queued(c)' => Queued(c)
       /\ Absent(c) => Absent(c)'
       /\ Peer' = Peer /\ at' = at
  <2>1. ~ Registered(c)
    BY <1>1, <1>2 DEF Placed, Talks
  <2>. QED BY <2>1, <1>1 DEF ServerStill, Registered, Queued, Absent, Peer
<1>11. Placed(c)'
  <2>1. at = "hello" /\ Peer = c => Nameless(c)
    BY <1>1, <1>2 DEF Placed, TurnedAway
  <2>. QED BY <2>1, <1>1, <1>2, <1>5, <1>9, <1>10 DEF Placed
<1>. QED BY <1>1, <1>6, <1>7, <1>8, <1>11, ClientFrame

\* client.cpp:122: the next write of a command.
LEMMA WriteHolds ==
    ASSUME Core, NEW c \in Clients, Write(c)
    PROVE  Core'
<1>1. /\ todo[c] # <<>> /\ Up /\ c2s' = [c2s EXCEPT ![c] = c2s[c] \o Head(todo[c])]
      /\ todo' = [todo EXCEPT ![c] = Tail(todo[c])]
      /\ UNCHANGED <<s2c, gone, pc, want, got>> /\ ServerStill
  BY DEF Write, serverOnly, ServerStill
<1>2. /\ todo \in [Clients -> Seq(Seq(Units))] /\ c2s \in [Clients -> Seq(Units)]
      /\ c2s[c] \in Seq(Units) /\ todo[c] \in Seq(Seq(Units))
  BY DEF Core, Typed
<1>3. /\ Head(todo[c]) \in Seq(Units) /\ Tail(todo[c]) \in Seq(Seq(Units))
      /\ c2s[c] \o Head(todo[c]) \in Seq(Units)
  BY <1>1, <1>2, HeadTailProperties
<1>4. /\ todo' \in [Clients -> Seq(Seq(Units))] /\ c2s' \in [Clients -> Seq(Units)]
      /\ todo'[c] = Tail(todo[c]) /\ c2s'[c] = c2s[c] \o Head(todo[c])
      /\ \A d \in Clients : d # c => todo'[d] = todo[d] /\ c2s'[d] = c2s[d]
  BY <1>1, <1>2, <1>3
<1>5. Typed'
  BY <1>1, <1>4 DEF Core, Typed, ServerStill
<1>6. Only(c)
  BY <1>1, <1>4 DEF Only
<1>7. Answers(c) /\ Placed(c)
  BY DEF Core
<1>8. Answers(c)'
  BY <1>1, <1>7, AnswersFrame
<1>9. /\ ~ Queued(c) /\ ~ (at = "hello" /\ Peer = c) /\ pc[c] # "start" /\ pc[c] # "gone"
      /\ c \notin gone
  BY <1>1, <1>7 DEF Placed, Nameless, TurnedAway
<1>10. ASSUME Registered(c) PROVE Talks(c)'
  <2>1. Talks(c) /\ pc[c] # "verdict" /\ pc[c] \notin {"start", "naming"}
    BY <1>1, <1>7, <1>10 DEF Placed, Talks
  <2>2. PICK s : Flow(c, s)
    BY <2>1, <1>1 DEF Talks
  <2>3. Ahead(s, c2s[c], todo[c])'
    <3>1. Ahead(s, c2s[c], todo[c])
      BY <2>2 DEF Flow
    <3>2. Ahead(s, c2s[c] \o Head(todo[c]), Tail(todo[c]))
      BY <3>1, <1>1, <1>2, AheadWrite
    <3>. QED BY <3>2, <1>4
  <2>4. Framed(c, s)'
    BY <2>2, <1>1, FramedSame DEF Flow
  <2>5. Expected(c, s)'
    BY <2>2, <1>1, ExpectedStays DEF Flow
  <2>6. Flow(c, s)'
    BY <2>2, <2>3, <2>4, <2>5, <1>1 DEF Flow
  <2>. QED BY <2>1, <2>6, <1>1, TalkGoesOn
<1>11. Placed(c)'
  BY <1>1, <1>7, <1>9, <1>10, SettledStays
<1>. QED BY <1>1, <1>5, <1>6, <1>8, <1>11, ClientFrame

\* client.cpp:192: a client leaves, when it has said so.
LEMMA CloseHolds ==
    ASSUME Core, NEW c \in Clients, Close(c)
    PROVE  Core'
<1>1. /\ pc[c] = "quit" /\ todo[c] = <<>> /\ pc' = [pc EXCEPT ![c] = "gone"]
      /\ gone' = gone \cup {c} /\ UNCHANGED <<c2s, s2c, todo, want, got>> /\ ServerStill
  BY DEF Close, Goto, serverOnly, ServerStill
<1>2. Answers(c) /\ Placed(c) /\ pc \in [Clients -> Places]
  BY DEF Core, Typed
<1>3. /\ pc' \in [Clients -> Places] /\ pc'[c] = "gone"
      /\ \A d \in Clients : d # c => pc'[d] = pc[d]
  BY <1>1, <1>2 DEF Places
<1>4. Typed'
  BY <1>1, <1>3 DEF Core, Typed, ServerStill
<1>5. Only(c)
  BY <1>1, <1>3 DEF Only
<1>6. s2c[c] = <<>>
  BY <1>1, <1>2 DEF Answers
<1>7. Answers(c)'
  BY <1>1, <1>2, <1>3, <1>6 DEF Answers
<1>8. ~ Queued(c) /\ ~ (at = "hello" /\ Peer = c)
  BY <1>1, <1>2, SettledIs
<1>9. ASSUME Registered(c) PROVE Talks(c)'
  <2>1. Talks(c)
    BY <1>2, <1>9 DEF Placed
  <2>2. CASE Up
    <3>1. PICK s : Flow(c, s)
      BY <2>1, <2>2 DEF Talks
    <3>2. Framed(c, s)'
      <4>1. Awaits(c) = "quit" /\ Awaits(c)' = "gone"
        BY <1>1, <1>3, <1>6 DEF Awaits
      <4>2. FramedBy(c, "quit", s)
        BY <3>1, <4>1 DEF Flow, Framed
      <4>3. FramedBy(c, "gone", s)
        BY <4>2, FramedLeaves
      <4>. QED BY <4>1, <4>3 DEF Framed
    <3>3. Expected(c, s)'
      BY <3>1, <1>1, ExpectedStays DEF Flow
    <3>4. Flow(c, s)'
      BY <3>1, <3>2, <3>3, <1>1 DEF Flow
    <3>. QED BY <3>4, <1>3, TalkGoesOn
  <2>3. CASE ~ Up
    <3>1. ~ Up'
      BY <2>3, <1>1 DEF Up, ServerStill
    <3>. QED BY <3>1, <1>3 DEF Talks
  <2>. QED BY <2>2, <2>3
<1>10. Placed(c)'
  BY <1>1, <1>2, <1>3, <1>8, <1>9, SettledStays
<1>. QED BY <1>1, <1>4, <1>5, <1>7, <1>10, ClientFrame
-----------------------------------------------------------------------------
(* What the clients read.                                                    *)

\* A read of k units by client c (client.cpp:98).
Received(c, k) ==
    /\ k \in 1 .. Len(s2c[c]) /\ k \in 1 .. 2 /\ s2c[c] \in Seq(Units)
    /\ s2c' \in [Clients -> Seq(Units)] /\ s2c'[c] = Rest(s2c[c], k)
    /\ \A d \in Clients : d # c => s2c'[d] = s2c[d]
    /\ s2c'[c] # <<>> => Head(s2c'[c]).is # "pad"

\* A read takes the first units of what is on its way, and leaves the framing whole.
LEMMA TakenIs ==
    ASSUME Core, NEW c \in Clients, NEW k, Takes(c, k), astray' = {}
    PROVE  Received(c, k)
<1>1. k \in Lengths(c, s2c[c], BUFSIZE) /\ s2c' = [s2c EXCEPT ![c] = Rest(s2c[c], k)]
  BY DEF Takes
<1>2. s2c \in [Clients -> Seq(Units)] /\ s2c[c] \in Seq(Units)
  BY DEF Core, Typed
<1>3. k \in 1 .. 2 /\ k <= Len(s2c[c])
  BY <1>1 DEF Lengths, BUFSIZE
<1>4. k \in 1 .. Len(s2c[c]) /\ k \in 0 .. Len(s2c[c])
  BY <1>2, <1>3
<1>5. Rest(s2c[c], k) \in Seq(Units)
  BY <1>2, <1>4, UnitsRestIs
<1>6. ~ (s2c'[c] # <<>> /\ Head(s2c'[c]).is = "pad")
  BY DEF Takes
<1>7. /\ s2c' \in [Clients -> Seq(Units)] /\ s2c'[c] = Rest(s2c[c], k)
      /\ \A d \in Clients : d # c => s2c'[d] = s2c[d]
  BY <1>1, <1>2, <1>5
<1>. QED BY <1>2, <1>3, <1>4, <1>6, <1>7 DEF Received

\* A field comes in one write (server.cpp:211), and is read as a whole.
LEMMA FieldTaken ==
    ASSUME NEW c \in Clients, NEW k, Received(c, k), NEW is \in Kinds, NEW v \in Values,
           NEW r \in Seq(Units), s2c[c] = Field(is, v) \o r
    PROVE  k = 2 /\ s2c'[c] = r
<1>1. PICK q \in Seq(Units) : q = s2c[c]
  BY DEF Received
<1>2. /\ Field(is, v) \in Seq(Units) /\ Len(Field(is, v)) = 2 /\ Field(is, v)[2] = Pad
  BY FieldIs
<1>3. /\ Len(q) = 2 + Len(r) /\ Len(r) \in Nat
      /\ \A i \in 1 .. (2 + Len(r)) : q[i] = IF i <= 2 THEN Field(is, v)[i] ELSE r[i - 2]
  <2>1. PICK f \in Seq(Units) : f = Field(is, v)
    BY <1>2
  <2>2. /\ Len(f \o r) = Len(f) + Len(r) /\ Len(r) \in Nat
        /\ \A i \in 1 .. Len(f) + Len(r) : (f \o r)[i] = IF i <= Len(f) THEN f[i] ELSE r[i - Len(f)]
    BY ConcatProperties
  <2>3. q = f \o r /\ Len(f) = 2
    BY <1>1, <1>2, <2>1
  <2>. QED BY <2>1, <2>2, <2>3
<1>4. q[2] = Pad /\ \A i \in 1 .. Len(r) : q[i + 2] = r[i]
  BY <1>2, <1>3
<1>5. /\ k \in 1 .. 2 /\ k \in 1 .. Len(q) /\ s2c'[c] = Rest(q, k)
      /\ Rest(q, k) # <<>> => Head(Rest(q, k)).is # "pad"
  BY <1>1 DEF Received
<1>6. k # 1
  <2>. SUFFICES ASSUME k = 1 PROVE FALSE
    OBVIOUS
  <2>1. 1 \in 0 .. Len(q)
    BY <1>3
  <2>2. /\ Rest(q, 1) \in Seq(Units) /\ Len(Rest(q, 1)) = Len(q) - 1
        /\ \A i \in 1 .. (Len(q) - 1) : Rest(q, 1)[i] = q[i + 1]
    BY <2>1, UnitsRestIs
  <2>3. 1 \in 1 .. (Len(q) - 1) /\ 1 + 1 = 2
    BY <1>3
  <2>4. Rest(q, 1)[1] = Pad /\ Rest(q, 1) # <<>>
    BY <2>2, <2>3, <1>4
  <2>5. Head(Rest(q, 1)) = Pad
    BY <2>2, <2>4
  <2>. QED BY <2>4, <2>5, <1>5 DEF Pad, Unit
<1>7. k = 2
  BY <1>5, <1>6
<1>8. 2 \in 0 .. Len(q)
  BY <1>3
<1>9. /\ Rest(q, 2) \in Seq(Units) /\ Len(Rest(q, 2)) = Len(q) - 2
      /\ \A i \in 1 .. (Len(q) - 2) : Rest(q, 2)[i] = q[i + 2]
  BY <1>8, UnitsRestIs
<1>10. Len(q) - 2 = Len(r)
  BY <1>3
<1>11. Rest(q, 2) = r
  <2>1. PICK x \in Seq(Units) : x = Rest(q, 2)
    BY <1>9
  <2>2. Len(x) = Len(r) /\ \A i \in 1 .. Len(r) : x[i] = r[i]
    BY <2>1, <1>4, <1>9, <1>10
  <2>3. x = r
    BY <2>2, SeqEqual
  <2>. QED BY <2>1, <2>3
<1>. QED BY <1>5, <1>7, <1>11

\* The same where nothing follows the field.
LEMMA LoneFieldTaken ==
    ASSUME NEW c \in Clients, NEW k, Received(c, k), NEW is \in Kinds, NEW v \in Values,
           s2c[c] = Field(is, v)
    PROVE  k = 2 /\ s2c'[c] = <<>>
<1>1. Field(is, v) \in Seq(Units)
  BY FieldIs
<1>2. PICK r \in Seq(Units) : r = <<>>
  <2>1. <<>> \in Seq(Units)
    OBVIOUS
  <2>. QED BY <2>1
<1>3. s2c[c] = Field(is, v) \o r
  BY <1>1, <1>2
<1>4. k = 2 /\ s2c'[c] = r
  BY <1>3, FieldTaken
<1>. QED BY <1>2, <1>4

\* Who has read an answer, or the end of the stream of a server that is gone, has asked for
\* nothing more: the server goes on with it as before.
LEMMA ReadPlaced ==
    ASSUME Core, NEW c \in Clients, pc[c] \in {"list", "ok", "size", "data"},
           pc'[c] \in {"prompt", "size", "data"}, UNCHANGED <<c2s, gone, todo>>, ServerStill,
           ~ Up \/ s2c[c] # <<>>
    PROVE  Placed(c)'
<1>1. Placed(c)
  BY DEF Core
<1>2. ~ Queued(c) /\ ~ (at = "hello" /\ Peer = c) /\ c \notin gone
  BY <1>1, SettledIs DEF Placed
<1>3. ASSUME Registered(c) PROVE Talks(c)'
  <2>1. Talks(c)
    BY <1>1, <1>3 DEF Placed
  <2>2. CASE Up
    <3>1. PICK s : Flow(c, s)
      BY <2>1, <2>2 DEF Talks
    <3>2. Framed(c, s)'
      <4>1. FramedBy(c, "answered", s)
        BY <3>1, <2>2 DEF Flow, Framed, Awaits
      <4>2. PICK x : x = Awaits(c)'
        OBVIOUS
      <4>3. FramedBy(c, x, s)
        BY <4>1, FramedWaits
      <4>. QED BY <4>2, <4>3 DEF Framed
    <3>3. Expected(c, s)'
      BY <2>2, <3>1, ExpectedStays DEF Flow
    <3>4. Flow(c, s)'
      BY <3>1, <3>2, <3>3 DEF Flow
    <3>. QED BY <3>4, TalkGoesOn
  <2>3. CASE ~ Up
    <3>1. ~ Up'
      BY <2>3 DEF Up, ServerStill
    <3>. QED BY <3>1 DEF Talks
  <2>. QED BY <2>2, <2>3
<1>. QED BY <1>1, <1>2, <1>3, SettledStays

\* What a client does not touch when it reads.
ReadsOnly(c) == UNCHANGED <<backlog, c2s, gone, table, copy, at, cur, job, disk, last, todo>>

\* What is on its way to the others stays.
Arrived(c) ==
    s2c' \in [Clients -> Seq(Units)] /\ \A d \in Clients : d # c => s2c'[d] = s2c[d]

\* The rest of a read: the types, and the others.
LEMMA ClientReads ==
    ASSUME Core, NEW c \in Clients, ReadsOnly(c), NEW p \in Places, pc' = [pc EXCEPT ![c] = p],
           NEW w \in [file : Files \cup {None}, size : Nat, total : Nat],
           want' = [want EXCEPT ![c] = w],
           NEW g \in [Files -> Seq(Units) \cup {None}], got' = [got EXCEPT ![c] = g],
           Arrived(c)
    PROVE  /\ pc'[c] = p /\ want'[c] = w /\ got'[c] = g /\ ServerStill
           /\ Answers(c)' /\ Placed(c)' => Core'
<1>1. UNCHANGED <<c2s, gone, todo>> /\ ServerStill
  BY DEF ReadsOnly, ServerStill, table
<1>2. /\ pc \in [Clients -> Places] 
      /\ want \in [Clients -> [file : Files \cup {None}, size : Nat, total : Nat]]
      /\ got \in [Clients -> [Files -> Seq(Units) \cup {None}]]
  BY DEF Core, Typed
<1>3. /\ pc' \in [Clients -> Places] /\ pc'[c] = p
      /\ \A d \in Clients : d # c => pc'[d] = pc[d]
  BY <1>2
<1>4. /\ want' \in [Clients -> [file : Files \cup {None}, size : Nat, total : Nat]]
      /\ want'[c] = w
      /\ \A d \in Clients : d # c => want'[d] = want[d]
  BY <1>2
<1>5. /\ got' \in [Clients -> [Files -> Seq(Units) \cup {None}]]
      /\ got'[c] = g
      /\ \A d \in Clients : d # c => got'[d] = got[d]
  BY <1>2
<1>6. Typed'
  BY <1>1, <1>3, <1>4, <1>5 DEF Core, Typed, ServerStill, Arrived
<1>7. Only(c)
  BY <1>1, <1>3, <1>4, <1>5 DEF Only, Arrived
<1>8. Answers(c)' /\ Placed(c)' => Core'
  BY <1>1, <1>6, <1>7, ClientFrame
<1>. QED BY <1>1, <1>3, <1>4, <1>5, <1>8
\* The name is judged by what the answer says (client.cpp:75).
LEMMA VerdictSays ==
    ASSUME NEW v
    PROVE  Head(<<Unit("verdict", v)>>).val = v
BY DEF Unit

\* client.cpp:71: the verdict on a name.
LEMMA ReadVerdictHolds ==
    ASSUME Core, NEW c \in Clients, ReadVerdict(c), ReadsOnly(c), astray' = {}
    PROVE  Core'
<1>1. pc[c] = "verdict" /\ s2c[c] # <<>> /\ Takes(c, 1) /\ UNCHANGED <<want, got>>
  BY DEF ReadVerdict
<1>2. Answers(c) /\ Placed(c) /\ Received(c, 1) /\ Typed
  BY <1>1, TakenIs DEF Core
<1>3. PICK v \in Words : s2c[c] = <<Unit("verdict", v)>>
  BY <1>1, <1>2 DEF Answers
<1>4. s2c[c] \in Seq(Units) /\ s2c'[c] = Rest(s2c[c], 1)
  BY <1>2 DEF Received
<1>5. Len(s2c[c]) = 1 /\ Head(s2c[c]).val = v
  BY <1>3, VerdictSays
<1>6. s2c'[c] = <<>>
  <2>1. 1 \in 0 .. Len(s2c[c]) /\ 1 - 1 = 0
    BY <1>5
  <2>2. Rest(s2c[c], 1) \in Seq(Units) /\ Len(Rest(s2c[c], 1)) = 1 - 1
    BY <2>1, <1>4, <1>5, UnitsRestIs
  <2>. QED BY <2>1, <2>2, <1>4
<1> DEFINE p == IF v = "connect successfully" THEN "prompt" ELSE "naming"
<1>7. p \in Places /\ pc' = [pc EXCEPT ![c] = p]
  BY <1>1, <1>5 DEF ReadVerdict, Goto, Places
<1>8. /\ want[c] \in [file : Files \cup {None}, size : Nat, total : Nat]
      /\ got[c] \in [Files -> Seq(Units) \cup {None}]
      /\ want' = [want EXCEPT ![c] = want[c]] /\ got' = [got EXCEPT ![c] = got[c]]
  BY <1>1, <1>2 DEF Typed
<1>9. Arrived(c)
  BY <1>2 DEF Received, Arrived
<1> HIDE DEF p
<1>10. /\ pc'[c] = p /\ ServerStill
       /\ Answers(c)' /\ Placed(c)' => Core'
  BY <1>7, <1>8, <1>9, ClientReads
<1>11. p \in {"prompt", "naming"} /\ UNCHANGED <<c2s, gone, todo>>
  BY DEF p, ReadsOnly
<1>12. Answers(c)'
  BY <1>1, <1>2, <1>6, <1>10, <1>11 DEF Answers
<1>13. c \notin gone /\ c \notin gone' /\ ~ Nameless(c) /\ ~ Queued(c)
  BY <1>1, <1>2, <1>11 DEF Placed, Nameless
<1>14. ~ Queued(c)' /\ (Registered(c)' => Registered(c)) /\ (Up' => Up)
       /\ (at' = "hello" /\ Peer' = c => at = "hello" /\ Peer = c)
  BY <1>10, <1>13 DEF ServerStill, Queued, Registered, Up, Peer
<1>15. ASSUME at = "hello", Peer = c PROVE Nameless(c)'
  <2>1. TurnedAway(c)
    BY <1>2, <1>13, <1>15 DEF Placed
  <2>2. PICK w \in Refusals : s2c[c] = <<Unit("verdict", w)>>
    BY <2>1 DEF TurnedAway
  <2>3. Head(s2c[c]).val = w
    BY <2>2, VerdictSays
  <2>4. v \in Refusals
    BY <2>3, <1>5
  <2>5. p = "naming"
    BY <2>4 DEF p, Refusals
  <2>. QED BY <2>1, <2>5, <1>6, <1>10, <1>11 DEF Nameless, TurnedAway
<1>16. ASSUME Registered(c) PROVE Talks(c)'
  <2>1. Talks(c) /\ c2s[c] = <<>> /\ todo[c] = <<>>
        /\ s2c[c] = <<Unit("verdict", "connect successfully")>>
    BY <1>1, <1>2, <1>16 DEF Placed, Talks
  <2>2. Head(s2c[c]).val = "connect successfully"
    BY <2>1, VerdictSays
  <2>3. p = "prompt"
    BY <2>2, <1>5 DEF p
  <2>4. CASE Up
    <3>1. PICK s : Flow(c, s)
      BY <2>1, <2>4 DEF Talks
    <3>2. s = <<>>
      <4>1. Ahead(s, <<>>, <<>>)
        BY <2>1, <3>1 DEF Flow
      <4>2. <<>> \in Seq(Units)
        OBVIOUS
      <4>. QED BY <4>1, <4>2, AheadDone
    <3>3. Framed(c, s)'
      BY <3>2, NothingAhead DEF Framed
    <3>4. Expected(c, s)'
      BY <1>1, <1>10, <3>1, ExpectedStays DEF Flow
    <3>5. Ahead(s, c2s'[c], todo'[c])
      BY <2>1, <3>2, <1>11, NothingAhead
    <3>6. Flow(c, s)'
      BY <2>3, <3>3, <3>4, <3>5, <1>10 DEF Flow
    <3>. QED BY <2>3, <3>6, <1>10, TalkGoesOn
  <2>5. CASE ~ Up
    BY <2>3, <2>5, <1>10, <1>14 DEF Talks
  <2>. QED BY <2>4, <2>5
<1>17. Placed(c)'
  BY <1>10, <1>11, <1>13, <1>14, <1>15, <1>16 DEF Placed
<1>. QED BY <1>10, <1>12, <1>17

\* client.cpp:98: the list.
LEMMA ReadListHolds ==
    ASSUME Core, NEW c \in Clients, ReadList(c), ReadsOnly(c), astray' = {}
    PROVE  Core'
<1>1. pc[c] = "list" /\ UNCHANGED <<want, got>> /\ pc' = [pc EXCEPT ![c] = "prompt"]
  BY DEF ReadList, Goto
<1>2. Answers(c) /\ Placed(c) /\ Typed
  BY DEF Core
<1>3. /\ Arrived(c) /\ s2c'[c] = <<>>
      /\ ~ Up \/ s2c[c] # <<>>
  <2>1. CASE NothingTaken(c)
    BY <2>1, <1>2 DEF NothingTaken, Typed, Arrived
  <2>2. ASSUME NEW k, Takes(c, k)
        PROVE  Arrived(c) /\ s2c'[c] = <<>> /\ s2c[c] # <<>>
    <3>1. Received(c, k)
      BY <2>2, TakenIs
    <3>2. s2c[c] # <<>>
      BY <3>1 DEF Received
    <3>3. PICK F \in SUBSET Files : s2c[c] = Field("list", F)
      BY <3>2, <1>1, <1>2 DEF Answers
    <3>4. "list" \in Kinds /\ F \in Values
      BY DEF Kinds, Values
    <3>5. s2c'[c] = <<>>
      BY <3>1, <3>3, <3>4, LoneFieldTaken
    <3>. QED BY <3>1, <3>2, <3>5 DEF Received, Arrived
  <2>. QED BY <2>1, <2>2 DEF ReadList
<1>4. /\ want[c] \in [file : Files \cup {None}, size : Nat, total : Nat]
      /\ got[c] \in [Files -> Seq(Units) \cup {None}]
      /\ want' = [want EXCEPT ![c] = want[c]] /\ got' = [got EXCEPT ![c] = got[c]]
      /\ "prompt" \in Places
  BY <1>1, <1>2 DEF Typed, Places
<1>5. /\ pc'[c] = "prompt" /\ ServerStill
      /\ Answers(c)' /\ Placed(c)' => Core'
  <2>1. Arrived(c) /\ pc' = [pc EXCEPT ![c] = "prompt"]
    BY <1>1, <1>3
  <2>. QED BY <2>1, <1>4, ClientReads
<1>6. Answers(c)'
  BY <1>1, <1>2, <1>3, <1>5 DEF Answers
<1>7. Placed(c)'
  <2>1. UNCHANGED <<c2s, gone, todo>>
    BY DEF ReadsOnly
  <2>. QED BY <2>1, <1>1, <1>3, <1>5, ReadPlaced
<1>. QED BY <1>5, <1>6, <1>7

\* An empty file is what a client may have put.
LEMMA EmptyIsWhole ==
    <<>> \in Whole \/ Clients = {}
<1>1. ASSUME NEW c \in Clients PROVE <<>> \in Whole
  <2>1. 0 \in Sizes /\ 0 \in Nat
    BY SocketAssumption
  <2>2. Content(c, 0) \in Seq(Units) /\ Len(Content(c, 0)) = 0 /\ Content(c, 0) \in Whole
    BY <2>1, ContentIs
  <2>3. Content(c, 0) = <<>>
    BY <2>2
  <2>. QED BY <2>2, <2>3
<1>. QED BY <1>1

\* client.cpp:156: "NO", or "OK" and the local file is emptied.
LEMMA ReadOkHolds ==
    ASSUME Core, NEW c \in Clients, ReadOk(c), ReadsOnly(c), astray' = {}
    PROVE  Core'
<1>1. pc[c] = "ok" /\ UNCHANGED want
  BY DEF ReadOk
<1>2. Answers(c) /\ Placed(c) /\ Typed
  BY DEF Core
<1>3. want[c].file \in Files /\ want[c].total = 0 /\ UNCHANGED <<c2s, gone, todo>>
  BY <1>1, <1>2 DEF Answers, ReadsOnly
<1>4. /\ want[c] \in [file : Files \cup {None}, size : Nat, total : Nat]
      /\ got \in [Clients -> [Files -> Seq(Units) \cup {None}]]
      /\ got[c] \in [Files -> Seq(Units) \cup {None}]
      /\ want' = [want EXCEPT ![c] = want[c]]
      /\ "prompt" \in Places /\ "size" \in Places
  BY <1>1, <1>2 DEF Typed, Places
<1>5. "ok" \in Kinds /\ "no" \in Kinds /\ None \in Values
  BY DEF Kinds, Values
<1>6. CASE /\ s2c[c] # <<>> /\ Head(s2c[c]).is = "no" /\ \E k \in 1 .. BUFSIZE : Takes(c, k)
           /\ pc' = [pc EXCEPT ![c] = "prompt"] /\ UNCHANGED got
  <2>1. PICK k : Received(c, k)
    BY <1>6, TakenIs
  <2>2. ASSUME NEW d \in Whole PROVE s2c[c] # Field("ok", None) \o Sent(d)
    <3>1. d \in Seq(Units)
      BY WholeIs
    <3>2. Sent(d) \in Seq(Units) /\ Field("ok", None) \in Seq(Units) /\ Len(Field("ok", None)) = 2
          /\ Field("ok", None)[1] = Unit("ok", None)
      BY <3>1, <1>5, SentIs, FieldIs
    <3>3. PICK x : x = Field("ok", None) \o Sent(d)
      OBVIOUS
    <3>4. x \in Seq(Units) /\ x[1] = Unit("ok", None) /\ x # <<>>
      BY <3>2, <3>3, ConcatProperties
    <3>5. Head(x) = Unit("ok", None)
      BY <3>4
    <3>6. Head(x).is = "ok"
      BY <3>5 DEF Unit
    <3>. QED BY <3>3, <3>6, <1>6
  <2>3. s2c[c] = Field("no", None)
    BY <2>2, <1>1, <1>2, <1>6 DEF Answers
  <2>4. s2c'[c] = <<>>
    BY <2>1, <2>3, <1>5, LoneFieldTaken
  <2>5. Arrived(c) /\ got' = [got EXCEPT ![c] = got[c]]
    BY <2>1, <1>4, <1>6 DEF Received, Arrived
  <2>6. /\ pc'[c] = "prompt" /\ ServerStill
        /\ Answers(c)' /\ Placed(c)' => Core'
    BY <2>5, <1>4, <1>6, ClientReads
  <2>7. Answers(c)'
    BY <2>4, <2>6, <1>1, <1>2, <1>6 DEF Answers
  <2>8. Placed(c)'
    BY <2>6, <1>1, <1>3, <1>6, ReadPlaced
  <2>. QED BY <2>6, <2>7, <2>8
<1>7. CASE /\ \/ s2c[c] # <<>> /\ Head(s2c[c]).is # "no" /\ \E k \in 1 .. BUFSIZE : Takes(c, k)
              \/ NothingTaken(c)
           /\ pc' = [pc EXCEPT ![c] = "size"] /\ got' = [got EXCEPT ![c][want[c].file] = <<>>]
  <2>1. /\ Arrived(c)
        /\ ~ Up \/ s2c[c] # <<>>
        /\ s2c'[c] = <<>> \/ \E d \in Whole : s2c'[c] = Sent(d)
    <3>1. CASE NothingTaken(c)
      BY <3>1, <1>2 DEF NothingTaken, Typed, Arrived
    <3>2. CASE s2c[c] # <<>> /\ Head(s2c[c]).is # "no" /\ \E k \in 1 .. BUFSIZE : Takes(c, k)
      <4>1. PICK k : Received(c, k)
        BY <3>2, TakenIs
      <4>2. s2c[c] # Field("no", None)
        BY <3>2 DEF Field, Unit
      <4>3. PICK d \in Whole : s2c[c] = Field("ok", None) \o Sent(d)
        BY <4>2, <3>2, <1>1, <1>2 DEF Answers
      <4>4. Sent(d) \in Seq(Units)
        BY WholeIs, SentIs
      <4>5. s2c'[c] = Sent(d)
        BY <4>1, <4>3, <4>4, <1>5, FieldTaken
      <4>. QED BY <4>1, <4>5, <3>2 DEF Received, Arrived
    <3>. QED BY <3>1, <3>2, <1>7
  <2>2. PICK g \in [Files -> Seq(Units) \cup {None}] :
           /\ got' = [got EXCEPT ![c] = g] /\ g[want[c].file] = <<>>
           /\ \A f \in Files : f # want[c].file => g[f] = got[c][f]
    <3>1. PICK g : g = [got[c] EXCEPT ![want[c].file] = <<>>]
      OBVIOUS
    <3>2. <<>> \in Seq(Units)
      OBVIOUS
    <3>3. g \in [Files -> Seq(Units) \cup {None}] /\ g[want[c].file] = <<>>
          /\ \A f \in Files : f # want[c].file => g[f] = got[c][f]
      BY <3>1, <3>2, <1>3, <1>4
    <3>4. got' = [got EXCEPT ![c] = g]
      BY <3>1, <1>7
    <3>. QED BY <3>3, <3>4
  <2>3. /\ pc'[c] = "size" /\ ServerStill /\ want'[c] = want[c] /\ got'[c] = g
        /\ Answers(c)' /\ Placed(c)' => Core'
    <3>1. /\ Arrived(c) /\ pc' = [pc EXCEPT ![c] = "size"] /\ got' = [got EXCEPT ![c] = g]
          /\ want' = [want EXCEPT ![c] = want[c]] /\ "size" \in Places
          /\ want[c] \in [file : Files \cup {None}, size : Nat, total : Nat]
      BY <2>1, <2>2, <1>4, <1>7
    <3>. QED BY <3>1, ClientReads
  <2>4. Answers(c)'
    BY <2>1, <2>2, <2>3, <1>1, <1>2, <1>3, EmptyIsWhole DEF Answers
  <2>5. Placed(c)'
    BY <2>1, <2>3, <1>1, <1>3, ReadPlaced
  <2>. QED BY <2>3, <2>4, <2>5
<1>. QED BY <1>6, <1>7 DEF ReadOk, Goto
\* The sizes and offsets that client.cpp:171 keeps.
Wants == [file : Files \cup {None}, size : Nat, total : Nat]

\* client.cpp:170: the size.
LEMMA ReadSizeHolds ==
    ASSUME Core, NEW c \in Clients, ReadSize(c), ReadsOnly(c), astray' = {}
    PROVE  Core'
<1>1. pc[c] = "size" /\ UNCHANGED got /\ pc' = [pc EXCEPT ![c] = "data"]
  BY DEF ReadSize, Goto
<1>2. Answers(c) /\ Placed(c) /\ Typed
  BY DEF Core
<1>3. /\ want[c].file \in Files /\ want[c].total = 0 /\ UNCHANGED <<c2s, gone, todo>>
      /\ got[c][want[c].file] = <<>>
  BY <1>1, <1>2 DEF Answers, ReadsOnly
<1>4. want[c] \in Wants /\ want \in [Clients -> Wants]
  BY <1>2 DEF Typed, Wants
<1>5. ASSUME NEW n \in Nat, want' = [want EXCEPT ![c].size = n]
      PROVE  \E w \in Wants : /\ want' = [want EXCEPT ![c] = w]
                              /\ w.file = want[c].file /\ w.size = n /\ w.total = 0
  <2>1. PICK w : w = [want[c] EXCEPT !.size = n]
    OBVIOUS
  <2>2. w \in Wants /\ w.file = want[c].file /\ w.size = n /\ w.total = want[c].total
    BY <2>1, <1>4 DEF Wants
  <2>3. want' = [want EXCEPT ![c] = w]
    BY <1>5, <2>1
  <2>. QED BY <2>2, <2>3, <1>3
<1>6. /\ Arrived(c) /\ (~ Up \/ s2c[c] # <<>>)
      /\ \E w \in Wants :
            /\ want' = [want EXCEPT ![c] = w]
            /\ w.file = want[c].file /\ w.total = 0
            /\ s2c'[c] = <<>> \/ (s2c'[c] \in Whole /\ w.size = Len(s2c'[c]))
  <2>1. CASE NothingTaken(c) /\ \E n \in Sizes : want' = [want EXCEPT ![c].size = n]
    <3>1. PICK n \in Sizes : want' = [want EXCEPT ![c].size = n]
      BY <2>1
    <3>2. n \in Nat
      BY SocketAssumption
    <3>3. Arrived(c) /\ ~ Up /\ s2c'[c] = <<>>
      BY <2>1, <1>2 DEF NothingTaken, Typed, Arrived
    <3>. QED BY <3>1, <3>2, <3>3, <1>5
  <2>2. ASSUME NEW k, Takes(c, k),
               want' = [want EXCEPT ![c].size = IF Head(s2c[c]).is = "size" THEN Head(s2c[c]).val ELSE 0]
        PROVE  /\ Arrived(c) /\ s2c[c] # <<>>
               /\ \E w \in Wants :
                     /\ want' = [want EXCEPT ![c] = w]
                     /\ w.file = want[c].file /\ w.total = 0
                     /\ s2c'[c] \in Whole /\ w.size = Len(s2c'[c])
    <3>1. Received(c, k)
      BY <2>2, TakenIs
    <3>2. s2c[c] # <<>>
      BY <3>1 DEF Received
    <3>3. PICK d \in Whole : s2c[c] = Sent(d)
      BY <3>2, <1>1, <1>2 DEF Answers
    <3>4. d \in Seq(Units)
      BY WholeIs
    <3>5. "size" \in Kinds /\ Len(d) \in Values /\ Len(d) \in Nat
      BY <3>4 DEF Kinds, Values
    <3>6. s2c'[c] = d
      BY <3>1, <3>3, <3>4, <3>5, FieldTaken DEF Sent
    <3>7. Head(s2c[c]) = Unit("size", Len(d))
      <4>1. PICK f \in Seq(Units) : f = Field("size", Len(d))
        BY <3>5, FieldIs
      <4>2. Len(f) = 2 /\ f[1] = Unit("size", Len(d))
        BY <4>1, <3>5, FieldIs
      <4>3. PICK x : x = f \o d
        OBVIOUS
      <4>4. x \in Seq(Units) /\ x[1] = f[1] /\ x # <<>>
        BY <4>2, <4>3, <3>4, ConcatProperties
      <4>5. Head(x) = Unit("size", Len(d))
        BY <4>2, <4>4
      <4>. QED BY <4>1, <4>3, <4>5, <3>3 DEF Sent
    <3>8. want' = [want EXCEPT ![c].size = Len(d)]
      <4>1. Head(s2c[c]).is = "size" /\ Head(s2c[c]).val = Len(d)
        BY <3>7 DEF Unit
      <4>. QED BY <4>1, <2>2
    <3>9. Arrived(c)
      BY <3>1 DEF Received, Arrived
    <3>. QED BY <3>2, <3>5, <3>6, <3>8, <3>9, <1>5
  <2>. QED BY <2>1, <2>2 DEF ReadSize
<1>7. PICK w \in Wants :
         /\ want' = [want EXCEPT ![c] = w] /\ w.file = want[c].file /\ w.total = 0
         /\ s2c'[c] = <<>> \/ (s2c'[c] \in Whole /\ w.size = Len(s2c'[c]))
  BY <1>6
<1>8. /\ pc'[c] = "data" /\ want'[c] = w /\ got'[c] = got[c] /\ ServerStill
      /\ Answers(c)' /\ Placed(c)' => Core'
  <2>1. got' = [got EXCEPT ![c] = got[c]] /\ got[c] \in [Files -> Seq(Units) \cup {None}]
    BY <1>1, <1>2 DEF Typed
  <2>2. want' = [want EXCEPT ![c] = w] /\ w \in [file : Files \cup {None}, size : Nat, total : Nat]
    BY <1>7 DEF Wants
  <2>3. "data" \in Places
    BY DEF Places
  <2>. QED BY <2>1, <2>2, <2>3, <1>1, <1>6, ClientReads
<1>9. Half(c, got[c][want[c].file], s2c[c])'
  <2>1. PICK r : r = s2c'[c]
    OBVIOUS
  <2>2. got'[c][want'[c].file] = <<>> /\ want'[c].total = 0 /\ want'[c].size = w.size
    BY <1>3, <1>7, <1>8
  <2>3. <<>> \in Seq(Units) /\ Len(<<>>) = 0
    OBVIOUS
  <2>4. r = <<>> \/ (<<>> \o r \in Whole /\ Len(<<>>) + Len(r) = w.size)
    <3>1. CASE r = <<>>
      BY <3>1
    <3>2. CASE r \in Whole /\ w.size = Len(r)
      <4>1. r \in Seq(Units)
        BY <3>2, WholeIs
      <4>2. <<>> \o r = r /\ 0 + Len(r) = Len(r)
        BY <4>1
      <4>. QED BY <3>2, <4>2, <2>3
    <3>. QED BY <3>1, <3>2, <2>1, <1>7
  <2>. QED BY <2>1, <2>2, <2>3, <2>4 DEF Half
<1>10. Answers(c)'
  BY <1>1, <1>2, <1>3, <1>7, <1>8, <1>9 DEF Answers
<1>11. Placed(c)'
  BY <1>1, <1>3, <1>6, <1>8, ReadPlaced
<1>. QED BY <1>8, <1>10, <1>11

\* The parts of a file, in order, are the file.
LEMMA PartsAre ==
    ASSUME NEW g \in Seq(Units), NEW r \in Seq(Units), NEW k \in 0 .. Len(r)
    PROVE  /\ g \o Prefix(r, k) \in Seq(Units) /\ Len(g \o Prefix(r, k)) = Len(g) + k
           /\ Rest(r, k) \in Seq(Units) /\ Len(Rest(r, k)) = Len(r) - k
           /\ (g \o Prefix(r, k)) \o Rest(r, k) = g \o r
<1>1. PICK a \in Seq(Units) : a = Prefix(r, k) /\ Len(a) = k /\ \A i \in 1 .. k : a[i] = r[i]
  BY PrefixIs
<1>2. PICK b \in Seq(Units) : b = Rest(r, k) /\ Len(b) = Len(r) - k
                              /\ \A i \in 1 .. (Len(r) - k) : b[i] = r[i + k]
  BY UnitsRestIs
<1>3. a \o b = r
  <2>1. /\ a \o b \in Seq(Units) /\ Len(a \o b) = Len(a) + Len(b)
        /\ \A i \in 1 .. Len(a) + Len(b) :
              (a \o b)[i] = IF i <= Len(a) THEN a[i] ELSE b[i - Len(a)]
    BY ConcatProperties
  <2>2. Len(r) \in Nat /\ k \in Nat /\ k <= Len(r)
    OBVIOUS
  <2>3. ASSUME NEW i \in 1 .. Len(r) PROVE (a \o b)[i] = r[i]
    <3>1. CASE i <= k
      BY <3>1, <2>1, <2>2, <1>1, <1>2
    <3>2. CASE i > k
      <4>1. i - k \in 1 .. (Len(r) - k) /\ (i - k) + k = i
        BY <3>2, <2>2
      <4>2. (a \o b)[i] = b[i - k]
        BY <3>2, <2>1, <2>2, <1>1, <1>2
      <4>. QED BY <4>1, <4>2, <1>2
    <3>3. i <= k \/ i > k
      <4>1. i \in Int /\ k \in Int
        BY <2>2
      <4>. QED BY <4>1
    <3>. QED BY <3>1, <3>2, <3>3
  <2>4. Len(a \o b) = Len(r)
    BY <2>1, <2>2, <1>1, <1>2
  <2>. QED BY <2>1, <2>3, <2>4, SeqEqual
<1>4. (g \o a) \o b = g \o (a \o b)
  BY ConcatAssociative
<1>5. g \o a \in Seq(Units) /\ Len(g \o a) = Len(g) + Len(a)
  BY ConcatProperties
<1>. QED BY <1>1, <1>2, <1>3, <1>4, <1>5

\* client.cpp:175: the contents, until there is as much as was told.
LEMMA ReadDataHolds ==
    ASSUME Core, NEW c \in Clients, ReadData(c), ReadsOnly(c), astray' = {}
    PROVE  Core'
<1>1. pc[c] = "data"
  BY DEF ReadData
<1>2. Answers(c) /\ Placed(c) /\ Typed
  BY DEF Core
<1>3. PICK f \in Files : f = want[c].file
  BY <1>1, <1>2 DEF Answers
<1>4. PICK g \in Seq(Units) :
         /\ g = got[c][f] /\ want[c].total = Len(g) /\ Half(c, g, s2c[c])
  BY <1>1, <1>2, <1>3 DEF Answers, Half
<1>5. /\ want[c] \in Wants /\ want \in [Clients -> Wants] /\ want[c].size \in Nat
      /\ got[c] \in [Files -> Seq(Units) \cup {None}]
      /\ got \in [Clients -> [Files -> Seq(Units) \cup {None}]]
      /\ UNCHANGED <<c2s, gone, todo>>
  BY <1>2 DEF Typed, Wants, ReadsOnly
\* After the read there are h, and r on its way.
<1>6. \E h \in Seq(Units) :
         /\ Arrived(c) /\ (~ Up \/ s2c[c] # <<>>)
         /\ \/ s2c'[c] = <<>> /\ h = <<>>
            \/ h \o s2c'[c] \in Whole /\ Len(h) + Len(s2c'[c]) = want[c].size
               /\ s2c'[c] \in Seq(Units)
         /\ \E w \in Wants : /\ want' = [want EXCEPT ![c] = w] /\ w.total = Len(h)
                             /\ w.file = f /\ w.size = want[c].size
         /\ \E x \in [Files -> Seq(Units) \cup {None}] :
               /\ got' = [got EXCEPT ![c] = x] /\ x[f] = h
               /\ \A e \in Files : e # f => x[e] = got[c][e]
  <2>1. CASE NothingTaken(c) /\ UNCHANGED <<got, want>>
    <3>1. Arrived(c) /\ ~ Up /\ s2c[c] = <<>> /\ s2c'[c] = <<>>
      BY <2>1, <1>2 DEF NothingTaken, Typed, Arrived
    <3>2. want' = [want EXCEPT ![c] = want[c]] /\ got' = [got EXCEPT ![c] = got[c]]
      BY <2>1, <1>5
    <3>3. <<>> \in Seq(Units)
      OBVIOUS
    <3>4. \/ g = <<>>
          \/ g \o <<>> \in Whole /\ Len(g) + Len(<<>>) = want[c].size
      BY <1>4, <3>1 DEF Half
    <3>5. /\ \/ s2c'[c] = <<>> /\ g = <<>>
             \/ g \o s2c'[c] \in Whole /\ Len(g) + Len(s2c'[c]) = want[c].size
                /\ s2c'[c] \in Seq(Units)
      BY <3>1, <3>3, <3>4
    <3>6. \E w \in Wants : /\ want' = [want EXCEPT ![c] = w] /\ w.total = Len(g)
                           /\ w.file = f /\ w.size = want[c].size
      BY <3>2, <1>3, <1>4, <1>5
    <3>7. \E x \in [Files -> Seq(Units) \cup {None}] :
             /\ got' = [got EXCEPT ![c] = x] /\ x[f] = g
             /\ \A e \in Files : e # f => x[e] = got[c][e]
      BY <3>2, <1>4, <1>5
    <3>. QED BY <3>1, <3>5, <3>6, <3>7
  <2>2. ASSUME NEW k, Takes(c, k),
               got' = [got EXCEPT ![c][want[c].file] = got[c][want[c].file] \o Prefix(s2c[c], k)],
               want' = [want EXCEPT ![c].total = want[c].total + k]
        PROVE  \E h \in Seq(Units) :
                  /\ Arrived(c) /\ (~ Up \/ s2c[c] # <<>>)
                  /\ \/ s2c'[c] = <<>> /\ h = <<>>
                     \/ h \o s2c'[c] \in Whole /\ Len(h) + Len(s2c'[c]) = want[c].size
                        /\ s2c'[c] \in Seq(Units)
                  /\ \E w \in Wants : /\ want' = [want EXCEPT ![c] = w] /\ w.total = Len(h)
                                      /\ w.file = f /\ w.size = want[c].size
                  /\ \E x \in [Files -> Seq(Units) \cup {None}] :
                        /\ got' = [got EXCEPT ![c] = x] /\ x[f] = h
                        /\ \A e \in Files : e # f => x[e] = got[c][e]
    <3>1. Received(c, k)
      BY <2>2, TakenIs
    <3>2. PICK r \in Seq(Units) : r = s2c[c] /\ r # <<>> /\ k \in 1 .. Len(r) /\ s2c'[c] = Rest(r, k)
      BY <3>1 DEF Received
    <3>3. g \o r \in Whole /\ Len(g) + Len(r) = want[c].size
      BY <3>2, <1>4 DEF Half
    <3>4. k \in 0 .. Len(r) /\ k \in Nat /\ Len(g) \in Nat /\ Len(r) \in Nat
      BY <3>2
    <3>5. PICK h \in Seq(Units) : h = g \o Prefix(r, k)
      BY <3>4, PartsAre
    <3>6. /\ Len(h) = Len(g) + k /\ Rest(r, k) \in Seq(Units) /\ Len(Rest(r, k)) = Len(r) - k
          /\ h \o Rest(r, k) = g \o r
      BY <3>4, <3>5, PartsAre
    <3>7. h \o s2c'[c] \in Whole /\ Len(h) + Len(s2c'[c]) = want[c].size /\ s2c'[c] \in Seq(Units)
      <4>1. (Len(g) + k) + (Len(r) - k) = Len(g) + Len(r)
        BY <3>4
      <4>. QED BY <4>1, <3>2, <3>3, <3>6
    <3>8. \E w \in Wants : /\ want' = [want EXCEPT ![c] = w] /\ w.total = Len(h)
                           /\ w.file = f /\ w.size = want[c].size
      <4>1. PICK w : w = [want[c] EXCEPT !.total = want[c].total + k]
        OBVIOUS
      <4>2. want[c].total + k = Len(h) /\ Len(h) \in Nat
        BY <3>6, <1>4
      <4>3. w \in Wants /\ w.total = Len(h) /\ w.file = f /\ w.size = want[c].size
        BY <4>1, <4>2, <1>3, <1>5 DEF Wants
      <4>4. want' = [want EXCEPT ![c] = w]
        BY <4>1, <2>2
      <4>. QED BY <4>3, <4>4
    <3>9. \E x \in [Files -> Seq(Units) \cup {None}] :
             /\ got' = [got EXCEPT ![c] = x] /\ x[f] = h
             /\ \A e \in Files : e # f => x[e] = got[c][e]
      <4>1. PICK x : x = [got[c] EXCEPT ![f] = h]
        OBVIOUS
      <4>2. /\ x \in [Files -> Seq(Units) \cup {None}] /\ x[f] = h
            /\ \A e \in Files : e # f => x[e] = got[c][e]
        BY <4>1, <1>5
      <4>3. got' = [got EXCEPT ![c] = x]
        BY <4>1, <2>2, <3>2, <3>5, <1>3, <1>4
      <4>. QED BY <4>2, <4>3
    <3>10. Arrived(c) /\ s2c[c] # <<>>
      BY <3>1, <3>2 DEF Received, Arrived
    <3>. QED BY <3>7, <3>8, <3>9, <3>10
  <2>. QED BY <2>1, <2>2 DEF ReadData
<1>7. PICK h \in Seq(Units), w \in Wants, x \in [Files -> Seq(Units) \cup {None}] :
         /\ Arrived(c) /\ (~ Up \/ s2c[c] # <<>>)
         /\ \/ s2c'[c] = <<>> /\ h = <<>>
            \/ h \o s2c'[c] \in Whole /\ Len(h) + Len(s2c'[c]) = want[c].size
               /\ s2c'[c] \in Seq(Units)
         /\ want' = [want EXCEPT ![c] = w] /\ w.total = Len(h) /\ w.file = f /\ w.size = want[c].size
         /\ got' = [got EXCEPT ![c] = x] /\ x[f] = h /\ \A e \in Files : e # f => x[e] = got[c][e]
  BY <1>6
<1> DEFINE p == IF w.total = w.size THEN "prompt" ELSE "data"
<1>8. p \in Places /\ pc' = [pc EXCEPT ![c] = p] /\ p \in {"prompt", "data"}
  <2>1. want'[c] = w
    BY <1>5, <1>7
  <2>2. pc' = [pc EXCEPT ![c] = IF w.total = w.size THEN "prompt" ELSE "data"]
    BY <2>1, <1>7 DEF ReadData, Goto
  <2>. QED BY <2>2 DEF Places
<1> HIDE DEF p
<1>9. /\ pc'[c] = p /\ want'[c] = w /\ got'[c] = x /\ ServerStill
      /\ Answers(c)' /\ Placed(c)' => Core'
  <2>1. want' = [want EXCEPT ![c] = w] /\ w \in [file : Files \cup {None}, size : Nat, total : Nat]
    BY <1>7 DEF Wants
  <2>2. got' = [got EXCEPT ![c] = x] /\ Arrived(c)
    BY <1>7
  <2>. QED BY <2>1, <2>2, <1>8, ClientReads
<1>10. Placed(c)'
  <2>1. ~ Up \/ s2c[c] # <<>>
    BY <1>7
  <2>. QED BY <2>1, <1>1, <1>5, <1>8, <1>9, ReadPlaced
<1>11. CASE p = "data"
  <2>1. Half(c, got[c][want[c].file], s2c[c])'
    BY <1>3, <1>7, <1>9 DEF Half
  <2>2. \A e \in Files : got'[c][e] \in Whole \cup {None} \/ e = want'[c].file
    BY <1>1, <1>2, <1>3, <1>7, <1>9 DEF Answers
  <2>3. want'[c].file \in Files
    BY <1>7, <1>9
  <2>4. Answers(c)'
    BY <2>1, <2>2, <2>3, <1>9, <1>11 DEF Answers
  <2>. QED BY <2>4, <1>9, <1>10
<1>12. CASE p = "prompt"
  <2>1. Len(h) = want[c].size
    BY <1>7, <1>12 DEF p
  <2>2. s2c'[c] = <<>> /\ h \in Whole
    <3>1. CASE s2c'[c] = <<>> /\ h = <<>>
      BY <3>1, EmptyIsWhole
    <3>2. CASE /\ h \o s2c'[c] \in Whole /\ Len(h) + Len(s2c'[c]) = want[c].size
               /\ s2c'[c] \in Seq(Units)
      <4>1. PICK r \in Seq(Units) : r = s2c'[c]
        BY <3>2
      <4>2. Len(r) \in Nat /\ Len(h) \in Nat /\ Len(h) + Len(r) = Len(h)
        BY <3>2, <4>1, <2>1
      <4>3. Len(r) = 0
        BY <4>2
      <4>4. r = <<>>
        BY <4>3
      <4>5. h \o <<>> = h
        OBVIOUS
      <4>. QED BY <4>1, <4>4, <4>5, <3>2
    <3>. QED BY <3>1, <3>2, <1>7
  <2>3. \A e \in Files : got'[c][e] \in Whole \cup {None}
    BY <2>2, <1>1, <1>2, <1>3, <1>7, <1>9 DEF Answers
  <2>4. Answers(c)'
    BY <2>2, <2>3, <1>9, <1>12 DEF Answers
  <2>. QED BY <2>4, <1>9, <1>10
<1>. QED BY <1>8, <1>11, <1>12

\* What a client reads keeps what is said of a calm system.
LEMMA ReadHolds ==
    ASSUME Core, NEW c \in Clients, Read(c), astray' = {}
    PROVE  Core'
<1>1. ReadsOnly(c)
  BY DEF Read, ReadsOnly
<1>. QED BY <1>1, ReadVerdictHolds, ReadListHolds, ReadOkHolds, ReadSizeHolds, ReadDataHolds DEF Read
-----------------------------------------------------------------------------
(* What the clients ask for.                                                 *)

\* The framing of what is written after all else is its own.
LEMMA FramedShift ==
    ASSUME NEW c, NEW e, NEW a \in Seq(Units), NEW f \in Seq(Units), FramedBy(c, e, f),
           NEW s, s = a \o f, NEW j \in 1 .. Len(f)
    PROVE  FramedAt(c, e, s, Len(a) + j)
<1>1. PICK m \in Nat : m = Len(a)
  OBVIOUS
<1>2. /\ Len(s) = m + Len(f) /\ Len(f) \in Nat
      /\ \A i \in 1 .. Len(f) : s[m + i] = f[i]
  BY <1>1, ConcatProperties
<1>3. j \in Nat /\ j >= 1 /\ j <= Len(f) /\ s[m + j] = f[j] /\ FramedAt(c, e, f, j)
  BY <1>2 DEF FramedBy
<1>4. ASSUME NEW k \in 1 .. 5, j + k <= Len(f) PROVE s[m + j + k] = f[j + k]
  <2>1. j + k \in 1 .. Len(f) /\ m + j + k = m + (j + k)
    BY <1>3, <1>4
  <2>. QED BY <2>1, <1>2
<1>5. /\ 1 \in 1 .. 5 /\ 2 \in 1 .. 5 /\ 3 \in 1 .. 5 /\ 4 \in 1 .. 5
      /\ \A k \in 1 .. 5 : m + j + k <= Len(s) <=> j + k <= Len(f)
      /\ (m + j = Len(s) <=> j = Len(f)) /\ (m + j + 2 = Len(s) <=> j + 2 = Len(f))
  <2>1. PICK x \in Nat : x = Len(f) /\ Len(s) = m + x
    BY <1>2
  <2>2. PICK n \in Nat : n = j
    OBVIOUS
  <2>3. \A k \in 1 .. 5 : m + n + k <= m + x <=> n + k <= x
    OBVIOUS
  <2>4. (m + n = m + x <=> n = x) /\ (m + n + 2 = m + x <=> n + 2 = x)
    OBVIOUS
  <2>. QED BY <2>1, <2>2, <2>3, <2>4
<1>6. ASSUME f[j].is = "cmd" PROVE WordAt(e, s, m + j)
  <2>1. WordAt(e, f, j)
    BY <1>6, <1>3 DEF FramedAt
  <2>2. /\ j + 1 + 1 = j + 2 /\ j + 3 + 1 = j + 4
        /\ m + j + 1 + 1 = m + j + 2 /\ m + j + 3 + 1 = m + j + 4
    BY <1>3
  <2>3. j + 2 <= Len(f) => j + 1 <= Len(f)
    BY <1>2, <1>3
  <2>4. j + 4 <= Len(f) => j + 3 <= Len(f)
    BY <1>2, <1>3
  <2>5. /\ FieldAt(f, j + 1, "file", Files) => FieldAt(s, m + j + 1, "file", Files)
        /\ FieldAt(f, j + 3, "size", Sizes) => FieldAt(s, m + j + 3, "size", Sizes)
    BY <2>2, <2>3, <2>4, <1>4, <1>5 DEF FieldAt
  <2>. QED BY <2>1, <2>5, <1>3, <1>5 DEF WordAt
<1>7. ASSUME f[j].is = "size" PROVE SizeAt(c, s, m + j)
  <2>1. SizeAt(c, f, j)
    BY <1>7, <1>3 DEF FramedAt
  <2>. QED BY <2>1, <1>3, <1>4, <1>5 DEF SizeAt, CommandAt
<1>8. ASSUME NEW n \in Sizes, NEW k \in 1 .. n, f[j] = Datum(c, k, n)
      PROVE  DatumAt(c, s, m + j, k, n)
  <2>1. DatumAt(c, f, j, k, n)
    BY <1>8, <1>3 DEF FramedAt
  <2>. QED BY <2>1, <1>3, <1>4, <1>5 DEF DatumAt, CommandAt
<1>. QED BY <1>1, <1>3, <1>6, <1>7, <1>8 DEF FramedAt

\* Who stands at the prompt has asked for nothing: a command may follow.
LEMMA FramedExtends ==
    ASSUME NEW c, NEW e, NEW a \in Seq(Units), NEW f \in Seq(Units), FramedBy(c, "prompt", a),
           f # <<>>, f[1].is = "cmd", NEW s, s = a \o f, NEW i \in 1 .. Len(a)
    PROVE  FramedAt(c, e, s, i)
<1>1. PICK m \in Nat : m = Len(a)
  OBVIOUS
<1>2. /\ Len(s) = m + Len(f) /\ Len(f) \in Nat /\ Len(f) >= 1
      /\ \A j \in 1 .. m : s[j] = a[j]
      /\ s[m + 1] = f[1]
  BY <1>1, ConcatProperties
<1>3. i \in Nat /\ i >= 1 /\ i <= m /\ s[i] = a[i] /\ FramedAt(c, "prompt", a, i)
  BY <1>1, <1>2 DEF FramedBy
<1>4. ASSUME NEW k \in 1 .. 5, i + k <= m PROVE s[i + k] = a[i + k]
  <2>1. i + k \in 1 .. m
    BY <1>3, <1>4
  <2>. QED BY <2>1, <1>2
<1>5. /\ 1 \in 1 .. 5 /\ 2 \in 1 .. 5 /\ 3 \in 1 .. 5 /\ 4 \in 1 .. 5
      /\ \A k \in 1 .. 5 : i + k <= m => i + k <= Len(s)
  BY <1>2, <1>3
<1>6. ASSUME NEW j \in Nat, j >= 1, j <= m + 1, CommandAt(a, j) PROVE CommandAt(s, j)
  <2>1. CASE j <= m
    <3>1. s[j] = a[j]
      BY <2>1, <1>2, <1>6
    <3>. QED BY <2>1, <3>1, <1>1, <1>6 DEF CommandAt
  <2>2. CASE j = m + 1
    BY <2>2, <1>2 DEF CommandAt
  <2>. QED BY <2>1, <2>2, <1>6
<1>7. ASSUME a[i].is = "cmd" PROVE WordAt(e, s, i)
  <2>1. WordAt("prompt", a, i)
    BY <1>7, <1>3 DEF FramedAt
  <2>2. i + 1 + 1 = i + 2 /\ i + 3 + 1 = i + 4
    BY <1>3
  <2>3. (i + 2 <= m => i + 1 <= m) /\ (i + 4 <= m => i + 3 <= m)
    BY <1>3
  <2>5. /\ FieldAt(a, i + 1, "file", Files) => FieldAt(s, i + 1, "file", Files)
        /\ FieldAt(a, i + 3, "size", Sizes) => FieldAt(s, i + 3, "size", Sizes)
    BY <2>2, <2>3, <1>1, <1>4, <1>5 DEF FieldAt
  <2>. QED BY <2>1, <2>5, <1>3 DEF WordAt
<1>8. ASSUME a[i].is = "size" PROVE SizeAt(c, s, i)
  <2>1. SizeAt(c, a, i) /\ i + 1 <= m
    BY <1>1, <1>8, <1>3 DEF FramedAt, SizeAt
  <2>2. i + 2 \in Nat /\ i + 2 >= 1 /\ i + 2 <= m + 1
    BY <2>1, <1>3
  <2>3. CommandAt(a, i + 2) => CommandAt(s, i + 2)
    BY <2>2, <1>6
  <2>. QED BY <2>1, <2>3, <1>1, <1>3, <1>4, <1>5 DEF SizeAt
<1>9. ASSUME NEW n \in Sizes, NEW k \in 1 .. n, a[i] = Datum(c, k, n)
      PROVE  DatumAt(c, s, i, k, n)
  <2>1. DatumAt(c, a, i, k, n)
    BY <1>9, <1>3 DEF FramedAt
  <2>2. i + 1 \in Nat /\ i + 1 >= 1 /\ i + 1 <= m + 1
    BY <1>3
  <2>3. CommandAt(a, i + 1) => CommandAt(s, i + 1)
    BY <2>2, <1>6
  <2>. QED BY <2>1, <2>3, <1>1, <1>3, <1>4, <1>5 DEF DatumAt
<1>. QED BY <1>3, <1>7, <1>8, <1>9 DEF FramedAt

\* A stream and what is written after it.
LEMMA FramedJoins ==
    ASSUME NEW c, NEW e, NEW a \in Seq(Units), NEW f \in Seq(Units), FramedBy(c, "prompt", a),
           f # <<>>, f[1].is = "cmd", FramedBy(c, e, f), NEW s, s = a \o f
    PROVE  FramedBy(c, e, s)
<1>1. Len(s) = Len(a) + Len(f) /\ Len(a) \in Nat /\ Len(f) \in Nat
  BY ConcatProperties
<1>2. ASSUME NEW i \in 1 .. Len(s) PROVE FramedAt(c, e, s, i)
  <2>1. CASE i \in 1 .. Len(a)
    BY <2>1, FramedExtends
  <2>2. CASE i - Len(a) \in 1 .. Len(f)
    <3>1. PICK j \in 1 .. Len(f) : j = i - Len(a)
      BY <2>2
    <3>2. FramedAt(c, e, s, Len(a) + j)
      BY FramedShift
    <3>3. Len(a) + j = i
      BY <3>1, <1>1
    <3>. QED BY <3>2, <3>3
  <2>3. i \in 1 .. Len(a) \/ i - Len(a) \in 1 .. Len(f)
    BY <1>1
  <2>. QED BY <2>1, <2>2, <2>3
<1>. QED BY <1>2 DEF FramedBy

\* The chunks t make up f, and none begins within a field.
Cuttable(f, t) == \E p \in [0 .. Len(t) -> Nat] : Cut(f, <<>>, t, p)

\* A request, f, of a client that then waits in e.
Request(c, e, f, t) ==
    /\ f \in Seq(Units) /\ f # <<>> /\ f[1].is = "cmd" /\ t \in Seq(Seq(Units))
    /\ Cuttable(f, t) /\ FramedBy(c, e, f) /\ e \in {"prompt", "list", "ok", "quit"}
    /\ e = "quit" => f[Len(f)] = Unit("cmd", "quit")

\* What it gets, if anything (client.cpp:153).
Wished(c, e) ==
    /\ want' \in [Clients -> Wants] /\ \A d \in Clients : d # c => want'[d] = want[d]
    /\ e = "ok" => want'[c].file \in Files /\ want'[c].total = 0

\* client.cpp:96: a command is typed, and its writes begin.
LEMMA IssueHolds ==
    ASSUME Core, NEW c \in Clients, NEW e, NEW f, NEW t,
           Request(c, e, f, t), Wished(c, e), Issue(c, t, e)
    PROVE  Core'
<1>1. /\ pc[c] = "prompt" /\ todo[c] = <<>> /\ Up /\ todo' = [todo EXCEPT ![c] = t]
      /\ pc' = [pc EXCEPT ![c] = e] /\ UNCHANGED <<c2s, s2c, gone, got>> /\ ServerStill
  BY DEF Issue, Goto, streams, serverOnly, ServerStill
<1>2. Answers(c) /\ Placed(c) /\ Typed /\ s2c[c] = <<>>
  BY <1>1 DEF Core, Answers
<1>3. /\ f \in Seq(Units) /\ f # <<>> /\ f[1].is = "cmd" /\ t \in Seq(Seq(Units))
      /\ Cuttable(f, t) /\ FramedBy(c, e, f) /\ e \in {"prompt", "list", "ok", "quit"}
      /\ e = "quit" => f[Len(f)] = Unit("cmd", "quit")
  BY DEF Request
<1>4. /\ todo \in [Clients -> Seq(Seq(Units))] /\ pc \in [Clients -> Places]
      /\ c2s[c] \in Seq(Units)
  BY <1>2 DEF Typed
<1>5. /\ todo' \in [Clients -> Seq(Seq(Units))] /\ todo'[c] = t
      /\ \A d \in Clients : d # c => todo'[d] = todo[d]
  BY <1>1, <1>3, <1>4
<1>6. /\ pc' \in [Clients -> Places] /\ pc'[c] = e
      /\ \A d \in Clients : d # c => pc'[d] = pc[d]
  BY <1>1, <1>3, <1>4 DEF Places
<1>7. Typed'
  BY <1>1, <1>2, <1>5, <1>6 DEF Typed, Wished, Wants, ServerStill
<1>8. Only(c)
  BY <1>1, <1>5, <1>6 DEF Only, Wished
<1>9. Answers(c)'
  BY <1>1, <1>2, <1>3, <1>6 DEF Answers, Wished
<1>10. ~ Queued(c) /\ ~ (at = "hello" /\ Peer = c) /\ c \notin gone
  BY <1>1, <1>2, SettledIs DEF Placed
<1>11. ASSUME Registered(c) PROVE Talks(c)'
  <2>1. PICK s : Flow(c, s)
    BY <1>1, <1>2, <1>11 DEF Placed, Talks
  <2>2. s = c2s[c]
    BY <2>1, <1>1, <1>4, AheadDone DEF Flow
  <2>3. PICK r : r = s \o f
    OBVIOUS
  <2>4. s \in Seq(Units) /\ FramedBy(c, "prompt", s) /\ Expected(c, s)
    BY <2>1, <2>2, <1>1, <1>2, <1>4 DEF Flow, Framed, Awaits
  <2>5. Ahead(r, c2s'[c], todo'[c])
    <3>1. PICK p \in [0 .. Len(t) -> Nat] : Cut(f, <<>>, t, p)
      BY <1>3 DEF Cuttable
    <3>2. Ahead(s \o f, s, t)
      BY <3>1, <2>4, <1>3, AheadIssue
    <3>. QED BY <3>2, <2>2, <2>3, <1>1, <1>5
  <2>6. Framed(c, r)'
    <3>1. FramedBy(c, e, r)
      BY <2>3, <2>4, <1>3, FramedJoins
    <3>2. Awaits(c)' = e
      BY <1>1, <1>2, <1>6 DEF Awaits
    <3>. QED BY <3>1, <3>2 DEF Framed
  <2>7. /\ Len(r) = Len(s) + Len(f) /\ Len(s) \in Nat /\ Len(f) \in Nat /\ Len(f) >= 1
        /\ \A i \in 1 .. Len(s) : r[i] = s[i]
        /\ \A i \in 1 .. Len(f) : r[Len(s) + i] = f[i]
    BY <2>3, <2>4, <1>3, ConcatProperties
  <2>8. CommandAt(s, 1) => CommandAt(r, 1)
    <3>1. CASE 1 <= Len(s)
      <4>1. r[1] = s[1]
        BY <3>1, <2>7
      <4>. QED BY <3>1, <4>1 DEF CommandAt
    <3>2. CASE Len(s) = 0
      <4>1. 1 \in 1 .. Len(f) /\ 0 + 1 = 1
        BY <2>7
      <4>2. r[0 + 1] = f[1]
        BY <3>2, <4>1, <2>7
      <4>. QED BY <4>1, <4>2, <1>3 DEF CommandAt
    <3>. QED BY <3>1, <3>2, <2>7
  <2>9. /\ FieldAt(s, 1, "file", Files) => FieldAt(r, 1, "file", Files)
        /\ FieldAt(s, 1, "size", Sizes) => FieldAt(r, 1, "size", Sizes)
        /\ FieldAt(s, 3, "size", Sizes) => FieldAt(r, 3, "size", Sizes)
    <3>1. ASSUME NEW i \in {1, 3}, NEW is, NEW V, FieldAt(s, i, is, V) PROVE FieldAt(r, i, is, V)
      <4>1. i + 1 <= Len(s) /\ s[i].is = is /\ s[i].val \in V /\ s[i + 1] = Pad
        BY <3>1 DEF FieldAt
      <4>2. i \in 1 .. Len(s) /\ i + 1 \in 1 .. Len(s) /\ i + 1 <= Len(r)
        BY <4>1, <2>7
      <4>3. r[i] = s[i] /\ r[i + 1] = s[i + 1]
        BY <4>2, <2>7
      <4>. QED BY <4>1, <4>2, <4>3 DEF FieldAt
    <3>. QED BY <3>1
  <2>10. 1 <= Len(s) => 1 <= Len(r) /\ r[1] = s[1]
    BY <2>7
  <2>11. at' = at /\ job' = job /\ (InHand(c)' <=> InHand(c))
    BY <1>1 DEF ServerStill, InHand, Peer
  <2>12. ~ (InHand(c) /\ at = "file_name")
    BY <2>4, <1>1 DEF Expected
  <2>13. Expected(c, r)'
    BY <2>4, <2>8, <2>9, <2>10, <2>11, <2>12 DEF Expected
  <2>14. e = "quit" => r # <<>> /\ r[Len(r)] = Unit("cmd", "quit")
    <3>1. Len(f) \in 1 .. Len(f)
      BY <2>7
    <3>2. r[Len(s) + Len(f)] = f[Len(f)]
      BY <3>1, <2>7
    <3>3. r # <<>>
      <4>1. Len(r) # 0
        BY <2>7
      <4>. QED BY <4>1
    <3>. QED BY <3>2, <3>3, <2>7, <1>3
  <2>15. Flow(c, r)'
    BY <2>5, <2>6, <2>13, <2>14, <1>3, <1>6 DEF Flow
  <2>16. pc'[c] \notin {"start", "naming", "verdict"}
    BY <1>3, <1>6
  <2>. QED BY <2>15, <2>16, TalkGoesOn
<1>12. Placed(c)'
  <2>1. pc'[c] \notin {"start", "gone"}
    BY <1>3, <1>6
  <2>. QED BY <2>1, <1>1, <1>2, <1>10, <1>11, SettledStays
<1>. QED BY <1>1, <1>7, <1>8, <1>9, <1>12, ClientFrame
\* The words of client.cpp, and those of server.cpp.
LEMMA WordIs ==
    ASSUME NEW c
    PROVE  /\ Word(c, "ls") \in {"ls", "msg"} /\ Word(c, "quit") = "quit"
           /\ Word(c, "put") \in {"put", "pic"} /\ Word(c, "get") \in {"get", "file"}
BY DEF Word

\* A command is neither half a field nor a unit of a file.
LEMMA CommandUnit ==
    ASSUME NEW w \in {"ls", "msg", "quit", "put", "pic", "get", "file"}
    PROVE  /\ Unit("cmd", w) \in Units /\ Unit("cmd", w).is = "cmd" /\ Unit("cmd", w).val = w
           /\ Unit("cmd", w) # Pad
           /\ \A c, k, n : Unit("cmd", w) # Datum(c, k, n)
<1>1. "cmd" \in Kinds /\ w \in Values
  BY DEF Kinds, Values, Words
<1>2. Unit("cmd", w) \in Units
  BY <1>1, FieldIs
<1>3. Unit("cmd", w).is = "cmd" /\ Unit("cmd", w).val = w /\ Pad.is = "pad"
  BY DEF Unit, Pad
<1>4. ASSUME NEW c, NEW k, NEW n PROVE Unit("cmd", w) # Datum(c, k, n)
  BY <1>3, DatumIs
<1>. QED BY <1>2, <1>3, <1>4

\* client.cpp:96, client.cpp:191: a word alone.
LEMMA WordRequest ==
    ASSUME NEW c, NEW w, NEW e,
           (w \in {"ls", "msg"} /\ e = "list") \/ (w = "quit" /\ e = "quit")
    PROVE  Request(c, e, <<Unit("cmd", w)>>, <<<<Unit("cmd", w)>>>>)
<1>1. PICK u \in Units : /\ u = Unit("cmd", w) /\ u.is = "cmd" /\ u.val = w /\ u # Pad
                         /\ \A d, k, n : u # Datum(d, k, n)
  BY CommandUnit
<1>2. PICK f \in Seq(Units) : f = <<u>> /\ Len(f) = 1 /\ f[1] = u /\ f # <<>>
  <2>1. <<u>> \in Seq(Units) /\ Len(<<u>>) = 1 /\ <<u>>[1] = u /\ <<u>> # <<>>
    OBVIOUS
  <2>. QED BY <2>1
<1>3. PICK t \in Seq(Seq(Units)) : t = <<f>> /\ Len(t) = 1 /\ t[1] = f
  <2>1. <<f>> \in Seq(Seq(Units)) /\ Len(<<f>>) = 1 /\ <<f>>[1] = f
    OBVIOUS
  <2>. QED BY <2>1
<1>4. Cuttable(f, t)
  <2>1. PICK p : p = [i \in 0 .. 1 |-> i]
    OBVIOUS
  <2>2. /\ p \in [0 .. Len(t) -> Nat] /\ p[0] = 0 /\ p[1] = 1
        /\ \A i \in 0 .. 1 : p[i] = i
    BY <2>1, <1>3
  <2>3. \A i \in 1 .. 1 : i = 1
    OBVIOUS
  <2>4. 1 - 1 = 0 /\ 0 + 1 = 1 /\ Len(<<>>) = 0
    OBVIOUS
  <2>5. \A i, j \in 0 .. Len(t) : i <= j => p[i] <= p[j]
    BY <2>2, <1>3
  <2>8. /\ t[1] # <<>> /\ p[1] = p[1 - 1] + Len(t[1]) /\ p[1] <= Len(f)
        /\ \A k \in 1 .. Len(t[1]) : t[1][k] = f[p[1 - 1] + k]
        /\ t[1][1] # Pad
    BY <2>2, <2>3, <2>4, <1>1, <1>2, <1>3
  <2>6. ASSUME NEW i \in 1 .. Len(t)
        PROVE  /\ t[i] # <<>> /\ p[i] = p[i - 1] + Len(t[i]) /\ p[i] <= Len(f)
               /\ \A k \in 1 .. Len(t[i]) : t[i][k] = f[p[i - 1] + k]
               /\ t[i][1] # Pad
    <3>1. i = 1
      BY <2>3, <1>3
    <3>. QED BY <3>1, <2>8
  <2>7. Cut(f, <<>>, t, p)
    BY <2>2, <2>4, <2>5, <2>6, <1>2, <1>3 DEF Cut
  <2>. QED BY <2>2, <2>7 DEF Cuttable
<1>5. FramedBy(c, e, f)
  <2>1. ASSUME NEW i \in 1 .. Len(f) PROVE FramedAt(c, e, f, i)
    <3>1. i = 1 /\ f[i] = u
      BY <1>2
    <3>2. WordAt(e, f, i)
      BY <3>1, <1>1, <1>2 DEF WordAt, Commands
    <3>. QED BY <3>1, <3>2, <1>1 DEF FramedAt
  <2>. QED BY <2>1 DEF FramedBy
<1>6. e \in {"prompt", "list", "ok", "quit"} /\ (e = "quit" => f[Len(f)] = Unit("cmd", "quit"))
  BY <1>1, <1>2
<1>7. Request(c, e, f, t)
  BY <1>1, <1>2, <1>3, <1>4, <1>5, <1>6 DEF Request
<1>. QED BY <1>1, <1>2, <1>3, <1>7

\* The sequence r is x, y and z, and then d.
ThreeThen(T, r, x, y, z, d) ==
    /\ r \in Seq(T) /\ Len(r) = 3 + Len(d) /\ r[1] = x /\ r[2] = y /\ r[3] = z
    /\ \A i \in 1 .. Len(d) : r[3 + i] = d[i]

\* A sequence that is put after three elements follows them in its order.
LEMMA ThreeAndMore ==
    ASSUME NEW T, NEW x \in T, NEW y \in T, NEW z \in T, NEW d \in Seq(T)
    PROVE  ThreeThen(T, <<x, y, z>> \o d, x, y, z, d)
<1>1. PICK h \in Seq(T) : h = <<x, y, z>> /\ Len(h) = 3 /\ h[1] = x /\ h[2] = y /\ h[3] = z
  <2>1. <<x, y, z>> \in Seq(T)
    OBVIOUS
  <2>. QED BY <2>1
<1>2. PICK r : r = h \o d
  OBVIOUS
<1>3. /\ r \in Seq(T) /\ Len(r) = Len(h) + Len(d)
      /\ \A i \in 1 .. Len(h) : r[i] = h[i]
      /\ \A i \in 1 .. Len(d) : r[Len(h) + i] = d[i]
  BY <1>2, ConcatProperties
<1>4. r[1] = x /\ r[2] = y /\ r[3] = z
  BY <1>1, <1>3
<1>5. \A i \in 1 .. Len(d) : r[3 + i] = d[i]
  BY <1>1, <1>3
<1>. QED BY <1>1, <1>2, <1>3, <1>4, <1>5 DEF ThreeThen

\* client.cpp:150: a word and a name.
LEMMA GetRequest ==
    ASSUME NEW c, NEW w \in {"get", "file"}, NEW n \in Files
    PROVE  \E f : Request(c, "ok", f, <<<<Unit("cmd", w)>>, Field("file", n)>>)
<1>1. PICK u \in Units : /\ u = Unit("cmd", w) /\ u.is = "cmd" /\ u.val = w /\ u # Pad
                         /\ \A d, k, m : u # Datum(d, k, m)
  BY CommandUnit
<1>2. PICK v \in Units : /\ v = Unit("file", n) /\ v.is = "file" /\ v.val = n /\ v # Pad
                         /\ \A d, k, m : v # Datum(d, k, m)
  <2>1. "file" \in Kinds /\ n \in Values
    BY DEF Kinds, Values
  <2>2. Unit("file", n) \in Units
    BY <2>1, FieldIs
  <2>3. Unit("file", n).is = "file" /\ Unit("file", n).val = n /\ Pad.is = "pad"
    BY DEF Unit, Pad
  <2>4. ASSUME NEW d, NEW k, NEW m PROVE Unit("file", n) # Datum(d, k, m)
    BY <2>3, DatumIs
  <2>. QED BY <2>2, <2>3, <2>4
<1>3. Pad \in Units /\ Pad.is = "pad" /\ \A d, k, m : Pad # Datum(d, k, m)
  <2>1. Pad \in Units /\ Pad.is = "pad"
    BY DEF Pad, Unit, Units, Kinds, Values
  <2>. QED BY <2>1, DatumIs
<1>4. PICK f \in Seq(Units) : Len(f) = 3 /\ f[1] = u /\ f[2] = v /\ f[3] = Pad /\ f # <<>>
  <2>1. /\ <<u, v, Pad>> \in Seq(Units) /\ Len(<<u, v, Pad>>) = 3 /\ <<u, v, Pad>>[1] = u
        /\ <<u, v, Pad>>[2] = v /\ <<u, v, Pad>>[3] = Pad /\ <<u, v, Pad>> # <<>>
    BY <1>3
  <2>. QED BY <2>1
<1>5. PICK x \in Seq(Units), y \in Seq(Units) :
         /\ x = <<u>> /\ Len(x) = 1 /\ x[1] = u /\ x # <<>>
         /\ y = <<v, Pad>> /\ Len(y) = 2 /\ y[1] = v /\ y[2] = Pad /\ y # <<>>
  <2>1. /\ <<u>> \in Seq(Units) /\ Len(<<u>>) = 1 /\ <<u>>[1] = u /\ <<u>> # <<>>
        /\ <<v, Pad>> \in Seq(Units) /\ Len(<<v, Pad>>) = 2 /\ <<v, Pad>>[1] = v
        /\ <<v, Pad>>[2] = Pad /\ <<v, Pad>> # <<>>
    BY <1>3
  <2>. QED BY <2>1
<1>6. PICK t \in Seq(Seq(Units)) : t = <<x, y>> /\ Len(t) = 2 /\ t[1] = x /\ t[2] = y
  <2>1. <<x, y>> \in Seq(Seq(Units)) /\ Len(<<x, y>>) = 2 /\ <<x, y>>[1] = x /\ <<x, y>>[2] = y
    OBVIOUS
  <2>. QED BY <2>1
<1>7. Cuttable(f, t)
  <2>1. PICK p : p = [i \in 0 .. 2 |-> IF i = 2 THEN 3 ELSE i]
    OBVIOUS
  <2>2. /\ p \in [0 .. Len(t) -> Nat] /\ p[0] = 0 /\ p[1] = 1 /\ p[2] = 3
    BY <2>1, <1>6
  <2>3. /\ \A i \in 1 .. 2 : i = 1 \/ i = 2
        /\ \A i \in 0 .. 2 : i = 0 \/ i = 1 \/ i = 2
        /\ \A i \in 1 .. 1 : i = 1
    OBVIOUS
  <2>4. /\ 1 - 1 = 0 /\ 2 - 1 = 1 /\ 0 + 1 = 1 /\ 1 + 1 = 2 /\ 1 + 2 = 3 /\ Len(<<>>) = 0
        /\ 1 <= 3 /\ 3 <= 3
    OBVIOUS
  <2>5. \A i, j \in 0 .. Len(t) : i <= j => p[i] <= p[j]
    BY <2>2, <2>3, <1>6
  <2>6. /\ t[1] # <<>> /\ p[1] = p[1 - 1] + Len(t[1]) /\ p[1] <= Len(f)
        /\ \A k \in 1 .. Len(t[1]) : t[1][k] = f[p[1 - 1] + k]
        /\ t[1][1] # Pad
    BY <2>2, <2>3, <2>4, <1>1, <1>4, <1>5, <1>6
  <2>7. /\ t[2] # <<>> /\ p[2] = p[2 - 1] + Len(t[2]) /\ p[2] <= Len(f)
        /\ \A k \in 1 .. Len(t[2]) : t[2][k] = f[p[2 - 1] + k]
        /\ t[2][1] # Pad
    BY <2>2, <2>3, <2>4, <1>2, <1>4, <1>5, <1>6
  <2>8. ASSUME NEW i \in 1 .. Len(t)
        PROVE  /\ t[i] # <<>> /\ p[i] = p[i - 1] + Len(t[i]) /\ p[i] <= Len(f)
               /\ \A k \in 1 .. Len(t[i]) : t[i][k] = f[p[i - 1] + k]
               /\ t[i][1] # Pad
    <3>1. i = 1 \/ i = 2
      BY <2>3, <1>6
    <3>. QED BY <3>1, <2>6, <2>7
  <2>9. Cut(f, <<>>, t, p)
    BY <2>2, <2>4, <2>5, <2>8, <1>4, <1>6 DEF Cut
  <2>. QED BY <2>2, <2>9 DEF Cuttable
<1>8. FramedBy(c, "ok", f)
  <2>1. ASSUME NEW i \in 1 .. Len(f) PROVE FramedAt(c, "ok", f, i)
    <3>1. i \in {1, 2, 3}
      BY <1>4
    <3>2. CASE i = 1
      <4>1. FieldAt(f, 1 + 1, "file", Files)
        <5>1. 1 + 1 = 2 /\ 2 + 1 = 3 /\ 3 <= 3
          OBVIOUS
        <5>. QED BY <5>1, <1>2, <1>4 DEF FieldAt
      <4>2. 1 + 2 = 3
        OBVIOUS
      <4>3. WordAt("ok", f, 1)
        BY <4>1, <4>2, <1>1, <1>4 DEF WordAt, Commands
      <4>. QED BY <3>2, <4>3, <1>1, <1>4 DEF FramedAt
    <3>3. CASE i = 2
      BY <3>3, <1>2, <1>4 DEF FramedAt
    <3>4. CASE i = 3
      BY <3>4, <1>3, <1>4 DEF FramedAt
    <3>. QED BY <3>1, <3>2, <3>3, <3>4
  <2>. QED BY <2>1 DEF FramedBy
<1>9. Request(c, "ok", f, t)
  BY <1>1, <1>4, <1>6, <1>7, <1>8 DEF Request
<1>. QED BY <1>1, <1>2, <1>5, <1>6, <1>9 DEF Field
\* What is written after something.
LEMMA JoinIs ==
    ASSUME NEW T, NEW a \in Seq(T), NEW b \in Seq(T), NEW s, s = a \o b, NEW m, m = Len(a)
    PROVE  /\ s \in Seq(T) /\ Len(s) = m + Len(b) /\ m \in Nat /\ Len(b) \in Nat
           /\ \A i \in 1 .. m : s[i] = a[i]
           /\ \A i \in 1 .. Len(b) : s[m + i] = b[i]
BY ConcatProperties

\* A name, a size, and what a client may have for a name.
LEMMA HeadsAre ==
    ASSUME NEW is \in {"file", "size"}, NEW v \in Values
    PROVE  /\ Unit(is, v) \in Units /\ Unit(is, v).is = is /\ Unit(is, v).val = v
           /\ Unit(is, v) # Pad /\ \A d, k, m : Unit(is, v) # Datum(d, k, m)
           /\ Field(is, v) \in Seq(Units) /\ Len(Field(is, v)) = 2 /\ Field(is, v) # <<>>
           /\ Field(is, v)[1] = Unit(is, v) /\ Field(is, v)[2] = Pad
           /\ Pad \in Units /\ Pad.is = "pad" /\ \A d, k, m : Pad # Datum(d, k, m)
<1>1. is \in Kinds
  BY DEF Kinds
<1>2. /\ Unit(is, v) \in Units /\ Pad \in Units
      /\ Field(is, v) \in Seq(Units) /\ Len(Field(is, v)) = 2
      /\ Field(is, v)[1] = Unit(is, v) /\ Field(is, v)[2] = Pad
  BY <1>1, FieldIs
<1>3. Unit(is, v).is = is /\ Unit(is, v).val = v /\ Pad.is = "pad"
  BY DEF Unit, Pad
<1>4. ASSUME NEW d, NEW k, NEW m PROVE Unit(is, v) # Datum(d, k, m) /\ Pad # Datum(d, k, m)
  BY <1>3, DatumIs
<1>5. Field(is, v) # <<>>
  <2>1. PICK f \in Seq(Units) : f = Field(is, v) /\ Len(f) = 2
    BY <1>2
  <2>2. f # <<>>
    BY <2>1
  <2>. QED BY <2>1, <2>2
<1>. QED BY <1>2, <1>3, <1>4, <1>5

\* What an upload is on the wire: a word, a name, a size, and the contents.
Upload(f, u, v, s, c, n) ==
    /\ f \in Seq(Units) /\ Len(f) = 5 + n /\ f # <<>>
    /\ f[1] = u /\ f[2] = v /\ f[3] = Pad /\ f[4] = s /\ f[5] = Pad
    /\ \A i \in 1 .. n : f[5 + i] = Datum(c, i, n)

\* Who reads an upload knows at every unit what comes next.
LEMMA UploadFramed ==
    ASSUME NEW c \in Clients, NEW w \in {"put", "pic"}, NEW a \in Files, NEW n \in Sizes,
           NEW f, NEW u, NEW v, NEW s,
           u = Unit("cmd", w), v = Unit("file", a), s = Unit("size", n), Upload(f, u, v, s, c, n)
    PROVE  FramedBy(c, "prompt", f)
<1>1. n \in Nat /\ a \in Values /\ n \in Values
  BY SocketAssumption DEF Values
<1>2. /\ u.is = "cmd" /\ u.val = w /\ \A d, k, m : u # Datum(d, k, m)
  BY CommandUnit
<1>3. /\ v.is = "file" /\ v.val = a /\ \A d, k, m : v # Datum(d, k, m)
      /\ Pad.is = "pad" /\ \A d, k, m : Pad # Datum(d, k, m)
  BY <1>1, HeadsAre
<1>4. s.is = "size" /\ s.val = n /\ \A d, k, m : s # Datum(d, k, m)
  BY <1>1, HeadsAre
<1>5. /\ f \in Seq(Units) /\ Len(f) = 5 + n
      /\ f[1] = u /\ f[2] = v /\ f[3] = Pad /\ f[4] = s /\ f[5] = Pad
      /\ \A i \in 1 .. n : f[5 + i] = Datum(c, i, n)
  BY DEF Upload
<1>6. ASSUME NEW i \in 1 .. Len(f) PROVE FramedAt(c, "prompt", f, i)
  <2>1. i \in {1, 2, 3, 4, 5} \/ \E k \in 1 .. n : i = 5 + k
    <3>1. ASSUME i > 5 PROVE i - 5 \in 1 .. n /\ i = 5 + (i - 5)
      BY <3>1, <1>1, <1>5
    <3>2. i > 5 \/ i \in {1, 2, 3, 4, 5}
      BY <1>1, <1>5
    <3>. QED BY <3>1, <3>2
  <2>2. CASE i = 1
    <3>1. FieldAt(f, 1 + 1, "file", Files)
      <4>1. 1 + 1 = 2 /\ 2 + 1 = 3 /\ 3 <= 5 + n
        BY <1>1
      <4>. QED BY <4>1, <1>3, <1>5 DEF FieldAt
    <3>2. FieldAt(f, 1 + 3, "size", Sizes)
      <4>1. 1 + 3 = 4 /\ 4 + 1 = 5 /\ 5 <= 5 + n
        BY <1>1
      <4>. QED BY <4>1, <1>4, <1>5 DEF FieldAt
    <3>3. WordAt("prompt", f, 1)
      BY <3>1, <3>2, <1>2, <1>5 DEF WordAt, Commands
    <3>. QED BY <2>2, <3>3, <1>2, <1>5 DEF FramedAt
  <2>3. CASE i = 2
    BY <2>3, <1>3, <1>5 DEF FramedAt
  <2>4. CASE i = 3 \/ i = 5
    BY <2>4, <1>3, <1>5 DEF FramedAt
  <2>5. CASE i = 4
    <3>1. SizeAt(c, f, 4)
      <4>1. 4 + 1 <= Len(f) /\ 4 + 2 = 6 /\ 5 + 1 = 6
        BY <1>1, <1>5
      <4>2. CASE n = 0
        <5>1. ~ (6 <= Len(f))
          BY <4>2, <1>5
        <5>. QED BY <4>1, <4>2, <5>1, <1>4, <1>5 DEF SizeAt, CommandAt
      <4>3. CASE n # 0
        <5>1. 1 \in 1 .. n /\ 6 <= Len(f)
          BY <4>3, <1>1, <1>5
        <5>2. f[6] = Datum(c, 1, n)
          BY <5>1, <4>1, <1>5
        <5>. QED BY <4>1, <4>3, <5>1, <5>2, <1>4, <1>5 DEF SizeAt
      <4>. QED BY <4>2, <4>3
    <3>. QED BY <2>5, <3>1, <1>4, <1>5 DEF FramedAt
  <2>6. ASSUME NEW k \in 1 .. n, i = 5 + k PROVE FramedAt(c, "prompt", f, i)
    <3>1. f[i] = Datum(c, k, n) /\ f[i].is = "data"
      BY <2>6, <1>5, DatumIs
    <3>2. ASSUME NEW m \in Sizes, NEW j \in 1 .. m, f[i] = Datum(c, j, m)
          PROVE  DatumAt(c, f, i, j, m)
      <4>1. j = k /\ m = n
        <5>1. Datum(c, j, m) = Datum(c, k, n)
          BY <3>1, <3>2
        <5>. QED BY <5>1, DatumsDiffer
      <4>2. CASE k = n
        <5>1. ~ (i + 1 <= Len(f))
          BY <4>2, <2>6, <1>1, <1>5
        <5>. QED BY <4>1, <4>2, <5>1 DEF DatumAt, CommandAt
      <4>3. CASE k # n
        <5>1. k + 1 \in 1 .. n /\ i + 1 <= Len(f) /\ 5 + (k + 1) = i + 1
          BY <4>3, <2>6, <1>1, <1>5
        <5>2. f[i + 1] = Datum(c, k + 1, n)
          <6>1. f[5 + (k + 1)] = Datum(c, k + 1, n)
            BY <5>1, <1>5
          <6>. QED BY <6>1, <5>1
        <5>. QED BY <4>1, <4>3, <5>1, <5>2 DEF DatumAt
      <4>. QED BY <4>2, <4>3
    <3>. QED BY <3>1, <3>2 DEF FramedAt
  <2>. QED BY <2>1, <2>2, <2>3, <2>4, <2>5, <2>6
<1>. QED BY <1>6 DEF FramedBy

\* client.cpp:120: a word, a name, a size, and the contents unit by unit.
LEMMA PutRequest ==
    ASSUME NEW c \in Clients, NEW w \in {"put", "pic"}, NEW a \in Files, NEW n \in Sizes
    PROVE  \E f : Request(c, "prompt", f,
                          <<<<Unit("cmd", w)>>, Field("file", a), Field("size", n)>>
                            \o [i \in 1 .. n |-> <<Content(c, n)[i]>>])
<1>1. n \in Nat /\ a \in Values /\ n \in Values
  BY SocketAssumption DEF Values
<1>2. PICK u \in Units : u = Unit("cmd", w) /\ u.is = "cmd" /\ u # Pad
  BY CommandUnit
<1>3. PICK v \in Units : v = Unit("file", a) /\ v # Pad
  BY <1>1, HeadsAre
<1>4. PICK s \in Units : s = Unit("size", n) /\ s # Pad
  BY <1>1, HeadsAre
<1>5. Pad \in Units
  BY <1>1, HeadsAre
<1>6. PICK x \in Seq(Units) : x = <<u>> /\ Len(x) = 1 /\ x[1] = u /\ x # <<>>
  <2>1. <<u>> \in Seq(Units) /\ Len(<<u>>) = 1 /\ <<u>>[1] = u /\ <<u>> # <<>>
    OBVIOUS
  <2>. QED BY <2>1
<1>7. PICK y \in Seq(Units) : y = Field("file", a) /\ Len(y) = 2 /\ y[1] = v /\ y[2] = Pad /\ y # <<>>
  BY <1>1, <1>3, HeadsAre
<1>8. PICK z \in Seq(Units) : z = Field("size", n) /\ Len(z) = 2 /\ z[1] = s /\ z[2] = Pad /\ z # <<>>
  BY <1>1, <1>4, HeadsAre
<1>9. PICK g \in Seq(Units) : Len(g) = n /\ g = Content(c, n) /\ \A i \in 1 .. n : g[i] = Datum(c, i, n)
  BY <1>1, ContentIs
<1>10. PICK f : Upload(f, u, v, s, c, n)
  <2>1. PICK h \in Seq(Units) : /\ Len(h) = 5 /\ h[1] = u /\ h[2] = v /\ h[3] = Pad /\ h[4] = s
                                /\ h[5] = Pad
    <3>1. <<u, v, Pad, s, Pad>> \in Seq(Units)
      BY <1>5
    <3>. QED BY <3>1
  <2>2. PICK r : r = h \o g
    OBVIOUS
  <2>3. /\ r \in Seq(Units) /\ Len(r) = 5 + n
        /\ \A i \in 1 .. 5 : r[i] = h[i]
        /\ \A i \in 1 .. n : r[5 + i] = g[i]
    <3>1. h \in Seq(Units) /\ g \in Seq(Units) /\ 5 = Len(h) /\ Len(g) = n
      BY <2>1, <1>9
    <3>2. /\ r \in Seq(Units) /\ Len(r) = 5 + Len(g)
          /\ \A i \in 1 .. 5 : r[i] = h[i]
          /\ \A i \in 1 .. Len(g) : r[5 + i] = g[i]
      <4>1. PICK m : m = 5
        OBVIOUS
      <4>2. m = Len(h)
        BY <3>1, <4>1
      <4>3. /\ r \in Seq(Units) /\ Len(r) = m + Len(g)
            /\ \A i \in 1 .. m : r[i] = h[i]
            /\ \A i \in 1 .. Len(g) : r[m + i] = g[i]
        BY <2>2, <4>2, JoinIs
      <4>. QED BY <4>1, <4>3
    <3>. QED BY <3>1, <3>2
  <2>4. r # <<>>
    <3>1. Len(r) # 0
      BY <2>3, <1>1
    <3>. QED BY <3>1
  <2>5. r[1] = u /\ r[2] = v /\ r[3] = Pad /\ r[4] = s /\ r[5] = Pad
    BY <2>1, <2>3
  <2>6. \A i \in 1 .. n : r[5 + i] = Datum(c, i, n)
    BY <2>3, <1>9
  <2>7. Upload(r, u, v, s, c, n)
    BY <2>3, <2>4, <2>5, <2>6 DEF Upload
  <2>. QED BY <2>7
<1>11. PICK t \in Seq(Seq(Units)) :
          /\ t = <<x, y, z>> \o [i \in 1 .. n |-> <<g[i]>>]
          /\ Len(t) = 3 + n /\ t[1] = x /\ t[2] = y /\ t[3] = z
          /\ \A i \in 1 .. n : t[3 + i] = <<Datum(c, i, n)>>
  <2>1. PICK d \in Seq(Seq(Units)) :
           d = [i \in 1 .. n |-> <<g[i]>>] /\ Len(d) = n /\ \A i \in 1 .. n : d[i] = <<g[i]>>
    <3>1. \A i \in 1 .. n : <<g[i]>> \in Seq(Units)
      BY <1>9
    <3>2. [i \in 1 .. n |-> <<g[i]>>] \in Seq(Seq(Units)) /\ Len([i \in 1 .. n |-> <<g[i]>>]) = n
      BY <3>1, <1>1
    <3>. QED BY <3>2
  <2>2. PICK r : r = <<x, y, z>> \o d
    OBVIOUS
  <2>3. PICK T : T = Seq(Units)
    OBVIOUS
  <2>4. ThreeThen(T, r, x, y, z, d)
    BY <2>2, <2>3, ThreeAndMore, Zenon
  <2>5. /\ r \in Seq(Seq(Units)) /\ Len(r) = 3 + Len(d) /\ r[1] = x /\ r[2] = y /\ r[3] = z
        /\ \A i \in 1 .. Len(d) : r[3 + i] = d[i]
    BY <2>3, <2>4, Zenon DEF ThreeThen
  <2>6. \A i \in 1 .. n : r[3 + i] = <<Datum(c, i, n)>>
    BY <2>1, <2>5, <1>9
  <2>7. Len(r) = 3 + n /\ r = <<x, y, z>> \o [i \in 1 .. n |-> <<g[i]>>]
    BY <2>1, <2>2, <2>5
  <2>. QED BY <2>5, <2>6, <2>7
<1>12. /\ f \in Seq(Units) /\ Len(f) = 5 + n /\ f # <<>>
       /\ f[1] = u /\ f[2] = v /\ f[3] = Pad /\ f[4] = s /\ f[5] = Pad
       /\ \A i \in 1 .. n : f[5 + i] = Datum(c, i, n)
  BY <1>10 DEF Upload
<1>13. Cuttable(f, t)
  <2>1. PICK p : p = [i \in 0 .. 3 + n |-> IF i <= 1 THEN i ELSE IF i = 2 THEN 3 ELSE i + 2]
    OBVIOUS
  <2>2. p \in [0 .. Len(t) -> Nat]
    BY <2>1, <1>1, <1>11
  <2>3. /\ p[0] = 0 /\ p[1] = 1 /\ p[2] = 3 /\ p[3] = 5 /\ p[3 + n] = 5 + n
        /\ \A i \in 1 .. n : p[3 + i] = 5 + i /\ p[(3 + i) - 1] = 4 + i
    <3>1. /\ 0 \in 0 .. 3 + n /\ 1 \in 0 .. 3 + n /\ 2 \in 0 .. 3 + n /\ 3 \in 0 .. 3 + n
          /\ 3 + n \in 0 .. 3 + n
      BY <1>1
    <3>2. p[0] = 0 /\ p[1] = 1 /\ p[2] = 3 /\ p[3] = 5 /\ p[3 + n] = 5 + n
      BY <2>1, <3>1, <1>1
    <3>3. ASSUME NEW i \in 1 .. n PROVE p[3 + i] = 5 + i /\ p[(3 + i) - 1] = 4 + i
      <4>1. 3 + i \in 0 .. 3 + n /\ (3 + i) - 1 \in 0 .. 3 + n /\ ~ (3 + i <= 1) /\ 3 + i # 2
            /\ ~ ((3 + i) - 1 <= 1) /\ (3 + i) - 1 # 2 /\ (3 + i) + 2 = 5 + i
            /\ ((3 + i) - 1) + 2 = 4 + i
        BY <1>1
      <4>. QED BY <2>1, <4>1
    <3>. QED BY <3>2, <3>3
  <2>4. \A i, j \in 0 .. Len(t) : i <= j => p[i] <= p[j]
    BY <2>1, <1>1, <1>11
  <2>5. /\ 1 - 1 = 0 /\ 2 - 1 = 1 /\ 3 - 1 = 2 /\ 0 + 1 = 1 /\ 1 + 1 = 2 /\ 1 + 2 = 3
        /\ 3 + 1 = 4 /\ 3 + 2 = 5 /\ Len(<<>>) = 0
        /\ \A k \in 1 .. 1 : k = 1
        /\ \A k \in 1 .. 2 : k = 1 \/ k = 2
        /\ 1 <= 5 + n /\ 3 <= 5 + n /\ 5 <= 5 + n
    BY <1>1
  <2>6. /\ t[1] # <<>> /\ p[1] = p[1 - 1] + Len(t[1]) /\ p[1] <= Len(f)
        /\ \A k \in 1 .. Len(t[1]) : t[1][k] = f[p[1 - 1] + k]
        /\ t[1][1] # Pad
    BY <2>3, <2>5, <1>2, <1>6, <1>11, <1>12
  <2>7. /\ t[2] # <<>> /\ p[2] = p[2 - 1] + Len(t[2]) /\ p[2] <= Len(f)
        /\ \A k \in 1 .. Len(t[2]) : t[2][k] = f[p[2 - 1] + k]
        /\ t[2][1] # Pad
    <3>1. f[1 + 1] = v /\ f[1 + 2] = Pad
      BY <2>5, <1>12
    <3>2. \A k \in 1 .. 2 : y[k] = f[1 + k]
      BY <3>1, <2>5, <1>7
    <3>3. t[2] = y /\ p[2] = 3 /\ p[2 - 1] = 1 /\ Len(y) = 2 /\ y[1] # Pad /\ y # <<>>
      BY <2>3, <2>5, <1>3, <1>7, <1>11
    <3>. QED BY <3>2, <3>3, <2>5, <1>12
  <2>8. /\ t[3] # <<>> /\ p[3] = p[3 - 1] + Len(t[3]) /\ p[3] <= Len(f)
        /\ \A k \in 1 .. Len(t[3]) : t[3][k] = f[p[3 - 1] + k]
        /\ t[3][1] # Pad
    <3>1. f[3 + 1] = s /\ f[3 + 2] = Pad
      BY <2>5, <1>12
    <3>2. \A k \in 1 .. 2 : z[k] = f[3 + k]
      BY <3>1, <2>5, <1>8
    <3>3. t[3] = z /\ p[3] = 5 /\ p[3 - 1] = 3 /\ Len(z) = 2 /\ z[1] # Pad /\ z # <<>>
      BY <2>3, <2>5, <1>4, <1>8, <1>11
    <3>. QED BY <3>2, <3>3, <2>5, <1>12
  <2>9. ASSUME NEW j \in 1 .. n, NEW i, i = 3 + j
        PROVE  /\ t[i] # <<>> /\ p[i] = p[i - 1] + Len(t[i]) /\ p[i] <= Len(f)
               /\ \A k \in 1 .. Len(t[i]) : t[i][k] = f[p[i - 1] + k]
               /\ t[i][1] # Pad
    <3>1. PICK d : d = Datum(c, j, n) /\ d # Pad
      BY DatumIs
    <3>2. /\ t[i] = <<d>> /\ Len(<<d>>) = 1 /\ <<d>>[1] = d /\ <<d>> # <<>>
      BY <2>9, <3>1, <1>11
    <3>3. p[i] = 5 + j /\ p[i - 1] = 4 + j
      BY <2>3, <2>9
    <3>4. 5 + j = (4 + j) + 1 /\ 5 + j <= 5 + n
      BY <1>1
    <3>5. f[(4 + j) + 1] = d
      <4>1. f[5 + j] = d
        BY <3>1, <1>12
      <4>. QED BY <4>1, <3>4
    <3>. QED BY <3>1, <3>2, <3>3, <3>4, <3>5, <2>5, <1>12
  <2>10. ASSUME NEW i \in 1 .. Len(t)
         PROVE  /\ t[i] # <<>> /\ p[i] = p[i - 1] + Len(t[i]) /\ p[i] <= Len(f)
                /\ \A k \in 1 .. Len(t[i]) : t[i][k] = f[p[i - 1] + k]
                /\ t[i][1] # Pad
    <3>1. CASE i = 1
      BY <3>1, <2>6
    <3>2. CASE i = 2
      BY <3>2, <2>7
    <3>3. CASE i = 3
      BY <3>3, <2>8
    <3>4. CASE i > 3
      <4>1. PICK j \in 1 .. n : i = 3 + j
        <5>1. i - 3 \in 1 .. n /\ i = 3 + (i - 3)
          BY <3>4, <1>1, <1>11
        <5>. QED BY <5>1
      <4>. QED BY <4>1, <2>9
    <3>5. i = 1 \/ i = 2 \/ i = 3 \/ i > 3
      BY <1>1, <1>11
    <3>. QED BY <3>1, <3>2, <3>3, <3>4, <3>5
  <2>11. Cut(f, <<>>, t, p)
    BY <2>3, <2>4, <2>5, <2>10, <1>11, <1>12 DEF Cut
  <2>. QED BY <2>2, <2>11 DEF Cuttable
<1>14. FramedBy(c, "prompt", f)
  BY <1>2, <1>3, <1>4, <1>10, UploadFramed
<1>15. Request(c, "prompt", f, t)
  BY <1>2, <1>11, <1>12, <1>13, <1>14 DEF Request
<1>. QED BY <1>2, <1>6, <1>7, <1>8, <1>9, <1>11, <1>15
-----------------------------------------------------------------------------
(* The whole.                                                                *)

\* What a client wants does not change unless it gets (client.cpp:150).
LEMMA WishedSame ==
    ASSUME Core, NEW c \in Clients, NEW e, e # "ok", UNCHANGED want
    PROVE  Wished(c, e)
BY DEF Core, Typed, Wished, Wants

\* client.cpp:96: a list is asked for.
LEMMA LsHolds ==
    ASSUME Core, NEW c \in Clients, Ls(c)
    PROVE  Core'
<1>1. PICK w : w = Word(c, "ls")
  OBVIOUS
<1>2. w \in {"ls", "msg"} /\ Issue(c, <<<<Unit("cmd", w)>>>>, "list") /\ UNCHANGED want
  BY <1>1, WordIs DEF Ls
<1>3. Request(c, "list", <<Unit("cmd", w)>>, <<<<Unit("cmd", w)>>>>)
  BY <1>2, WordRequest
<1>4. Wished(c, "list")
  BY <1>2, WishedSame
<1>. QED BY <1>2, <1>3, <1>4, IssueHolds

\* client.cpp:191: a client says that it quits.
LEMMA QuitHolds ==
    ASSUME Core, NEW c \in Clients, Quit(c)
    PROVE  Core'
<1>1. PICK w : w = "quit"
  OBVIOUS
<1>2. Issue(c, <<<<Unit("cmd", w)>>>>, "quit") /\ UNCHANGED want
  BY <1>1, WordIs DEF Quit
<1>3. Request(c, "quit", <<Unit("cmd", w)>>, <<<<Unit("cmd", w)>>>>)
  BY <1>1, WordRequest
<1>4. Wished(c, "quit")
  BY <1>2, WishedSame
<1>. QED BY <1>2, <1>3, <1>4, IssueHolds

\* client.cpp:120: a file is put.
LEMMA PutHolds ==
    ASSUME Core, NEW c \in Clients, NEW a \in Files, NEW n \in Sizes, Put(c, a, n)
    PROVE  Core'
<1>1. PICK w \in {"put", "pic"} : w = Word(c, "put")
  BY WordIs
<1>2. PICK t : t = <<<<Unit("cmd", w)>>, Field("file", a), Field("size", n)>>
                     \o [i \in 1 .. n |-> <<Content(c, n)[i]>>]
  OBVIOUS
<1>3. Issue(c, t, "prompt") /\ UNCHANGED want
  BY <1>1, <1>2 DEF Put
<1>4. PICK f : Request(c, "prompt", f, t)
  BY <1>2, PutRequest
<1>5. Wished(c, "prompt")
  BY <1>3, WishedSame
<1>. QED BY <1>3, <1>4, <1>5, IssueHolds

\* client.cpp:150: a file is asked for.
LEMMA GetHolds ==
    ASSUME Core, NEW c \in Clients, NEW a \in Files, Get(c, a)
    PROVE  Core'
<1>1. PICK w \in {"get", "file"} : w = Word(c, "get")
  BY WordIs
<1>2. PICK t : t = <<<<Unit("cmd", w)>>, Field("file", a)>>
  OBVIOUS
<1>3. Issue(c, t, "ok") /\ want' = [want EXCEPT ![c] = [file |-> a, size |-> 0, total |-> 0]]
  BY <1>1, <1>2 DEF Get
<1>4. PICK f : Request(c, "ok", f, t)
  BY <1>2, GetRequest
<1>5. Wished(c, "ok")
  <2>1. want \in [Clients -> Wants]
    BY DEF Core, Typed, Wants
  <2>2. PICK x \in Wants : x = [file |-> a, size |-> 0, total |-> 0] /\ x.file = a /\ x.total = 0
    <3>1. [file |-> a, size |-> 0, total |-> 0] \in Wants
      BY DEF Wants
    <3>. QED BY <3>1
  <2>3. want' = [want EXCEPT ![c] = x]
    BY <1>3, <2>2
  <2>4. /\ want' \in [Clients -> Wants] /\ want'[c] = x
        /\ \A d \in Clients : d # c => want'[d] = want[d]
    BY <2>1, <2>3
  <2>. QED BY <2>2, <2>4 DEF Wished
<1>. QED BY <1>3, <1>4, <1>5, IssueHolds

\* A calm system was calm before: nobody finds the framing again, or comes back from the dead.
LEMMA CalmBefore ==
    ASSUME [SocketNext]_socketVars, Calm'
    PROVE  Calm
<1>1. astray \subseteq astray' /\ killed \subseteq killed'
  <2>1. ASSUME NEW n, NEW k, NEW lost, Take(n, k, lost) PROVE astray \subseteq astray'
    BY <2>1 DEF Take
  <2>2. ASSUME NEW c, NEW k, Takes(c, k) PROVE astray \subseteq astray'
    BY <2>2 DEF Takes
  <2>3. CASE ServerNext /\ UNCHANGED clientVars
    <3>1. UNCHANGED killed
      BY <2>3 DEF clientVars
    <3>2. ASSUME Hello \/ Command PROVE astray \subseteq astray'
      BY <2>1, <3>2 DEF Hello, Command, ReadNothing
    <3>3. ASSUME PicName PROVE astray \subseteq astray'
      <4>1. PICK k : ReadField("file", k, OpenForWriting, Files, Unopenable, None)
        BY <3>3 DEF PicName
      <4>. QED BY <2>1, <4>1 DEF ReadField, ReadNothing
    <3>4. ASSUME PicSize PROVE astray \subseteq astray'
      <4>1. PICK k : ReadField("size", k, ExpectBytes, Sizes, {}, 0)
        BY <3>4 DEF PicSize
      <4>. QED BY <2>1, <4>1 DEF ReadField, ReadNothing
    <3>5. ASSUME FileName PROVE astray \subseteq astray'
      <4>1. PICK k : ReadField("file", k, SendFile, Files, {}, None)
        BY <3>5 DEF FileName
      <4>. QED BY <2>1, <4>1 DEF ReadField, ReadNothing
    <3>6. ASSUME PicData PROVE astray \subseteq astray'
      BY <2>1, <3>6 DEF PicData
    <3>7. ASSUME Accept \/ Select \/ NextFd \/ PicReset PROVE astray \subseteq astray'
      BY <3>7 DEF Accept, Select, NextFd, PicReset
    <3>. QED BY <2>3, <3>1, <3>2, <3>3, <3>4, <3>5, <3>6, <3>7 DEF ServerNext, Serve
  <2>4. ASSUME NEW c \in Clients, Read(c) PROVE astray \subseteq astray' /\ UNCHANGED killed
    BY <2>2, <2>4 DEF Read, ReadVerdict, ReadList, ReadOk, ReadSize, ReadData, NothingTaken
  <2>5. ASSUME NEW c \in Clients, Kill(c) PROVE astray \subseteq astray' /\ killed \subseteq killed'
    BY <2>5 DEF Kill, serverOnly
  <2>6. ASSUME NEW c \in Clients, Proceed(c) \/ User(c), ~ Read(c) PROVE UNCHANGED <<astray, killed>>
    BY <2>6 DEF Proceed, User, SendName, Write, Close, Connect, Ls, Quit, Get, Put, Issue, serverOnly
  <2>7. CASE UNCHANGED socketVars
    BY <2>7 DEF socketVars, serverVars, clientVars
  <2>. QED BY <2>3, <2>4, <2>5, <2>6, <2>7 DEF SocketNext
<1>. QED BY <1>1 DEF Calm

\* Every step keeps what is said of a calm system.
LEMMA FrameHolds == FrameInv /\ NamesInv /\ [SocketNext]_socketVars => FrameInv'
<1>. SUFFICES ASSUME FrameInv, NamesInv, [SocketNext]_socketVars, Calm' PROVE Core'
  BY DEF FrameInv
<1>1. Core /\ astray' = {} /\ killed' = {}
  BY CalmBefore DEF FrameInv, Calm
<1>2. CASE ServerNext /\ UNCHANGED clientVars
  BY <1>1, <1>2, ServerHolds
<1>3. ASSUME NEW c \in Clients, Proceed(c) PROVE Core'
  BY <1>1, <1>3, SendNameHolds, WriteHolds, ReadHolds, CloseHolds DEF Proceed
<1>4. ASSUME NEW c \in Clients, User(c) PROVE Core'
  BY <1>1, <1>4, ConnectHolds, LsHolds, QuitHolds, GetHolds, PutHolds DEF User
<1>5. ASSUME NEW c \in Clients, Kill(c) PROVE FALSE
  BY <1>1, <1>5 DEF Kill
<1>6. CASE UNCHANGED socketVars
  <2>1. /\ UNCHANGED <<backlog, c2s, s2c, gone, owner, rset, usernames, copy, at, cur, job>>
        /\ UNCHANGED <<disk, last, pc, todo, want, got>>
    BY <1>6 DEF socketVars, serverVars, clientVars, streams, table
  <2>2. Typed' /\ Descriptors' /\ Receiving' /\ Cause'
    BY <1>1, <2>1 DEF Core, Typed, Descriptors, Receiving, Cause, Peer
  <2>3. ASSUME NEW c \in Clients PROVE Answers(c)' /\ Placed(c)'
    <3>1. Answers(c) /\ Placed(c)
      BY <1>1 DEF Core
    <3>. QED BY <2>1, <3>1, OthersFrame
  <2>. QED BY <2>2, <2>3 DEF Core
<1>. QED BY <1>2, <1>3, <1>4, <1>5, <1>6 DEF SocketNext

\* It holds when nobody has come (server.cpp:63).
LEMMA FrameInit == SocketInit => FrameInv
<1>. SUFFICES ASSUME SocketInit PROVE Core
  BY DEF FrameInv
<1>1. /\ backlog = <<>> /\ c2s = [c \in Clients |-> <<>>] /\ s2c = [c \in Clients |-> <<>>]
      /\ gone = {} /\ owner = [fd \in Fds |-> None] /\ rset = {} /\ copy = {} /\ at = "loop"
      /\ job = [file |-> None, size |-> 0, total |-> 0]
      /\ disk = [f \in Files |-> None]
      /\ pc = [c \in Clients |-> "start"] /\ todo = [c \in Clients |-> <<>>]
      /\ want = [c \in Clients |-> [file |-> None, size |-> 0, total |-> 0]]
      /\ got = [c \in Clients |-> [f \in Files |-> None]]
  BY DEF SocketInit, ServerInit
<1>2. None \notin Clients
  BY SocketAssumption
<1>3. Typed
  <2>1. <<>> \in Seq(Units) /\ <<>> \in Seq(Seq(Units)) /\ <<>> \in Seq(Clients)
    OBVIOUS
  <2>2. "start" \in Places
    BY DEF Places
  <2>. QED BY <1>1, <2>1, <2>2 DEF Typed
<1>4. Descriptors
  <2>1. \A fd \in Fds : owner[fd] = None
    BY <1>1
  <2>2. Len(<<>>) = 0 /\ 1 .. 0 = {}
    OBVIOUS
  <2>. QED BY <1>1, <1>2, <2>1, <2>2 DEF Descriptors, Uploads
<1>5. Receiving /\ Cause
  BY <1>1 DEF Receiving, Cause
<1>6. ASSUME NEW c \in Clients PROVE Answers(c) /\ Placed(c)
  <2>1. pc[c] = "start" /\ s2c[c] = <<>> /\ c2s[c] = <<>> /\ todo[c] = <<>>
    BY <1>1
  <2>2. Answers(c)
    BY <1>1, <2>1 DEF Answers
  <2>3. ~ Queued(c) /\ Absent(c) /\ ~ Registered(c)
    BY <1>1, <1>2 DEF Queued, Absent, Registered
  <2>. QED BY <1>1, <2>1, <2>2, <2>3 DEF Placed
<1>. QED BY <1>3, <1>4, <1>5, <1>6 DEF Core

\* As long as every read returns a whole field and nobody is killed, a file is at either end
\* what one client put in one upload (server.cpp:180, client.cpp:174), for any number of
\* clients, files and sizes, and however the data are cut.
THEOREM FilesArriveWhole == SocketSpec => []TransfersWhole
<1>1. SocketInit => NamesInv /\ FrameInv
  BY NamesInit, FrameInit
<1>2. NamesInv /\ FrameInv /\ [SocketNext]_socketVars => (NamesInv /\ FrameInv)'
  BY NamesHold, FrameHolds
<1>3. NamesInv /\ FrameInv => TransfersWhole
  <2>. SUFFICES ASSUME FrameInv, Calm
                PROVE  /\ at # "pic_size" /\ at # "pic_data" => \A f \in Files : disk[f] \in Whole \cup {None}
                       /\ \A c \in Clients : pc[c] = "prompt" =>
                            \A f \in Files : got[c][f] \in Whole \cup {None}
    BY DEF TransfersWhole
  <2>1. Receiving /\ \A c \in Clients : Answers(c)
    BY DEF FrameInv, Core
  <2>. QED BY <2>1 DEF Receiving, Answers
<1>. QED BY <1>1, <1>2, <1>3, PTL DEF SocketSpec

\* The server ends by the table, or by a word it does not know (server.cpp:234), unless a
\* field was cut or a client killed: a command is always read where one begins.
THEOREM ExitsHaveCauses == SocketSpec => []ExitHasCause
<1>1. SocketInit => NamesInv /\ FrameInv
  BY NamesInit, FrameInit
<1>2. NamesInv /\ FrameInv /\ [SocketNext]_socketVars => (NamesInv /\ FrameInv)'
  BY NamesHold, FrameHolds
<1>3. NamesInv /\ FrameInv => ExitHasCause
  BY DEF FrameInv, Core, Cause, ExitHasCause
<1>. QED BY <1>1, <1>2, <1>3, PTL DEF SocketSpec
=============================================================================
