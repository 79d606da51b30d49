----------------------------- MODULE SocketServer -----------------------------
(***************************************************************************)
(* The select loop of server.cpp, which runs where execlp (line 262) finds  *)
(* no python3.  One thread accepts, greets, lists, receives and sends:      *)
(* "at" is the call it blocks in, and everybody else waits meanwhile.       *)
(*                                                                          *)
(* A connection is two streams of units.  A field of the protocol that is   *)
(* written from a large buffer is BUFSIZE units, of which the first holds   *)
(* the text: a read may return a part of it only, and the code takes what   *)
(* it gets for the whole.  Writes never block; a read at the end of the     *)
(* stream, or of a connection that was reset, leaves its buffer as it was.  *)
(***************************************************************************)
EXTENDS Integers, Sequences, FiniteSets

CONSTANTS
    Clients,        \* each connects once
    Names,          \* what a client may call itself
    Files,          \* names of files
    Unopenable,     \* those that fopen refuses to write
    Remote,         \* clients over a link that may cut a field in two
    None,
    FirstFd,        \* listen_fd + 1
    ROTATE_SIZE,    \* 10: descriptors from here on are skipped
    SLOTS,          \* 100: the size of usernames
    Sizes           \* of the files, in units

NoName == "anonymous"   \* the empty string
BUFSIZE == 2

ASSUME SocketAssumption ==
    /\ IsFiniteSet(Clients) /\ None \notin Clients \cup Files
    /\ NoName \notin Names /\ Unopenable \subseteq Files /\ Remote \subseteq Clients
    /\ FirstFd \in Nat /\ ROTATE_SIZE \in Nat
    /\ SLOTS \in Nat \ {0} /\ Sizes \subseteq Nat /\ 0 \in Sizes

VARIABLES
    backlog,    \* connected, not accepted yet
    c2s, s2c,   \* what is on its way from, and to, a client
    gone,       \* clients whose end is closed
    owner,      \* the client behind a descriptor, or None
    rset,       \* descriptors select waits for, beside listen_fd
    copy,       \* those of rsetCopy the for loop has still to look at
    at,         \* where the thread is
    cur,        \* conn_fd
    usernames,  \* the first user_count slots
    job,        \* the upload in hand: filename, file_size, and total as a length
    disk,       \* server_dir: the contents of a file, or None
    last,       \* what the array command holds
    astray      \* history: clients of whom one side has lost the framing

streams == <<c2s, s2c, gone>>
table   == <<owner, rset, usernames>>
serverVars == <<backlog, streams, table, copy, at, cur, job, disk, last, astray>>

Fds == FirstFd .. (FirstFd + Cardinality(Clients) - 1)
Commands == {"msg", "pic", "file", "quit"}
Waiting  == {"hello", "command", "pic_name", "pic_size", "pic_data", "file_name"}

Unit(is, val) == [is |-> is, val |-> val]
Pad == Unit("pad", None)
Field(is, val) == <<Unit(is, val), Pad>>

ServerInit ==
    /\ backlog = <<>>
    /\ c2s = [c \in Clients |-> <<>>] /\ s2c = [c \in Clients |-> <<>>]
    /\ gone = {}
    /\ owner = [fd \in Fds |-> None] /\ rset = {} /\ copy = {}
    /\ at = "loop" /\ cur = FirstFd
    /\ usernames = <<>>
    /\ job = [file |-> None, size |-> 0, total |-> 0]
    /\ disk = [f \in Files |-> None]
    /\ last = "garbage"
    /\ astray = {}

-----------------------------------------------------------------------------
\* Reads and writes on the connection in hand.

Peer == owner[cur]

Prefix(s, k) == SubSeq(s, 1, k)
Rest(s, k) == SubSeq(s, k + 1, Len(s))

\* How much of stream s one read of n units may return.
Lengths(c, s, n) ==
    {k \in 1 .. n : k <= Len(s) /\ (k < n /\ k < Len(s) => c \in Remote)}

Least(S) == CHOOSE n \in S : \A m \in S : n <= m

\* read(conn_fd, buf, n) when something has arrived: the first k units.
Take(n, k, lost) ==
    /\ k \in Lengths(Peer, c2s[Peer], n)
    /\ c2s' = [c2s EXCEPT ![Peer] = Rest(@, k)]
    /\ astray' = IF lost \/ (c2s'[Peer] # <<>> /\ Head(c2s'[Peer]).is = "pad")
               THEN astray \cup {Peer} ELSE astray

\* read returns 0, or -1: nothing more will come.
Ended == c2s[Peer] = <<>> /\ Peer \in gone

ReadNothing == Ended /\ UNCHANGED <<c2s, astray>>

\* write(conn_fd, ...), and on to next: SIGPIPE ends a server whose peer is gone.
Reply(units, next) ==
    \/ /\ s2c' = IF Peer \in gone THEN s2c ELSE [s2c EXCEPT ![Peer] = @ \o units]
       /\ at' = next
    \/ /\ Peer \in gone /\ at' = "exit" /\ UNCHANGED s2c

-----------------------------------------------------------------------------
\* select and the handshake of a newcomer.

Readable(fd) == c2s[owner[fd]] # <<>> \/ owner[fd] \in gone

\* The for loop is over: the thread is at select.
Selecting == at = "loop" /\ copy = {}

\* A newcomer comes first: the descriptors that were readable too wait.
Accept ==
    /\ Selecting /\ backlog # <<>>
    /\ LET fd == Least({d \in Fds : owner[d] = None}) IN
        /\ owner' = [owner EXCEPT ![fd] = Head(backlog)]
        /\ cur' = fd
    /\ backlog' = Tail(backlog)
    /\ at' = "hello"
    /\ UNCHANGED <<streams, rset, usernames, copy, job, disk, last, astray>>

Select ==
    /\ Selecting /\ backlog = <<>>
    /\ copy' = {fd \in rset : Readable(fd)}
    /\ copy' # {}
    /\ UNCHANGED <<backlog, streams, table, at, cur, job, disk, last, astray>>

\* The scan of usernames: it stops at SLOTS, and a name is stored in the slot
\* user_count while the next slot is allocated, one past the array for the last.
Taken_ButLast(n) == \E i \in DOMAIN usernames : i < Len(usernames) /\ usernames[i] = n
Taken(n) == \E i \in DOMAIN usernames : usernames[i] = n

Register(n) ==
    /\ usernames' = Append(usernames, n)
    /\ rset' = rset \cup {cur}
    /\ \/ Reply(<<Unit("verdict", "connect successfully")>>, "loop")
       \/ Len(usernames) + 1 >= SLOTS /\ at' = "exit" /\ UNCHANGED s2c

Verdict(n) ==
    \/ Taken(n) /\ Reply(<<Unit("verdict", "in used")>>, "hello") /\ UNCHANGED <<rset, usernames>>
    \/ ~Taken(n) /\ Len(usernames) <= SLOTS /\ Register(n)
    \/ /\ ~Taken(n) /\ Len(usernames) > SLOTS
       /\ Reply(<<Unit("verdict", "")>>, "hello") /\ UNCHANGED <<rset, usernames>>

Hello ==
    /\ at = "hello"
    /\ \/ c2s[Peer] # <<>> /\ Take(1, 1, FALSE) /\ Verdict(Head(c2s[Peer]).val)
       \/ ReadNothing /\ Verdict(NoName)
    /\ UNCHANGED <<backlog, gone, owner, copy, cur, job, disk, last>>

-----------------------------------------------------------------------------
\* The for loop over the descriptors; playing is never set.

NextFd_OffByOne ==
    /\ at = "loop" /\ copy # {}
    /\ copy' = copy \ {Least(copy)}
    /\ IF Least(copy) >= ROTATE_SIZE - 1
       THEN UNCHANGED <<at, cur>>
       ELSE at' = "command" /\ cur' = Least(copy)
    /\ UNCHANGED <<backlog, streams, table, job, disk, last, astray>>

NextFd ==
    /\ at = "loop" /\ copy # {}
    /\ copy' = copy \ {Least(copy)}
    /\ IF Least(copy) >= ROTATE_SIZE
       THEN UNCHANGED <<at, cur>>
       ELSE at' = "command" /\ cur' = Least(copy)
    /\ UNCHANGED <<backlog, streams, table, job, disk, last, astray>>

Obey(w) ==
    /\ last' = w
    /\ \/ /\ w = "msg"
          /\ Reply(Field("list", {f \in Files : disk[f] # None}), "loop")
          /\ UNCHANGED <<owner, rset>>
       \/ w = "pic" /\ at' = "pic_name" /\ UNCHANGED <<s2c, owner, rset>>
       \/ w = "file" /\ at' = "file_name" /\ UNCHANGED <<s2c, owner, rset>>
       \/ /\ w = "quit"
          /\ rset' = rset \ {cur} /\ owner' = [owner EXCEPT ![cur] = None]
          /\ at' = "loop" /\ UNCHANGED s2c
       \/ w \notin Commands /\ at' = "exit" /\ UNCHANGED <<s2c, owner, rset>>

\* A peer that has gone without a quit leaves the command of before, or what
\* else the stack holds.
Command ==
    /\ at = "command"
    /\ \/ /\ c2s[Peer] # <<>> /\ Take(1, 1, FALSE)
          /\ LET u == Head(c2s[Peer]) IN Obey(IF u.is = "cmd" THEN u.val ELSE "garbage")
       \/ ReadNothing /\ \E w \in {last, "garbage"} : Obey(w)
    /\ UNCHANGED <<backlog, gone, usernames, copy, cur, job, disk>>

\* A field read in one call, k units of it; what it says is used at once.
\* What the code does with a value of Stray leaves the rest of the request unread.
ReadField(is, k, Use(_), Stale, Stray, missing) ==
    \/ /\ c2s[Peer] # <<>>
       /\ LET u == Head(c2s[Peer])
              v == IF u.is = is THEN u.val ELSE missing
          IN  Take(BUFSIZE, k, v \in Stray) /\ Use(v)
    \/ ReadNothing /\ \E v \in Stale : Use(v)

-----------------------------------------------------------------------------
\* "pic": the upload of a file.

\* A file that cannot be opened: the loop goes on to the next descriptor, and
\* what is left of the request will be read as commands.
OpenForWriting(f) ==
    \/ /\ f \in Unopenable \cup {None} /\ at' = "loop" /\ UNCHANGED <<disk, job>>
    \/ /\ f \in Files \ Unopenable
       /\ disk' = [disk EXCEPT ![f] = <<>>]
       /\ job' = [job EXCEPT !.file = f]
       /\ at' = "pic_size"

PicName ==
    /\ at = "pic_name"
    /\ \E k \in 1 .. BUFSIZE : ReadField("file", k, OpenForWriting, Files, Unopenable, None)
    /\ UNCHANGED <<backlog, s2c, gone, table, copy, cur, last>>

ExpectBytes_OneLess(n) ==
    job' = [job EXCEPT !.size = IF n = 0 THEN 0 ELSE n - 1, !.total = 0] /\ at' = "pic_data"
ExpectBytes(n) == job' = [job EXCEPT !.size = n, !.total = 0] /\ at' = "pic_data"

PicSize ==
    /\ at = "pic_size"
    /\ \E k \in 1 .. BUFSIZE : ReadField("size", k, ExpectBytes, Sizes, {}, 0)
    /\ UNCHANGED <<backlog, s2c, gone, table, copy, cur, disk, last>>

\* How much read asks for: never more than what is left of this file.
Wanted_Always == BUFSIZE
Wanted == IF job.size - job.total < BUFSIZE THEN job.size - job.total ELSE BUFSIZE

\* At the end of the stream the loop goes round for ever without a step.
PicData ==
    /\ at = "pic_data"
    /\ \/ job.size = job.total /\ UNCHANGED <<c2s, disk, job, astray>> /\ at' = "loop"
       \/ \E k \in 1 .. Wanted :
            /\ Take(Wanted, k, FALSE)
            /\ disk' = [disk EXCEPT ![job.file] = @ \o Prefix(c2s[Peer], k)]
            /\ job' = [job EXCEPT !.total = @ + k]
            /\ at' = IF job.total + k = job.size THEN "loop" ELSE at
    /\ UNCHANGED <<backlog, s2c, gone, table, copy, cur, last>>

\* A reset: read returns -1, and fwrite is told to write that many bytes.
PicReset ==
    /\ at = "pic_data" /\ job.size # job.total /\ Ended
    /\ at' = "exit"
    /\ UNCHANGED <<backlog, streams, table, copy, cur, job, disk, last, astray>>

-----------------------------------------------------------------------------
\* "file": the download.

SendFile(f) ==
    IF f = None \/ disk[f] = None THEN Reply(Field("no", None), "loop")
    ELSE Reply(Field("ok", None) \o Field("size", Len(disk[f])) \o disk[f], "loop")

FileName ==
    /\ at = "file_name"
    /\ \E k \in 1 .. BUFSIZE : ReadField("file", k, SendFile, Files, {}, None)
    /\ UNCHANGED <<backlog, gone, table, copy, cur, job, disk, last>>

-----------------------------------------------------------------------------
Serve ==
    \/ Accept \/ Select \/ Hello \/ NextFd
    \/ Command \/ PicName \/ PicSize \/ PicData \/ FileName

ServerNext == Serve \/ PicReset

=============================================================================
