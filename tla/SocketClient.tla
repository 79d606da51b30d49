----------------------------- MODULE SocketClient -----------------------------
(***************************************************************************)
(* The programs of client.cpp that talk to the server of SocketServer: each *)
(* connects, finds a name, and then lists, puts and gets files until it     *)
(* quits or is killed.  client.cpp sends the words "ls", "put" and "get",   *)
(* which server.cpp does not know: its own words are those of the clients   *)
(* in adapted, which are otherwise the same program.                        *)
(***************************************************************************)
EXTENDS SocketServer

CONSTANTS
    Builds,         \* the sets of clients that may have the words of server.cpp
    MaxAsks,        \* bound: names and commands the clients send
    Mortal          \* bound: clients that may be killed

ASSUME ClientAssumption ==
    Builds \subseteq SUBSET Clients /\ MaxAsks \in Nat /\ Mortal \subseteq Clients

VARIABLES
    adapted,    \* those that have
    pc,         \* where each client is
    todo,       \* the writes it has still to make
    want,       \* the file it gets, and the size it was told
    got,        \* client_dir: what a get has written
    asks,       \* how many names and commands were sent
    killed      \* clients that went without a quit

clientVars == <<adapted, pc, todo, want, got, asks, killed>>
socketVars == <<serverVars, clientVars>>

Word(c, w) ==
    CASE c \notin adapted \/ w = "quit" -> w
      [] w = "ls" -> "msg"
      [] w = "put" -> "pic"
      [] w = "get" -> "file"

\* A file of n units of c.
Content(c, n) == [i \in 1 .. n |-> Unit("data", <<c, i, n>>)]
Whole == {Content(c, n) : c \in Clients, n \in Sizes}

SocketInit ==
    /\ ServerInit
    /\ adapted \in Builds
    /\ pc = [c \in Clients |-> "start"] /\ todo = [c \in Clients |-> <<>>]
    /\ want = [c \in Clients |-> [file |-> None, size |-> 0, total |-> 0]]
    /\ got = [c \in Clients |-> [f \in Files |-> None]]
    /\ asks = 0
    /\ killed = {}

-----------------------------------------------------------------------------
serverOnly == <<owner, rset, usernames, copy, at, cur, job, disk, last, astray>>
Up == at # "exit"

Goto(c, where) == pc' = [pc EXCEPT ![c] = where]
Counted == asks < MaxAsks /\ asks' = asks + 1

\* A client that finds no server fails at its first write.
Connect(c) ==
    /\ pc[c] = "start" /\ Up
    /\ backlog' = Append(backlog, c)
    /\ Goto(c, "naming")
    /\ UNCHANGED <<streams, serverOnly, todo, want, got, asks, killed, adapted>>

SendName(c, n) ==
    /\ pc[c] = "naming" /\ Up /\ Counted
    /\ c2s' = [c2s EXCEPT ![c] = Append(@, Unit("name", n))]
    /\ Goto(c, "verdict")
    /\ UNCHANGED <<backlog, s2c, gone, serverOnly, todo, want, got, killed, adapted>>

\* The writes of one command, in order, and what the client does after them.
Issue(c, units, where) ==
    /\ pc[c] = "prompt" /\ todo[c] = <<>> /\ Up /\ Counted
    /\ todo' = [todo EXCEPT ![c] = units]
    /\ Goto(c, where)
    /\ UNCHANGED <<backlog, streams, serverOnly, got, killed, adapted>>

Ls(c) == Issue(c, <<<<Unit("cmd", Word(c, "ls"))>>>>, "list") /\ UNCHANGED want

Put(c, f, n) ==
    /\ Issue(c, <<<<Unit("cmd", Word(c, "put"))>>, Field("file", f), Field("size", n)>>
                \o [i \in 1 .. n |-> <<Content(c, n)[i]>>], "prompt")
    /\ UNCHANGED want

Get(c, f) ==
    /\ Issue(c, <<<<Unit("cmd", Word(c, "get"))>>, Field("file", f)>>, "ok")
    /\ want' = [want EXCEPT ![c] = [file |-> f, size |-> 0, total |-> 0]]

Quit(c) == Issue(c, <<<<Unit("cmd", Word(c, "quit"))>>>>, "quit") /\ UNCHANGED want

Write(c) ==
    /\ todo[c] # <<>> /\ Up
    /\ c2s' = [c2s EXCEPT ![c] = @ \o Head(todo[c])]
    /\ todo' = [todo EXCEPT ![c] = Tail(@)]
    /\ UNCHANGED <<backlog, s2c, gone, serverOnly, pc, want, got, asks, killed, adapted>>

-----------------------------------------------------------------------------
\* What comes back.  A server that has exited leaves the end of the stream.

Takes(c, k) ==
    /\ k \in Lengths(c, s2c[c], BUFSIZE)
    /\ s2c' = [s2c EXCEPT ![c] = Rest(@, k)]
    /\ astray' = IF s2c'[c] # <<>> /\ Head(s2c'[c]).is = "pad" THEN astray \cup {c} ELSE astray

NothingTaken(c) == ~Up /\ s2c[c] = <<>> /\ UNCHANGED <<s2c, astray>>

ReadVerdict(c) ==
    /\ pc[c] = "verdict" /\ s2c[c] # <<>> /\ Takes(c, 1)
    /\ Goto(c, IF Head(s2c[c]).val = "connect successfully" THEN "prompt" ELSE "naming")
    /\ UNCHANGED <<want, got>>

ReadList(c) ==
    /\ pc[c] = "list"
    /\ (\E k \in 1 .. BUFSIZE : Takes(c, k)) \/ NothingTaken(c)
    /\ Goto(c, "prompt")
    /\ UNCHANGED <<want, got>>

\* Anything but "NO" is taken for "OK", and the local file is emptied.
ReadOk(c) ==
    /\ pc[c] = "ok" /\ todo[c] = <<>>
    /\ \/ /\ s2c[c] # <<>> /\ Head(s2c[c]).is = "no"
          /\ \E k \in 1 .. BUFSIZE : Takes(c, k)
          /\ Goto(c, "prompt") /\ UNCHANGED got
       \/ /\ \/ s2c[c] # <<>> /\ Head(s2c[c]).is # "no" /\ \E k \in 1 .. BUFSIZE : Takes(c, k)
             \/ NothingTaken(c)
          /\ Goto(c, "size") /\ got' = [got EXCEPT ![c][want[c].file] = <<>>]
    /\ UNCHANGED want

ReadSize(c) ==
    /\ pc[c] = "size"
    /\ \/ /\ \E k \in 1 .. BUFSIZE : Takes(c, k)
          /\ want' = [want EXCEPT ![c].size = IF Head(s2c[c]).is = "size" THEN Head(s2c[c]).val ELSE 0]
       \/ NothingTaken(c) /\ \E n \in Sizes : want' = [want EXCEPT ![c].size = n]
    /\ Goto(c, "data")
    /\ UNCHANGED got

\* The loop reads before it compares, and reads as much as there is.
ReadData(c) ==
    /\ pc[c] = "data"
    /\ \/ \E k \in 1 .. BUFSIZE :
            /\ Takes(c, k)
            /\ got' = [got EXCEPT ![c][want[c].file] = @ \o Prefix(s2c[c], k)]
            /\ want' = [want EXCEPT ![c].total = @ + k]
       \/ NothingTaken(c) /\ UNCHANGED <<got, want>>
    /\ Goto(c, IF want'[c].total = want[c].size THEN "prompt" ELSE "data")

Read(c) ==
    /\ ReadVerdict(c) \/ ReadList(c) \/ ReadOk(c) \/ ReadSize(c) \/ ReadData(c)
    /\ UNCHANGED <<backlog, c2s, gone, table, copy, at, cur, job, disk, last, todo, asks, killed, adapted>>

-----------------------------------------------------------------------------
\* Its end: close after "quit", or a kill, which may lose what was on its way
\* (bound: none where a field has been cut already).

Close(c) ==
    /\ pc[c] = "quit" /\ todo[c] = <<>>
    /\ Goto(c, "gone") /\ gone' = gone \cup {c}
    /\ UNCHANGED <<backlog, c2s, s2c, serverOnly, todo, want, got, asks, killed, adapted>>

Kill(c) ==
    /\ c \in Mortal /\ astray = {} /\ pc[c] \notin {"start", "gone"}
    /\ Goto(c, "gone") /\ gone' = gone \cup {c} /\ killed' = killed \cup {c}
    /\ todo' = [todo EXCEPT ![c] = <<>>]
    /\ c2s' \in {c2s, [c2s EXCEPT ![c] = <<>>]}
    /\ UNCHANGED <<backlog, s2c, serverOnly, want, got, asks, adapted>>

-----------------------------------------------------------------------------
\* What a client does when it can; Kill, and what a user does at a prompt, may
\* never come, except that who is asked for a name types one.
Proceed(c) == (\E n \in Names : SendName(c, n)) \/ Write(c) \/ Read(c) \/ Close(c)

User(c) ==
    \/ Connect(c) \/ Ls(c) \/ Quit(c)
    \/ \E f \in Files : Get(c, f) \/ \E n \in Sizes : Put(c, f, n)

SocketNext ==
    \/ ServerNext /\ UNCHANGED clientVars
    \/ \E c \in Clients : Proceed(c) \/ User(c) \/ Kill(c)

SocketSpec == SocketInit /\ [][SocketNext]_socketVars
SocketFair ==
    /\ SocketSpec
    /\ WF_socketVars(Serve /\ UNCHANGED clientVars)
    /\ \A c \in Clients : WF_socketVars(Proceed(c))

-----------------------------------------------------------------------------
Calm == astray = {} /\ killed = {}

\* No two connections are told that one name is theirs (server.cpp:93), those
\* included whose name was never sent, and of those that came after the table
\* was full.
UniqueNames ==
    \A i, j \in DOMAIN usernames : i # j => usernames[i] # usernames[j]

\* As long as every read has returned a whole field and nobody was killed, a
\* file is, at either end and however its data were cut, what one client put
\* in one upload (server.cpp:180, client.cpp:174).
TransfersWhole ==
    Calm => /\ at # "pic_size" /\ at # "pic_data" => \A f \in Files : disk[f] \in Whole \cup {None}
            /\ \A c \in Clients : pc[c] = "prompt" =>
                 \A f \in Files : got[c][f] \in Whole \cup {None}

\* What ends the server: a client that it has lost the framing with or that
\* was killed, a full table, or a word of client.cpp that it does not know
\* (server.cpp:234).  Otherwise a command is always read where one begins.
ExitHasCause ==
    at = "exit" => \/ ~Calm \/ Len(usernames) >= SLOTS
                   \/ last \in {"ls", "put", "get"}

Waits(c) == pc[c] \in {"verdict", "list", "ok", "size", "data"}

\* Why a client may wait for ever: the server is gone; the framing is lost or
\* somebody was killed; its descriptor is past ROTATE_SIZE (server.cpp:130);
\* the file it gets is empty (client.cpp:175); or the thread waits for a
\* newcomer who types no other name (server.cpp:88).
Excused(c) ==
    \/ ~Up \/ ~Calm
    \/ \E fd \in Fds : owner[fd] = c /\ fd >= ROTATE_SIZE
    \/ pc[c] = "data" /\ want[c].size = 0
    \/ at = "hello" /\ pc[Peer] = "naming" /\ asks = MaxAsks

\* Whoever waits for an answer gets it, one of the excuses apart: the one
\* thread comes round to everybody, whatever the others send meanwhile.
Answered == \A c \in Clients : []<>(Waits(c) => Excused(c))

=============================================================================
