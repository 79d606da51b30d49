----------------------------- MODULE CrowWebSocket -----------------------------
(***************************************************************************)
(* WebSocket connections (websocket.h) under the chat of example_ws.cpp,    *)
(* which sends every message to everybody in users.  The server is          *)
(* multithreaded: each connection here is on an io_service, and so on a     *)
(* thread, of its own, whose handlers run one after the other.  What the    *)
(* handlers of the application do is done under one mutex, and is one step. *)
(*                                                                          *)
(* A method is an operator from the state at its call to the state at its   *)
(* return.  A frame is read in pieces.  Its length and its mask are read    *)
(* with async_read, which waits for all of it; its header and its payload   *)
(* with async_read_some, which does not.                                    *)
(***************************************************************************)
EXTENDS Integers, Sequences, FiniteSets

CONSTANTS
    Conns,      \* each is opened once
    MaxSends,   \* bound: messages, pings and calls of close
    Loads       \* bound: units in a frame

ASSUME WsAssumption == IsFiniteSet(Conns) /\ MaxSends \in Nat /\ Loads \subseteq Nat

VARIABLES
    ws,         \* the state of the server
    in,         \* the frames that are on their way to a connection
    got,        \* what a client has received
    said,       \* history: the messages a client has sent, whole
    handed,     \* history: what message_handler_ was called with
    ended,      \* clients that have sent a close frame
    hung,       \* clients that are gone
    pieces,     \* history: clients that have sent a message in two frames
    cut,        \* history: clients a header of which arrived in two parts
    kicked,     \* history: clients that the application has closed
    sends       \* how many messages, pings and calls of close there were

clientVars == <<said, ended, pieces, kicked, sends>>
wsVars == <<ws, in, got, handed, hung, cut, clientVars>>

Ops == {"text", "binary", "continuation", "close", "ping", "pong"}
Units == Seq(Conns \X Nat)
Frame == [op : Ops, fin : BOOLEAN, ext : BOOLEAN, load : Units]
NoFrame == [op |-> "pong", fin |-> TRUE, ext |-> FALSE, load |-> <<>>]

\* What is written: a frame, or the answer to the upgrade.
Item(is, by, load) == [is |-> is, by |-> by, load |-> load]

\* The members of Connection.
Fresh ==
    [state |-> "free",      \* not made yet, "live" or "deleted"
     open |-> FALSE,        \* adaptor_.is_open()
     at |-> "header",       \* state_: "header", "length", "mask" or "payload"
     frame |-> NoFrame,     \* mini_header_, and the rest of that frame
     left |-> 0,            \* remaining_length_
     fragment |-> <<>>, message |-> <<>>,
     sending |-> <<>>, queue |-> <<>>,      \* sending_buffers_, write_buffers_
     reading |-> FALSE, closing |-> FALSE,
     sentClose |-> FALSE, recvClose |-> FALSE,
     called |-> FALSE]      \* is_close_handler_called_

\* A handler in the queue of an io_service; n is the units a payload read got.
Event(what, ok, n, item) == [what |-> what, ok |-> ok, n |-> n, item |-> item]
NoItem == Item("none", "nobody", <<>>)
Result(what, ok) == Event(what, ok, 0, NoItem)

Post(s, k, event) == [s EXCEPT !.ready[k] = Append(@, event)]

-----------------------------------------------------------------------------
\* The adaptor.

Aborted(s, k) ==
    (IF k \in s.reads THEN <<Result("read", FALSE)>> ELSE <<>>)
    \o (IF k \in s.writes THEN <<Result("write", FALSE)>> ELSE <<>>)

CloseAdaptor(s, k) ==
    [s EXCEPT !.conn[k].open = FALSE, !.reads = @ \ {k}, !.writes = @ \ {k},
              !.ready[k] = @ \o Aborted(s, k)]

\* A read of nothing, the payload of an empty frame, is done at once.
do_read(s, k) ==
    LET t == [s EXCEPT !.conn[k].reading = TRUE] IN
    IF ~s.conn[k].open THEN Post(t, k, Result("read", FALSE))
    ELSE IF s.conn[k].at = "payload" /\ s.conn[k].left = 0 THEN Post(t, k, Result("read", TRUE))
    ELSE [t EXCEPT !.reads = @ \cup {k}]

\* Mutant of do_write: the queue is copied, not swapped.
do_write_Copies(s, k) ==
    LET t == [s EXCEPT !.conn[k].sending = s.conn[k].queue] IN
    IF s.conn[k].sending # <<>> THEN s
    ELSE IF s.conn[k].open THEN [t EXCEPT !.writes = @ \cup {k}]
    ELSE Post(t, k, Result("write", FALSE))

\* All that is queued goes into one write, when none is pending.
do_write(s, k) ==
    LET t == [s EXCEPT !.conn[k].sending = s.conn[k].queue, !.conn[k].queue = <<>>] IN
    IF s.conn[k].sending # <<>> THEN s
    ELSE IF s.conn[k].open THEN [t EXCEPT !.writes = @ \cup {k}]
    ELSE Post(t, k, Result("write", FALSE))

Sent(s, k, item) == do_write([s EXCEPT !.conn[k].queue = Append(@, item)], k)

-----------------------------------------------------------------------------
\* The end of a connection.

\* close_handler_ of the example: users.erase.
OnClose(s, k) == [s EXCEPT !.users = @ \ {k}]

\* Mutant of check_destroy: a pending write does not keep the connection.
check_destroy_NotSending(s, k) ==
    LET t == IF s.conn[k].called THEN s ELSE OnClose(s, k) IN
    IF ~s.conn[k].reading THEN [t EXCEPT !.conn[k].state = "deleted", !.conn[k].open = FALSE] ELSE t

check_destroy(s, k) ==
    LET t == IF s.conn[k].called THEN s ELSE OnClose(s, k) IN
    IF s.conn[k].sending = <<>> /\ ~s.conn[k].reading
    THEN [t EXCEPT !.conn[k].state = "deleted", !.conn[k].open = FALSE]
    ELSE t

close(s, k) ==
    LET answered == s.conn[k].recvClose /\ ~s.conn[k].called
        t == IF answered THEN OnClose([s EXCEPT !.conn[k].called = TRUE], k) ELSE s
    IN  Sent([t EXCEPT !.conn[k].sentClose = TRUE], k, Item("close", k, <<>>))

-----------------------------------------------------------------------------
\* What a frame does.

\* message_handler_ of the example.  On the connection's own thread dispatch
\* runs the send at once; those to other threads are posted.
Deliver(s, k, item) ==
    LET posted == [s EXCEPT !.ready = [u \in Conns |->
                     IF u \in s.users \ {k} THEN Append(@[u], Event("send", TRUE, 0, item)) ELSE @[u]]]
    IN  IF k \in s.users THEN Sent(posted, k, item) ELSE posted

Joined(s, k) == s.conn[k].message \o s.conn[k].fragment

\* Mutant of Extended: message_ is not cleared.
Extended_Keeps(s, k) ==
    LET t == [s EXCEPT !.conn[k].message = Joined(s, k)] IN
    IF s.conn[k].frame.fin THEN Deliver(t, k, Item("message", k, Joined(s, k))) ELSE t

\* The frame is one more part of the message, and the last one if it is FIN.
Extended(s, k) ==
    IF s.conn[k].frame.fin
    THEN Deliver([s EXCEPT !.conn[k].message = <<>>], k, Item("message", k, Joined(s, k)))
    ELSE [s EXCEPT !.conn[k].message = Joined(s, k)]

\* The case of a continuation runs on into that of a text.
Message(s, k) ==
    IF s.conn[k].frame.op = "continuation" THEN Extended(Extended(s, k), k) ELSE Extended(s, k)

\* A close frame ends what the application has begun to close, or is answered.
Closed(s, k) ==
    LET t == [s EXCEPT !.conn[k].recvClose = TRUE]
        u == [CloseAdaptor(t, k) EXCEPT !.conn[k].closing = TRUE, !.conn[k].called = TRUE]
    IN  IF ~s.conn[k].sentClose THEN close(t, k)
        ELSE check_destroy(IF s.conn[k].called THEN u ELSE OnClose(u, k), k)

handle_fragment(s, k) ==
    LET op == s.conn[k].frame.op
        t == CASE op \in {"text", "binary", "continuation"} -> Message(s, k)
               [] op = "close" -> Closed(s, k)
               [] op = "ping" -> Sent(s, k, Item("pong", k, s.conn[k].fragment))
               [] op = "pong" -> s
    IN  [t EXCEPT !.conn[k].fragment = <<>>]

\* What message_handler_ is called with, in handle_fragment.
Calls(c) ==
    LET whole == c.message \o c.fragment IN
    IF ~c.frame.fin \/ c.frame.op \notin {"text", "binary", "continuation"} THEN <<>>
    ELSE IF c.frame.op = "continuation" THEN <<whole, c.fragment>>
    ELSE <<whole>>

-----------------------------------------------------------------------------
\* The completion handlers.

ReadOn(s, k, where) == do_read([s EXCEPT !.conn[k].at = where], k)

\* In the header or the length an error destroys; in the mask or the payload
\* it only closes.
ReadFailed(s, k) ==
    LET t == CloseAdaptor([s EXCEPT !.conn[k].closing = TRUE], k) IN
    IF s.conn[k].at \in {"header", "length"} THEN check_destroy(t, k) ELSE t

\* After handle_fragment the handler goes on with this, deleted or not: the
\* next read is begun, on a socket that is closed if it was.
PayloadRead(s, k, n) ==
    LET c == s.conn[k]
        t == [s EXCEPT !.conn[k].left = c.left - n,
                       !.conn[k].fragment = @ \o SubSeq(c.frame.load, Len(@) + 1, Len(@) + n)]
        u == handle_fragment(t, k)
        v == IF u.conn[k].state = "deleted" THEN [u EXCEPT !.broken = @ \cup {k}] ELSE u
    IN  IF c.left # n THEN t ELSE ReadOn(v, k, "header")

read_handler(s, k, ok, n) ==
    LET t == [s EXCEPT !.conn[k].reading = FALSE]
        c == s.conn[k]
    IN  IF ~ok THEN ReadFailed(t, k)
        ELSE CASE c.at = "header" ->
                    ReadOn([t EXCEPT !.conn[k].left = Len(c.frame.load)], k,
                          IF c.frame.ext THEN "length" ELSE "mask")
               [] c.at = "length" -> ReadOn(t, k, "mask")
               [] c.at = "mask" -> ReadOn(t, k, "payload")
               [] c.at = "payload" -> PayloadRead(t, k, n)

\* Mutant of write_handler: what was queued meanwhile is not written.
write_handler_Stops(s, k, ok) ==
    LET t == [s EXCEPT !.conn[k].sending = <<>>] IN
    IF ok /\ ~s.conn[k].closing THEN [t EXCEPT !.conn[k].closing = s.conn[k].sentClose]
    ELSE check_destroy([t EXCEPT !.conn[k].closing = TRUE], k)

write_handler(s, k, ok) ==
    LET t == [s EXCEPT !.conn[k].sending = <<>>]
        u == IF s.conn[k].queue # <<>> THEN do_write(t, k) ELSE t
    IN  IF ok /\ ~s.conn[k].closing
        THEN [u EXCEPT !.conn[k].closing = s.conn[k].sentClose]
        ELSE check_destroy([t EXCEPT !.conn[k].closing = TRUE], k)

\* start: the answer to the upgrade, open_handler_, and the first read.
Started(s, k) ==
    LET t == [s EXCEPT !.conn[k].state = "live", !.conn[k].open = TRUE]
        u == Sent(t, k, Item("hello", k, <<>>))
    IN  do_read([u EXCEPT !.users = @ \cup {k}], k)

=============================================================================
