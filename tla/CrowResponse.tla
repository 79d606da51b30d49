----------------------------- MODULE CrowResponse -----------------------------
(***************************************************************************)
(* The connections of one io_service of Crow: what http_connection.h and    *)
(* http_response.h do to their state.  One thread runs the handlers of the  *)
(* io_service to completion, one after the other, in the order in which     *)
(* they became ready.  A method is an operator on the state s of that       *)
(* thread: it takes the state at the call and gives the state at the        *)
(* return, so that nested calls nest.                                       *)
(*                                                                          *)
(* A connection that is deleted keeps its record: its fields say what it    *)
(* was when it went.                                                        *)
(***************************************************************************)
EXTENDS CrowTimerQueue, FiniteSets

CONSTANTS
    Conns,      \* the connections ever made
    MaxAsks     \* bound: requests sent, which bounds the messages too

ASSUME ConnAssumption ==
    IsFiniteSet(Conns) /\ Nobody \notin Conns /\ MaxAsks \in Nat

\* The members of Connection, and of its response.
Fresh ==
    [state |-> "free",      \* not made yet, "live" or "deleted"
     open |-> FALSE,        \* adaptor_.is_open()
     reading |-> FALSE, writing |-> FALSE,
     closing |-> FALSE,     \* close_connection_
     after |-> FALSE,       \* need_to_call_after_handlers_
     resume |-> FALSE,      \* need_to_start_read_after_complete_
     completed |-> FALSE,   \* res.completed_
     onEnd |-> "null",      \* res.complete_request_handler_
     key |-> NoKey]         \* timer_cancel_key_

ConnRecord ==
    [state : {"free", "live", "deleted"}, open : BOOLEAN,
     reading : BOOLEAN, writing : BOOLEAN, closing : BOOLEAN, after : BOOLEAN,
     resume : BOOLEAN, completed : BOOLEAN, onEnd : {"null", "noop", "complete"},
     key : Nat \cup {NoKey}]

\* What the bytes of a read amount to, one after the other: a request, "part"
\* of one, "expect" for headers that wait for 100-continue, or "garbage", which
\* the parser refuses.  last is that of a poll.
Routes == {"get", "poll", "send", "upgrade", "nohost", "expect", "part", "garbage"}
Request == [route : Routes, close : BOOLEAN, last : Nat]

\* What a write sends: messages from .. upto - 1 for a poll.
Answer == [is : {"200", "404", "400", "again", "continue", "msgs", "empty"}, from : Nat, upto : Nat]
Plain(is) == [is |-> is, from |-> 0, upto |-> 0]

\* A handler that is ready to run.
Handler ==
    [who : Conns \cup {Nobody}, what : {"start", "read", "write", "tick"},
     ok : BOOLEAN, load : Seq(Request)]

\* The loop that the thread is in: over ress, over the due deadlines, or that of
\* the parser over what it was fed.
NoLoop == [doing |-> "nothing", by |-> Nobody, left |-> <<>>, kept |-> <<>>]
Loop ==
    [doing : {"nothing", "send", "poll", "tick", "feed"}, by : Conns \cup {Nobody},
     left : Seq(Conns), kept : Seq(Conns)]

\* What s is.
States ==
    [conn : [Conns -> ConnRecord], q : Queues(Conns),
     reads : SUBSET Conns,              \* pending async_read_some
     wire : [Conns -> Seq(Answer)],     \* pending async_write
     ready : Seq(Handler),
     held : Seq(Conns),                 \* ress: whose response is still to come
     msgs : Nat,                        \* msgs.size()
     loop : Loop,
     rest : Seq(Request),               \* what is left of the read that is being fed
     hasty : SUBSET Conns,              \* history: those that did not wait for an answer
     thrown : SUBSET Conns,             \* history: those whose handler threw
     broken : BOOLEAN]                  \* a response was used after it was deleted

-----------------------------------------------------------------------------
\* Asynchronous operations.

Ready(s, k, what, ok, load) ==
    [s EXCEPT !.ready = Append(@, [who |-> k, what |-> what, ok |-> ok, load |-> load])]

\* One on a closed socket is ready at once, with an error.
do_read(s, k) ==
    LET t == [s EXCEPT !.conn[k].reading = TRUE] IN
    IF s.conn[k].open THEN [t EXCEPT !.reads = @ \cup {k}]
    ELSE Ready(t, k, "read", FALSE, <<>>)

do_write(s, k, answer) ==
    LET t == [s EXCEPT !.conn[k].writing = TRUE] IN
    IF s.conn[k].open THEN [t EXCEPT !.wire[k] = Append(@, answer)]
    ELSE Ready(t, k, "write", FALSE, <<>>)

\* adaptor_.close(): what was pending is ready, with an error.
Aborted(s, k) ==
    (IF k \in s.reads THEN <<[who |-> k, what |-> "read", ok |-> FALSE, load |-> <<>>]>>
     ELSE <<>>)
    \o [i \in DOMAIN s.wire[k] |-> [who |-> k, what |-> "write", ok |-> FALSE, load |-> <<>>]]

CloseAdaptor(s, k) ==
    [s EXCEPT !.conn[k].open = FALSE, !.reads = @ \ {k}, !.wire[k] = <<>>,
              !.ready = @ \o Aborted(s, k)]

-----------------------------------------------------------------------------
\* The deadline, and the end.

cancel_deadline_timer(s, k) ==
    [s EXCEPT !.q = Cancelled(@, s.conn[k].key), !.conn[k].key = NoKey]

\* Mutant of start_deadline: the deadline it replaces is not cancelled.
start_deadline_Second(s, k) == [s EXCEPT !.q = Added(@, k), !.conn[k].key = NewKey(s.q)]

start_deadline(s, k) ==
    LET t == cancel_deadline_timer(s, k) IN
    [t EXCEPT !.q = Added(@, k), !.conn[k].key = NewKey(t.q)]

\* ~Connection, which takes the socket with it.
Deleted(s, k) ==
    [CloseAdaptor(cancel_deadline_timer(s, k), k)
        EXCEPT !.conn[k].state = "deleted", !.conn[k].onEnd = "null"]

\* Mutant of check_destroy: a pending write does not keep the connection.
check_destroy_NotWriting(s, k) == IF ~s.conn[k].reading THEN Deleted(s, k) ELSE s

check_destroy(s, k) ==
    IF ~s.conn[k].reading /\ ~s.conn[k].writing THEN Deleted(s, k) ELSE s

-----------------------------------------------------------------------------
\* The response.

\* Mutant of complete_request: no deadline for the next request.
complete_request_NoDeadline(s, k, answer) ==
    LET t == [s EXCEPT !.conn[k].after = FALSE, !.conn[k].onEnd = "null"]
        u == do_write([t EXCEPT !.conn[k].resume = FALSE], k, answer)
    IN  IF ~s.conn[k].open THEN t ELSE IF s.conn[k].resume THEN do_read(u, k) ELSE u

complete_request(s, k, answer) ==
    LET t == [s EXCEPT !.conn[k].after = FALSE, !.conn[k].onEnd = "null"]
        u == do_write([t EXCEPT !.conn[k].resume = FALSE], k, answer)
    IN  IF ~s.conn[k].open THEN t
        ELSE IF s.conn[k].resume THEN do_read(start_deadline(u, k), k)
        ELSE u

\* response::end, of a response that may be that of another connection.
end(s, k, answer) ==
    LET t == [s EXCEPT !.conn[k].completed = TRUE] IN
    IF s.conn[k].completed THEN s
    ELSE IF s.conn[k].onEnd = "complete" THEN complete_request(t, k, answer)
    ELSE t

\* res = response(...): a new one, with the old handler.
Assigned(s, k) == [s EXCEPT !.conn[k].completed = FALSE]

=============================================================================
