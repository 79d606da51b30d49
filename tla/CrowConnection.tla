---------------------------- MODULE CrowConnection ----------------------------
(***************************************************************************)
(* The handlers of Connection (http_connection.h), run by the one thread of *)
(* a Server (http_server.h) with the default concurrency, the routes of     *)
(* CrowChat, and the clients.  A client may send several requests at once,  *)
(* and send on while it waits for an answer: what arrives while the server  *)
(* reads is one read, whatever it amounts to.  A second write of a          *)
(* connection uses the buffers of the first: what its client gets is not    *)
(* modelled, only that the two are under way.                               *)
(***************************************************************************)
EXTENDS CrowChat

CONSTANTS
    Asked       \* what each client sends at once: pairs of a route and whether to close after it

\* The parser takes nothing more after what is no request, after a request that
\* closes (http_parser_merged.h:619), and after an upgrade (2000).
ASSUME ClientAssumption ==
    /\ Asked \in [Conns -> SUBSET Seq(Routes \X BOOLEAN)]
    /\ \A k \in Conns : \A reqs \in Asked[k] :
         /\ reqs # <<>>
         /\ \A i \in 1 .. Len(reqs) - 1 :
              /\ reqs[i][1] \notin {"garbage", "part"}
              /\ reqs[i][2] \/ reqs[i][1] = "upgrade" => reqs[i + 1][1] = "garbage"

VARIABLES
    st,         \* the state of the thread
    waiting,    \* clients that wait for an answer
    last,       \* how many messages a client knows
    asks        \* how many requests were sent

clients == <<waiting, last, asks>>
crowVars == <<st, clients>>

CrowInit ==
    /\ st = [conn |-> [k \in Conns |-> Fresh], q |-> EmptyQueue, reads |-> {},
             wire |-> [k \in Conns |-> <<>>], ready |-> <<>>, held |-> <<>>, msgs |-> 0,
             loop |-> NoLoop, rest |-> <<>>, hasty |-> {}, thrown |-> {}, broken |-> FALSE]
    /\ waiting = {} /\ last = [k \in Conns |-> 0] /\ asks = 0

-----------------------------------------------------------------------------
\* Connection::handle.  There are no middlewares, and no rule takes an upgrade:
\* 404, and no handler to send it.

Upgraded(s, k) == end(Assigned([s EXCEPT !.conn[k].closing = TRUE], k), k, Plain("404"))

\* A response that is complete before it was routed is sent as it is.
Route(s, k, r) ==
    LET t == [s EXCEPT !.conn[k].onEnd = "noop"] IN
    IF s.conn[k].completed THEN complete_request(t, k, Plain("again"))
    ELSE Routed([t EXCEPT !.conn[k].onEnd = "complete", !.conn[k].after = TRUE], k, r)

ToHandle(s, k, r) == [cancel_deadline_timer(s, k) EXCEPT !.conn[k].closing = @ \/ r.close]

handle(s, k, r) ==
    LET t == ToHandle(s, k, r)
        u == [t EXCEPT !.conn[k].after = FALSE]
    IN  CASE r.route = "upgrade" -> Upgraded(t, k)
          [] r.route = "nohost" -> complete_request(Assigned(u, k), k, Plain("400"))
          [] OTHER -> Route(u, k, r)

\* What the parser calls.
Parsed(s, k, r) ==
    CASE r.route = "part" -> s
      [] r.route = "expect" -> do_write(s, k, Plain("continue"))
      [] OTHER -> handle(s, k, r)

-----------------------------------------------------------------------------
\* The completion handlers.

start(s, k) == do_read(start_deadline(s, k), k)

\* Mutant of after_feed: reads on while a response is still to come.
after_feed_ReadsOn(s, k, ok) ==
    LET t == [cancel_deadline_timer(s, k) EXCEPT !.conn[k].reading = FALSE] IN
    IF ~ok \/ ~s.conn[k].open THEN check_destroy(CloseAdaptor(t, k), k)
    ELSE IF s.conn[k].closing THEN check_destroy(t, k)
    ELSE do_read(start_deadline(s, k), k)

\* The handler of async_read_some from feed on.
after_feed(s, k, ok) ==
    LET t == [cancel_deadline_timer(s, k) EXCEPT !.conn[k].reading = FALSE] IN
    CASE ~ok \/ ~s.conn[k].open -> check_destroy(CloseAdaptor(t, k), k)
      [] ok /\ s.conn[k].open /\ s.conn[k].closing -> check_destroy(t, k)
      [] ok /\ s.conn[k].open /\ ~s.conn[k].closing /\ ~s.conn[k].after ->
            do_read(start_deadline(s, k), k)
      [] OTHER -> [s EXCEPT !.conn[k].resume = TRUE]

\* parser_.feed goes on with what is left of the read; a route may have entered
\* a loop, and then it does when that is left.
FeedOn(s, k) ==
    IF s.loop.doing # "nothing" THEN s
    ELSE IF s.rest = <<>> THEN after_feed(s, k, TRUE)
    ELSE [s EXCEPT !.loop = [doing |-> "feed", by |-> k, left |-> <<>>, kept |-> <<>>]]

\* One thing of those that were read.
feed(s, k, r) ==
    IF r.route = "garbage" THEN after_feed([s EXCEPT !.rest = <<>>], k, FALSE)
    ELSE FeedOn(Parsed(s, k, r), k)

read_handler(s, k, ok, load) ==
    IF ok THEN feed([s EXCEPT !.rest = Tail(load)], k, Head(load)) ELSE after_feed(s, k, FALSE)

write_handler(s, k, ok) ==
    LET t == [s EXCEPT !.conn[k].writing = FALSE, !.conn[k].completed = FALSE] IN
    IF ~ok THEN check_destroy(t, k)
    ELSE IF s.conn[k].closing THEN check_destroy(CloseAdaptor(t, k), k)
    ELSE t

-----------------------------------------------------------------------------
\* The thread.

Idle == st.loop.doing = "nothing"

\* The line that logs a request asks for the endpoint of the peer, which throws
\* on a closed socket, and when the peer has just reset the connection.
Logged == {"get", "poll", "send", "nohost"}
CanParse(k, r) == r.route \in Logged => st.conn[k].open
Thrown(s, k, r) == [ToHandle(s, k, r) EXCEPT !.thrown = @ \cup {k}]

\* The next handler.  One of a connection that was deleted may do anything.
Run ==
    /\ Idle /\ st.ready # <<>>
    /\ LET h == Head(st.ready)
           s == [st EXCEPT !.ready = Tail(@)]
       IN  /\ h.what = "read" /\ h.ok => CanParse(h.who, Head(h.load))
           /\ st' = CASE h.what = "start" -> start(s, h.who)
                      [] h.what = "read" -> read_handler(s, h.who, h.ok, h.load)
                      [] h.what = "write" /\ s.conn[h.who].state = "live" ->
                            write_handler(s, h.who, h.ok)
                      [] h.what = "write" /\ s.conn[h.who].state # "live" ->
                            [s EXCEPT !.broken = TRUE]
                      [] h.what = "tick" -> [s EXCEPT !.loop.doing = "tick"]
    /\ UNCHANGED clients

\* The next thing of the same read.
FeedRest ==
    /\ st.loop.doing = "feed" /\ CanParse(st.loop.by, Head(st.rest))
    /\ st' = feed([st EXCEPT !.loop = NoLoop, !.rest = Tail(@)], st.loop.by, Head(st.rest))
    /\ UNCHANGED clients

\* An exception: the worker loop drops the handler, and with it what it had not parsed.
Throw ==
    /\ \/ /\ Idle /\ st.ready # <<>>
          /\ LET h == Head(st.ready) IN
              /\ h.what = "read" /\ h.ok /\ Head(h.load).route \in Logged
              /\ st' = Thrown([st EXCEPT !.ready = Tail(@)], h.who, Head(h.load))
       \/ /\ st.loop.doing = "feed" /\ Head(st.rest).route \in Logged
          /\ st' = Thrown([st EXCEPT !.loop = NoLoop, !.rest = <<>>], st.loop.by, Head(st.rest))
    /\ UNCHANGED clients

\* One turn of the loop of a route; old: 30 seconds and more in ress.
Visit ==
    /\ st.loop.doing \in {"send", "poll"} /\ st.loop.left # <<>>
    /\ \E old \in BOOLEAN : st' = Visited(st, Head(st.loop.left), old)
    /\ UNCHANGED clients

LeaveLoop ==
    /\ st.loop.doing \in {"send", "poll"} /\ st.loop.left = <<>>
    /\ st' = FeedOn(LoopLeft(st), st.loop.by)
    /\ UNCHANGED clients

\* dumb_timer_queue::process, one entry: the function closes an open adaptor.
CallDeadline ==
    /\ st.loop.doing = "tick" /\ FrontIsDue(st.q)
    /\ LET k == Head(st.q.dq).who
           s == [st EXCEPT !.q = Popped(@)]
       IN  st' = IF k = Nobody \/ ~st.conn[k].open THEN s
                 ELSE CloseAdaptor(s, k)
    /\ UNCHANGED clients

EndOfTick ==
    /\ st.loop.doing = "tick" /\ ~FrontIsDue(st.q)
    /\ st' = [st EXCEPT !.loop = NoLoop]
    /\ UNCHANGED clients

Thread == Run \/ FeedRest \/ Throw \/ Visit \/ LeaveLoop \/ CallDeadline \/ EndOfTick

\* A second: the timer that ticks is set again after each tick.
Second ==
    /\ st.loop.doing # "tick" /\ \A i \in DOMAIN st.ready : st.ready[i].what # "tick"
    /\ st' = [Ready(st, Nobody, "tick", TRUE, <<>>) EXCEPT !.q = Aged(@)]
    /\ UNCHANGED clients

-----------------------------------------------------------------------------
\* The network and the clients.

\* do_accept: a new connection is posted to the thread.
Accept(k) ==
    /\ st.conn[k].state = "free"
    /\ st' = Ready([st EXCEPT !.conn[k].state = "live", !.conn[k].open = TRUE],
                   k, "start", TRUE, <<>>)
    /\ UNCHANGED clients

\* What a client sent is read, up to the end of the last request, or further.
Requests(k, reqs) ==
    [i \in DOMAIN reqs |-> [route |-> reqs[i][1], close |-> reqs[i][2], last |-> last[k]]]

\* A client is hasty that asks again before it has the answer.
Ask(k, reqs) ==
    /\ k \in st.reads
    /\ asks + Len(reqs) <= MaxAsks /\ asks' = asks + Len(reqs)
    /\ st' = [Ready([st EXCEPT !.reads = @ \ {k}], k, "read", TRUE, Requests(k, reqs))
                EXCEPT !.hasty = IF k \in waiting \/ Len(reqs) > 1 THEN @ \cup {k} ELSE @]
    /\ waiting' = IF reqs[1][1] = "part" THEN waiting ELSE waiting \cup {k}
    /\ UNCHANGED last

\* The client closes its end or sends what is no request, or the network fails.
HangUp(k) ==
    /\ k \in st.reads
    /\ st' = Ready([st EXCEPT !.reads = @ \ {k}], k, "read", FALSE, <<>>)
    /\ UNCHANGED clients

\* A write to a client that has gone may still seem to succeed.
WriteEnds(k) ==
    /\ st.wire[k] # <<>>
    /\ \E ok \in BOOLEAN :
        st' = Ready([st EXCEPT !.wire[k] = Tail(@)], k, "write", ok, <<>>)
    /\ LET a == Head(st.wire[k]) IN
        last' = [last EXCEPT ![k] = IF a.is = "msgs" THEN a.upto ELSE @]
    /\ waiting' = waiting \ {k}
    /\ UNCHANGED asks

Client(k) ==
    \/ Accept(k) \/ HangUp(k)
    \/ \E reqs \in Asked[k] : Ask(k, reqs)

CrowNext == Thread \/ Second \/ \E k \in Conns : WriteEnds(k) \/ Client(k)

CrowSpec == CrowInit /\ [][CrowNext]_crowVars

\* The thread runs and time passes; of the clients nothing is assumed, not even
\* that they read what they are sent.
CrowFair == CrowSpec /\ WF_crowVars(Thread) /\ WF_crowVars(Second)

-----------------------------------------------------------------------------
\* Every function in the timer queue is that of a connection that exists and
\* can still cancel it (dumb_timer_queue.h:28): the destructor leaves none
\* behind, and a key that has gone stale cancels no deadline of another.
DeadlinesOwned ==
    /\ \A i \in DOMAIN st.q.dq : LET k == st.q.dq[i].who IN
        k # Nobody => st.conn[k].state = "live" /\ st.conn[k].key = st.q.step + i - 1
    /\ \A k \in Conns : LET i == Index(st.q, st.conn[k].key) IN
        i \in DOMAIN st.q.dq => st.q.dq[i].who = k

\* No pending operation, and no handler, is left of a connection that has been
\* deleted (http_connection.h:539), but that of a write of a hasty client: of
\* its writes the first to end resets is_writing, which is one for all (512,
\* 516).  Its reads are safe too, though one read makes many requests.
NoDanglingHandler ==
    /\ \A k \in Conns : k \in st.reads \/ st.wire[k] # <<>> => st.conn[k].state = "live"
    /\ \A i \in DOMAIN st.ready : LET h == st.ready[i] IN
         \/ h.who = Nobody \/ st.conn[h.who].state = "live"
         \/ h.what = "write" /\ h.who \in st.hasty

\* A response kept in ress is that of a connection that exists, unless it was to
\* be closed after the answer, or its client is hasty: what comes after the poll
\* in the same read makes the server read on (342, 496), or fail (479).
HeldHasCause ==
    \A i \in DOMAIN st.held : LET k == st.held[i] IN
        st.conn[k].state = "live" \/ st.conn[k].closing \/ k \in st.hasty

\* A poll is answered with the messages that follow those the client knows:
\* none is skipped and none comes twice, whether the poll was behind or had to
\* wait for a broadcast (example_chat.cpp:18, 53), and whatever hasty clients do.
PollsContiguous ==
    \A k \in Conns \ st.hasty : \A i \in DOMAIN st.wire[k] :
        st.wire[k][i].is = "msgs" => st.wire[k][i].from = last[k]

Holds(k) == \E i \in DOMAIN st.held : st.held[i] = k

\* The last answer is under way, after which the connection is to be closed: it
\* has no deadline any more (490).
Lingers(k) == st.conn[k].closing /\ st.wire[k] # <<>>

\* No socket stays open for a client that does nothing any more, nor reads: it
\* is closed in the end, except while the answer to a poll waits in ress, while
\* the last answer is not read, and when an exception dropped the request after
\* its deadline was cancelled (251).
IdleClosed ==
    \A k \in Conns : []<>(st.conn[k].open => Holds(k) \/ Lingers(k) \/ k \in st.thrown)

=============================================================================
