------------------------------- MODULE CrowChat -------------------------------
(***************************************************************************)
(* The routes of example_chat.cpp, a chat by long polling: a poll that has  *)
(* nothing to tell yet is kept in ress, and answered by the next message.   *)
(* Their two loops over ress end responses of other connections one by one: *)
(* such a loop is a series of steps, and then the handler that is in it     *)
(* goes on.                                                                 *)
(***************************************************************************)
EXTENDS CrowResponse

Messages(from, upto) == [is |-> "msgs", from |-> from, upto |-> upto]

EnterLoop(s, what, k) ==
    [s EXCEPT !.loop = [doing |-> what, by |-> k, left |-> s.held, kept |-> <<>>]]

\* Mutant of Routed: a poll that knows all but one message waits.
Routed_OffByOne(s, k, r) ==
    CASE r.route = "get" -> end(Assigned(s, k), k, Plain("200"))
      [] r.route = "poll" /\ r.last + 1 < s.msgs -> end(s, k, Messages(r.last, s.msgs))
      [] r.route = "poll" /\ r.last + 1 >= s.msgs -> EnterLoop(s, "poll", k)
      [] r.route = "send" -> EnterLoop([s EXCEPT !.msgs = @ + 1], "send", k)

\* "/", "/logs" and what has no rule are answered at once; so is a poll that
\* is behind.  broadcast appends the message first.
Routed(s, k, r) ==
    CASE r.route = "get" -> end(Assigned(s, k), k, Plain("200"))
      [] r.route = "poll" /\ r.last < s.msgs -> end(s, k, Messages(r.last, s.msgs))
      [] r.route = "poll" /\ r.last >= s.msgs -> EnterLoop(s, "poll", k)
      [] r.route = "send" -> EnterLoop([s EXCEPT !.msgs = @ + 1], "send", k)

\* One turn of the loop, for the first response p that is left.  A poll drops
\* those whose connection is closed, and those that are old.
Visited(s, p, old) ==
    LET t == [s EXCEPT !.loop.left = Tail(@)] IN
    IF s.conn[p].state # "live" THEN [t EXCEPT !.broken = TRUE]
    ELSE IF s.loop.doing = "send" THEN end(t, p, Messages(s.msgs - 1, s.msgs))
    ELSE IF s.conn[p].open /\ ~old THEN [t EXCEPT !.loop.kept = Append(@, p)]
    ELSE end(t, p, Plain("empty"))

\* After the loop: what the route does with its own response.
LoopLeft(s) ==
    LET k == s.loop.by
        t == [s EXCEPT !.loop = NoLoop]
    IN  IF s.loop.doing = "send"
        THEN end(Assigned([t EXCEPT !.held = <<>>], k), k, Plain("200"))
        ELSE [t EXCEPT !.held = Append(s.loop.kept, k)]

=============================================================================
