---------------------------- MODULE CrowTimerQueue ----------------------------
(***************************************************************************)
(* dumb_timer_queue.h: the deadlines of the connections of one io_service,  *)
(* oldest first.  A key is the position an entry had in the whole history   *)
(* of the queue, of which the first step entries have been popped; a        *)
(* cancelled entry stays in its place without a function.                   *)
(*                                                                          *)
(* The operators take a queue and give the queue afterwards.  The age of an *)
(* entry, in seconds, stands for the time it was added.                     *)
(***************************************************************************)
EXTENDS Integers, Sequences

CONSTANTS
    TICK,       \* 5: seconds until a deadline
    Nobody      \* the function of an entry that was cancelled

ASSUME TimerAssumption == TICK \in Nat \ {0}

NoKey == -1

EmptyQueue == [step |-> 0, dq |-> <<>>]

Queues(Who) ==
    [step : Nat, dq : Seq([age : 0 .. TICK, who : Who \cup {Nobody}])]

\* The position of a key; that of an entry already popped is, as an unsigned
\* number, beyond any size.
Index(q, key) == key - q.step + 1

Cancelled(q, key) ==
    IF key # NoKey /\ Index(q, key) \in DOMAIN q.dq
    THEN [q EXCEPT !.dq[Index(q, key)].who = Nobody]
    ELSE q

Added(q, who) == [q EXCEPT !.dq = Append(@, [age |-> 0, who |-> who])]

\* What add returns.
NewKey(q) == q.step + Len(q.dq)

\* process() calls and pops the entry in front as long as that is due.
FrontIsDue(q) == q.dq # <<>> /\ Head(q.dq).age >= TICK
Popped(q) == [step |-> q.step + 1, dq |-> Tail(q.dq)]

\* A second passes.
Older(age) == IF age < TICK THEN age + 1 ELSE age
Aged(q) == [q EXCEPT !.dq = [i \in DOMAIN q.dq |-> [q.dq[i] EXCEPT !.age = Older(@)]]]

=============================================================================
