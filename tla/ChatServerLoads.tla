---------------------------- MODULE ChatServerLoads ----------------------------
(***************************************************************************)
(* The threads of ChatServerThreads under one of several loads: a load is   *)
(* the set of the requests that clients make in one behaviour.              *)
(***************************************************************************)
EXTENDS ChatServerThreads

CONSTANT Loads

ASSUME LoadsAssumption == Loads \subseteq SUBSET Requests

VARIABLE load       \* the requests that clients make

LoadInit == Init /\ load \in Loads

\* A thread takes up requests of this load only.
LoadStep(w) == Step(w) /\ UNCHANGED load
LoadStart(w) == (\E r \in load : Start(w, r)) /\ UNCHANGED load

LoadNext ==
    \/ \E w \in Workers : LoadStep(w) \/ LoadStart(w)
    \/ Done /\ UNCHANGED load

LoadSpec == LoadInit /\ [][LoadNext]_<<vars, load>>

FairLoads == LoadSpec /\ \A w \in Workers : WF_<<vars, load>>(LoadStep(w))

-----------------------------------------------------------------------------
\* Two users of the source who have each other in their lists.
SeedFriends(u, v) ==
    /\ u \in DOMAIN SeedLists /\ v \in DOMAIN SeedLists[u]
    /\ v \in DOMAIN SeedLists /\ u \in DOMAIN SeedLists[v]

\* A friend writes to a friend.
ToFriend(r) ==
    /\ r.op \in Sends /\ r.token \in DOMAIN SeedAccounts
    /\ SeedFriends(SeedAccounts[r.token].username, r.target)

\* Where friends only send, AllDelivered (app_fake.py:275-279, 323-331): both ends
\* get everything, and a file that is listed exists.
SendsDelivered == (\A r \in load : ToFriend(r)) => AllDelivered
=============================================================================
