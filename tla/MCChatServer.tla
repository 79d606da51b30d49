----------------------------- MODULE MCChatServer -----------------------------
(***************************************************************************)
(* Two slices of fake_database.  "Pair" is the two seeded users who have    *)
(* already exchanged texts; "Trio" is two seeded friends with an empty      *)
(* history and somebody who may sign up, as "henrychao/admin": a name whose *)
(* directory is that of the pair.                                           *)
(***************************************************************************)
EXTENDS ChatServer

CONSTANTS admin, henrychao, tata0523, newcomer

Pair == {henrychao, tata0523}
Trio == {admin, henrychao, newcomer}

Seeded == Names \ {newcomer}
MutualFriends == [u \in Names |-> IF u \in Seeded THEN Seeded \ {u} ELSE {}]

Paths ==
    [u \in Names |-> IF u = newcomer THEN <<henrychao, admin>> ELSE <<u>>]
TheParts == {admin, henrychao, tata0523}

NoMessages == [u \in Names |-> [v \in Names |-> <<>>]]
PairHistory ==
    [u \in Names |-> [v \in Names |->
        IF u = v THEN <<>>
        ELSE <<[id |-> 1, from |-> tata0523, to |-> henrychao, kind |-> "Generic"],
               [id |-> 2, from |-> henrychao, to |-> tata0523, kind |-> "Generic"]>>]]
=============================================================================
