----------------------------- MODULE MCChatView -----------------------------
(***************************************************************************)
(* The page of henrychao, whose friends are admin, with whom he has not     *)
(* talked yet, and tata0523, with whom he has.                              *)
(***************************************************************************)
EXTENDS ChatView

CONSTANTS admin, henrychao, tata0523

Three == {admin, henrychao, tata0523}

Paths == [u \in Three |-> <<u>>]

FriendsOfHenry == [u \in Three |-> IF u = henrychao THEN {admin, tata0523} ELSE {henrychao}]

Greetings ==
    <<[id |-> 1, from |-> tata0523, to |-> henrychao, kind |-> "Generic"],
      [id |-> 2, from |-> henrychao, to |-> tata0523, kind |-> "Generic"]>>
HenrysHistory ==
    [u \in Three |-> [v \in Three |->
        IF {u, v} = {henrychao, tata0523} THEN Greetings ELSE <<>>]]

\* No action reads the last answer of the server.
AllButReply == <<store, page, requests, events>>
=============================================================================
