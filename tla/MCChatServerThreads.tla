-------------------------- MODULE MCChatServerThreads --------------------------
(***************************************************************************)
(* Two seeded users of fake_database and one more who may sign up, with the *)
(* requests that each run lets them make.                                   *)
(***************************************************************************)
EXTENDS ChatServerThreads

CONSTANTS henrychao, tata0523, newcomer, w1, w2

ThePair == {henrychao, tata0523}
Three == {henrychao, tata0523, newcomer}
\* The newcomer signs up as "henrychao/tata0523".
Paths ==
    [u \in Names |-> IF u = newcomer THEN <<henrychao, tata0523>> ELSE <<u>>]

Threads == {w1, w2}
OneThread == {w1}

Pair ==
    <<[username |-> henrychao, friend_list |-> <<tata0523>>],
      [username |-> tata0523, friend_list |-> <<henrychao>>]>>

Texts ==
    <<[id |-> 1, from |-> tata0523, to |-> henrychao, kind |-> "Generic"],
      [id |-> 2, from |-> henrychao, to |-> tata0523, kind |-> "Generic"]>>
PairLists ==
    [u \in ThePair |-> IF u = henrychao THEN tata0523 :> Texts ELSE henrychao :> Texts]

Req(op, token, target, id) == [op |-> op, token |-> token, target |-> target, id |-> id]

\* Both friends write to each other, as fast as they like.
SendRequests ==
    {Req(op, 1, tata0523, 0) : op \in Sends} \cup {Req(op, 2, henrychao, 0) : op \in Sends}

\* One of each kind, in the conversation of the pair and around it.
MixedRequests ==
    {Req("put_account", 0, newcomer, 0),
     Req("put_friends", 3, henrychao, 0),
     Req("put_friends", 1, newcomer, 0),
     Req("put_messages", 1, newcomer, 0),
     Req("put_messages", 3, henrychao, 0),
     Req("put_friends", 1, tata0523, 0),
     Req("del_friends", 1, tata0523, 0),
     Req("put_messages", 2, henrychao, 0),
     Req("put_messages_file", 1, tata0523, 0),
     Req("del_messages", 1, tata0523, 2),
     Req("del_messages", 1, tata0523, 3)}

Unsends == {Req("put_messages", 1, tata0523, 0), Req("del_messages", 1, tata0523, 2)}
=============================================================================
