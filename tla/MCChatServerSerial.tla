--------------------------- MODULE MCChatServerSerial ---------------------------
(***************************************************************************)
(* One thread, and what three users can request of one another.             *)
(***************************************************************************)
EXTENDS MCChatServerThreads, ChatServerSerial

AllRequests ==
    {Req("put_account", 0, u, 0) : u \in {henrychao, newcomer}}
    \cup {Req(op, i, v, 0) : op \in Sends \cup {"put_friends", "del_friends"},
                             i \in 1 .. 3, v \in Three}
    \cup {Req("del_messages", i, v, id) : i \in 1 .. 3, v \in Three, id \in 2 .. 4}
=============================================================================
