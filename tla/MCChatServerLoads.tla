--------------------------- MODULE MCChatServerLoads ---------------------------
(***************************************************************************)
(* Two loads for the threads: a few requests of every kind, and friends who *)
(* only send.                                                               *)
(***************************************************************************)
EXTENDS ChatServerLoads, MCChatServerThreads

TwoLoads == {MixedRequests, SendRequests}
AnyRequest == UNION TwoLoads
=============================================================================
