------------------------------- MODULE MCCrowWs -------------------------------
(***************************************************************************)
(* Two connections, which divide between them what can be done.             *)
(***************************************************************************)
EXTENDS CrowWsChat, TLC

CONSTANTS k1, k2
Both == {k1, k2}
Division == k1 :> {"say", "cut"} @@ k2 :> {"pieces", "ping", "close", "kick", "fail"}

\* A text that k1 did not say.
Other == [op |-> "text", fin |-> TRUE, ext |-> FALSE, load |-> <<<<k1, 0>>>>]
OutOfStep == {<<>>, <<Other>>}
=============================================================================
