------------------------------- MODULE MCSocket -------------------------------
(***************************************************************************)
(* Clients that use the words of the server, and one that is client.cpp as  *)
(* it is.                                                                   *)
(***************************************************************************)
EXTENDS SocketClient

CONSTANTS c1, c2, f1, f2

TheFiles == {f1, f2}
Refused == {f2}
FarAway == {c1}
Frail == {c2}
FirstTwo == {c1, c2}
Either == {FirstTwo, {}}
=============================================================================
