----------------------------- MODULE MCChatSession -----------------------------
(***************************************************************************)
(* Two tabs, a user in the database and one who may sign up.                *)
(***************************************************************************)
EXTENDS ChatSession

CONSTANTS t1, t2, admin, newcomer
TwoTabs == {t1, t2}
TwoUsers == {admin, newcomer}
OneSeed == {admin}
=============================================================================
