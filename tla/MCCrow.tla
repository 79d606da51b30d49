-------------------------------- MODULE MCCrow --------------------------------
(***************************************************************************)
(* Two connections: one polls and may be closed by its own request, the     *)
(* other asks for everything, and more than one thing at a time.            *)
(***************************************************************************)
EXTENDS CrowConnection, TLC

CONSTANTS k1, k2
Both == {k1, k2}

One(route, close) == <<<<route, close>>>>
Two(first, second) == <<<<first, FALSE>>, <<second, FALSE>>>>

\* The first polls, and may want to be closed after it; the second does the rest.
Division ==
    k1 :> {One("poll", FALSE), One("poll", TRUE)}
    @@ k2 :> {One("send", FALSE), One("part", FALSE), Two("poll", "nohost"), Two("poll", "garbage"),
              Two("expect", "upgrade")}
=============================================================================
