--------------------------- MODULE MCHeartbeatWake ---------------------------
(* An instance of HeartbeatWake: untargeted wakes and those of one session.   *)
EXTENDS HeartbeatWake

CONSTANTS all, session

OneSession == {session}
=============================================================================
