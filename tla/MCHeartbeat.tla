---------------------------- MODULE MCHeartbeat ----------------------------
(* Small instances of Heartbeat for TLC; a tick is 5 seconds. *)
EXTENDS Heartbeat

CONSTANTS b1, b2, g1, g2

=============================================================================
