-------------------------- MODULE MCNetworkManager --------------------------
(* Small instances of NetworkManager for TLC. *)
EXTENDS NetworkManager

CONSTANTS g1, b1, e1, e2

=============================================================================
