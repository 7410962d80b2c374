------------------------------- MODULE MCBoot -------------------------------
(* Boot over the lives of one machine: the key names and two identities.   *)
EXTENDS Boot

CONSTANTS i1, i2

MCKey == 1 .. 5
MCId == {i1, i2}
=============================================================================
