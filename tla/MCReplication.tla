--------------------------- MODULE MCReplication ---------------------------
(* Small instances of Replication for TLC. *)
EXTENDS Replication, TLC

CONSTANTS g1, g2

\* Snapshot numbers up to 4 from the first primary, up to 2 from the second.
FourThenTwo == <<4, 2>>
FourEach == <<4, 4>>

GuardianSymmetry == Permutations(Guardian)

=============================================================================
