---------------------------- MODULE MCAdmission ----------------------------
(* Small instances of Admission for TLC. *)
EXTENDS Admission

CONSTANTS g1, g2, b1, i1, i2

\* Two guardians of different images, a backup of yet the first one's.
Mixed == [c \in Client |-> IF c \in {g1, b1} THEN i1 ELSE i2]

=============================================================================
