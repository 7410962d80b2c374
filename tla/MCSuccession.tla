---------------------------- MODULE MCSuccession ----------------------------
(* Small instances of Succession for TLC. *)
EXTENDS Succession

CONSTANTS a1, a2

\* Row of an agent with a streak; a1 has the smaller teeInstanceId.
Row(a, s) == [agent |-> a, status |-> "standby", streak |-> s,
              registeredAt |-> 1, teeInstanceId |-> IF a = a1 THEN 1 ELSE 2]

\* Every guardian holds the same database copy: a1, then a2.
SameRoster == [g \in Guardian |-> {Row(a1, 3), Row(a2, 3)}]

\* A guardian with one agent only.
OneRow == [g \in Guardian |-> {Row(a1, 3)}]

=============================================================================
