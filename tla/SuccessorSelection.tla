------------------------- MODULE SuccessorSelection -------------------------
(***************************************************************************)
(* The deterministic ranking of backup agents (Decision 7).  A row stands  *)
(* for one record of the backup_agents table; teeInstanceId is the rank of *)
(* the string in localeCompare's order.  The column is UNIQUE and the ids  *)
(* are plain ASCII, so no two rows of a database have the same rank.       *)
(*                                                                         *)
(* The code sorts a list and walks it.  Here the list is the set of its    *)
(* rows and the walk takes Best again and again: SelectionProofs proves    *)
(* that the comparator is a strict total order, so both visit the same     *)
(* rows in the same order whatever order the database returned them in.    *)
(***************************************************************************)
EXTENDS Naturals, FiniteSets

CONSTANT Agent

BackupRow == [agent : Agent, status : {"standby", "inactive"},
              streak : Nat, registeredAt : Nat, teeInstanceId : Nat]

\* tee_instance_id TEXT NOT NULL UNIQUE
UniqueTee(R) == \A r, s \in R : r.teeInstanceId = s.teeInstanceId => r = s

Standby(R) == {r \in R : r.status = "standby"}

\* The comparator is negative: r is tried before s.
Before(r, s) ==
  \/ r.streak > s.streak
  \/ /\ r.streak = s.streak
     /\ \/ r.registeredAt < s.registeredAt
        \/ /\ r.registeredAt = s.registeredAt
           /\ r.teeInstanceId < s.teeInstanceId

IsBest(r, R) == r \in R /\ \A s \in R \ {r} : Before(r, s)

=============================================================================
