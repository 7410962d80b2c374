--------------------------- MODULE SelectionProofs ---------------------------
(***************************************************************************)
(* The comparator of selectSuccessor is a strict total order on the rows   *)
(* of one backup_agents table.  Hence a set of rows has at most one best   *)
(* row, and walking the sorted list is taking the best row again and again.*)
(***************************************************************************)
EXTENDS SuccessorSelection, WellFoundedInduction, TLAPS

\* No row is tried before itself.
LEMMA BeforeIrreflexive ==
  ASSUME NEW r \in BackupRow
  PROVE  ~Before(r, r)
BY SMT DEF Before, BackupRow

\* Rows tried in turn by two comparisons are tried in turn by one.
LEMMA BeforeTransitive ==
  ASSUME NEW r \in BackupRow, NEW s \in BackupRow, NEW t \in BackupRow,
         Before(r, s), Before(s, t)
  PROVE  Before(r, t)
BY SMT DEF Before, BackupRow

\* Two rows that the comparator leaves unordered have one teeInstanceId.
LEMMA BeforeTotal ==
  ASSUME NEW r \in BackupRow, NEW s \in BackupRow,
         ~Before(r, s), ~Before(s, r)
  PROVE  r.teeInstanceId = s.teeInstanceId
BY SMT DEF Before, BackupRow

\* The result of compareBackupAgents never depends on the order in which
\* SQLite returned the rows: the UNIQUE constraint on tee_instance_id rules
\* out the ties that sort() would leave in that order.
THEOREM ComparatorIsStrictTotalOrder ==
  ASSUME NEW R \in SUBSET BackupRow, UniqueTee(R)
  PROVE  /\ \A r \in R : ~Before(r, r)
         /\ \A r, s, t \in R : Before(r, s) /\ Before(s, t) => Before(r, t)
         /\ \A r, s \in R : r = s \/ Before(r, s) \/ Before(s, r)
<1>1. \A r \in R : ~Before(r, r)
  BY BeforeIrreflexive
<1>2. \A r, s, t \in R : Before(r, s) /\ Before(s, t) => Before(r, t)
  BY BeforeTransitive
<1>3. ASSUME NEW r \in R, NEW s \in R
      PROVE  r = s \/ Before(r, s) \/ Before(s, r)
  <2>1. SUFFICES ASSUME ~Before(r, s), ~Before(s, r) PROVE r = s
    OBVIOUS
  <2>2. r.teeInstanceId = s.teeInstanceId
    BY <2>1, BeforeTotal
  <2>3. QED
    BY <2>2 DEF UniqueTee
<1>4. QED
  BY <1>1, <1>2, <1>3

\* All guardians with the same table contact the same candidate first
\* (Decision 7): the best of the remaining rows is unique, so the candidate
\* loop is deterministic whatever the guardian.
THEOREM BestIsUnique ==
  ASSUME NEW R \in SUBSET BackupRow,
         NEW r, NEW s, IsBest(r, R), IsBest(s, R)
  PROVE  r = s
<1>1. SUFFICES ASSUME r # s PROVE FALSE
  OBVIOUS
<1>2. r \in BackupRow /\ s \in BackupRow /\ Before(r, s) /\ Before(s, r)
  BY <1>1 DEF IsBest
<1>3. Before(r, r)
  BY <1>2, BeforeTransitive
<1>4. QED
  BY <1>2, <1>3, BeforeIrreflexive

\* A non-empty set of naturals has a least element.
LEMMA LeastNatural ==
  ASSUME NEW S \in SUBSET Nat, S # {}
  PROVE  \E m \in S : \A k \in S : m <= k
<1>1. PICK m \in S : \A k \in S : <<k, m>> \notin OpToRel(<, Nat)
  BY NatLessThanWellFounded, WFMin
<1>2. \A k \in S : ~(k < m)
  BY <1>1 DEF OpToRel
<1>3. QED
  BY <1>2

\* There is always a next candidate as long as rows are left: Initiate and
\* the refusals of NextCandidate never get stuck on a tie.  A table is
\* finite, so its streaks have a bound.
THEOREM BestExists ==
  ASSUME NEW R \in SUBSET BackupRow, R # {}, UniqueTee(R),
         NEW B \in Nat, \A r \in R : r.streak <= B
  PROVE  \E r \in R : IsBest(r, R)
<1>1. PICK r1 \in R : \A s \in R : s.streak <= r1.streak
  <2> DEFINE S == {B - r.streak : r \in R}
  <2>1. S \in SUBSET Nat /\ S # {}
    BY DEF BackupRow
  <2>2. PICK m \in S : \A k \in S : m <= k
    BY <2>1, LeastNatural
  <2>3. PICK r \in R : m = B - r.streak
    OBVIOUS
  <2>4. \A s \in R : B - r.streak <= B - s.streak
    BY <2>2, <2>3
  <2>5. QED
    BY <2>4 DEF BackupRow
<1> DEFINE T == {r \in R : r.streak = r1.streak}
<1>2. PICK r2 \in T : \A s \in T : r2.registeredAt <= s.registeredAt
  <2> DEFINE S == {r.registeredAt : r \in T}
  <2>1. S \in SUBSET Nat /\ S # {}
    BY DEF BackupRow
  <2>2. PICK m \in S : \A k \in S : m <= k
    BY <2>1, LeastNatural
  <2>3. PICK r \in T : m = r.registeredAt
    OBVIOUS
  <2>4. QED
    BY <2>2, <2>3
<1> DEFINE U == {r \in T : r.registeredAt = r2.registeredAt}
<1>3. PICK r3 \in U : \A s \in U : r3.teeInstanceId <= s.teeInstanceId
  <2> DEFINE S == {r.teeInstanceId : r \in U}
  <2>1. S \in SUBSET Nat /\ S # {}
    BY DEF BackupRow
  <2>2. PICK m \in S : \A k \in S : m <= k
    BY <2>1, LeastNatural
  <2>3. PICK r \in U : m = r.teeInstanceId
    OBVIOUS
  <2>4. QED
    BY <2>2, <2>3
<1>4. ASSUME NEW s \in R \ {r3} PROVE Before(r3, s)
  <2>1. r3 \in BackupRow /\ s \in BackupRow /\ r1 \in BackupRow /\ r2 \in BackupRow
    OBVIOUS
  <2>2. r3.teeInstanceId # s.teeInstanceId
    BY DEF UniqueTee
  <2>3. QED
    BY <1>1, <1>2, <1>3, <2>1, <2>2 DEF Before, BackupRow
<1>5. QED
  BY <1>4 DEF IsBest

\* The candidate that follows a refusal is the next row of the sorted list:
\* what was best stays before all that is left, and a subset that keeps the
\* best row has the same best row.  A guardian that lost rows of the table,
\* but not the first, still contacts the same candidate.
THEOREM BestOfSubset ==
  ASSUME NEW R \in SUBSET BackupRow, NEW S \in SUBSET R,
         NEW r \in S, IsBest(r, R)
  PROVE  IsBest(r, S)
BY DEF IsBest

=============================================================================
