-------------------------- MODULE ReplicationProofs --------------------------
(***************************************************************************)
(* Proofs about Replication for any guardians, successions and faults.     *)
(*                                                                         *)
(* SeqOrdersContent compares snapshots that are under way with each other; *)
(* what keeps it is how they compare with the database the next one is     *)
(* taken from, the primary's or that of an old primary (Ordered).          *)
(* CopyListsHolder follows a snapshot from the task that sends it over the *)
(* network to the file (Listing).                                          *)
(***************************************************************************)
EXTENDS Replication, TLAPS

\* d holds all that s does, and s took its number from d.
Before(s, d) ==
  /\ s.seq <= d.seq
  /\ s.content.guardians \subseteq d.guardians
  /\ s.content.writes <= d.writes

\* What s and t have to do with each other.
InOrder(s, t) ==
  s.signedBy = t.signedBy =>
    /\ s.seq = t.seq => s = t
    /\ s.seq < t.seq => /\ s.content.guardians \subseteq t.content.guardians
                        /\ s.content.writes <= t.content.writes

\* Every snapshot is the work of the primary or of one before it, and the
\* databases of those that still run are ahead of their snapshots.
Ordered ==
  /\ \A s \in Issued :
       /\ s.signedBy \in 1 .. primary
       /\ s.signedBy = primary => Before(s, db)
       /\ old # None /\ s.signedBy = old.primary => Before(s, old.db)
  /\ SeqOrdersContent

\* A snapshot lists whom it is, or is to be, sent to.
Listing ==
  /\ \A t \in tasks : t.todo \cup ({t.current} \ {None})
                        \subseteq t.snapshot.content.guardians
  /\ \A m \in net \cup applying : m.guardian \in m.snapshot.content.guardians
  /\ CopyListsHolder

IInv == TypeOK /\ Ordered /\ Listing

-----------------------------------------------------------------------------
(* Helpers of the snapshots.                                               *)

LEMMA NextSnapshotTypes ==
  ASSUME NEW d \in Database, NEW p \in Nat
  PROVE  NextSnapshot(d, p) \in Snapshot /\ Numbered(d) \in Database
BY DEF NextSnapshot, Numbered, Snapshot, Database

\* A number is taken: the snapshot and all before it are behind what is left.
LEMMA NextSnapshotAhead ==
  ASSUME NEW d \in Database, NEW e \in Database, NEW p,
         d.guardians \subseteq e.guardians, d.writes = e.writes, d.seq = e.seq
  PROVE  /\ Before(NextSnapshot(e, p), Numbered(e))
         /\ \A s \in Snapshot : Before(s, d) =>
              Before(s, Numbered(e)) /\ s.seq < e.seq + 1
<1>1. /\ Numbered(e).guardians = e.guardians /\ Numbered(e).writes = e.writes
      /\ Numbered(e).seq = e.seq + 1
  BY DEF Numbered, Database
<1>2. Before(NextSnapshot(e, p), Numbered(e))
  BY <1>1 DEF NextSnapshot, Before, Database
<1>3. ASSUME NEW s \in Snapshot, Before(s, d)
      PROVE  Before(s, Numbered(e)) /\ s.seq < e.seq + 1
  BY <1>1, <1>3 DEF Before, Database, Snapshot
<1> QED BY <1>2, <1>3

LEMMA IssuedTypes == TypeOK => Issued \subseteq Snapshot
BY DEF TypeOK, Issued, Task, Message

-----------------------------------------------------------------------------
(* What a step does to the snapshots that are under way.                   *)

\* It makes none, and leaves the databases they are compared with.
Quiet == Issued' \subseteq Issued /\ UNCHANGED <<primary, db, old>>

\* A snapshot of d was taken by the primary; d is its database, to which the
\* admitted guardian was added.
Took(d) ==
  /\ d \in Database /\ db.guardians \subseteq d.guardians
  /\ d.writes = db.writes /\ d.seq = db.seq
  /\ db' = Numbered(d)
  /\ Issued' \subseteq Issued \cup {NextSnapshot(d, primary)}
  /\ UNCHANGED <<primary, old>>

LEMMA NewTaskIs ==
  ASSUME NEW k, NEW d, NEW g, NEW G
  PROVE  NewTask(k, d, g, G).snapshot = NextSnapshot(d, primary)
BY DEF NewTask

LEMMA TaskStepQuiet ==
  ASSUME TypeOK, NEW t \in tasks,
         \/ PushSigned(t) \/ PushAnswered(t) \/ \E g \in t.todo : PushTo(t, g)
  PROVE  Quiet
<1>1. UNCHANGED <<primary, db, old, applying>>
  BY DEF PushSigned, PushAnswered, PushTo, guardianVars
<1>2. t \in Task
  BY DEF TypeOK
<1>3. CASE PushSigned(t)
  <2>1. [t EXCEPT !.step = "send"].snapshot = t.snapshot
    BY <1>2 DEF Task
  <2> QED BY <1>1, <1>3, <2>1 DEF PushSigned, Quiet, Issued
<1>4. CASE PushAnswered(t)
  <2>1. [t EXCEPT !.current = None].snapshot = t.snapshot
    BY <1>2 DEF Task
  <2> QED BY <1>1, <1>4, <2>1 DEF PushAnswered, Quiet, Issued
<1>5. ASSUME NEW g \in t.todo, PushTo(t, g)
      PROVE  Quiet
  <2>1. [t EXCEPT !.current = g, !.todo = @ \ {g}].snapshot = t.snapshot
    BY <1>2 DEF Task
  <2>2. Msg("push", g, t.snapshot).snapshot = t.snapshot
    BY DEF Msg
  <2> QED BY <1>1, <1>5, <2>1, <2>2 DEF PushTo, Quiet, Issued
<1> QED BY <1>3, <1>4, <1>5

LEMMA GuardianStepQuiet ==
  ASSUME TypeOK,
         \/ \E g \in Guardian :
              AskAdmission(g) \/ AdmissionTimeout(g) \/ GuardianRestart(g)
         \/ \E m \in net : AdmissionReceived(m) \/ RecoveryReceived(m)
         \/ \E m \in applying : SnapshotApplied(m) \/ SnapshotTorn(m)
  PROVE  Quiet
<1>1. UNCHANGED <<primary, db, old>>
  BY DEF AskAdmission, AdmissionTimeout, GuardianRestart, AdmissionReceived,
     RecoveryReceived, SnapshotApplied, SnapshotTorn, primaryVars
<1>2. \A u \in tasks' : \E t \in tasks : u.snapshot = t.snapshot
  <2>1. CASE \E g \in Guardian : AdmissionTimeout(g)
    BY <2>1 DEF AdmissionTimeout, TypeOK, Task
  <2>2. CASE tasks' = tasks
    BY <2>2
  <2> QED BY <2>1, <2>2
          DEF AskAdmission, GuardianRestart, AdmissionReceived,
              RecoveryReceived, SnapshotApplied, SnapshotTorn, primaryVars
<1>3. net' \cup applying' \subseteq net \cup applying
  BY DEF AskAdmission, AdmissionTimeout, GuardianRestart, AdmissionReceived,
     RecoveryReceived, SnapshotApplied, SnapshotTorn
<1> QED BY <1>1, <1>2, <1>3 DEF Quiet, Issued

LEMMA PrimaryStepTakes ==
  ASSUME TypeOK,
         \/ PushTimer \/ \E g \in Guardian : Admit(g)
         \/ \E t \in tasks : AdmissionSigned(t)
  PROVE  \E d : Took(d)
<1>1. CASE PushTimer
  <2>1. Issued' \subseteq Issued \cup {NextSnapshot(db, primary)}
    BY <1>1, NewTaskIs DEF PushTimer, StartPush, Issued, guardianVars
  <2> QED BY <1>1, <2>1 DEF PushTimer, StartPush, Took, TypeOK
<1>2. ASSUME NEW g \in Guardian, Admit(g)
      PROVE  \E d : Took(d)
  <2> DEFINE d == [db EXCEPT !.guardians = @ \cup {g}]
  <2>1. /\ d \in Database /\ db.guardians \subseteq d.guardians
        /\ d.writes = db.writes /\ d.seq = db.seq
    BY DEF TypeOK, Database
  <2>2. Issued' \subseteq Issued \cup {NextSnapshot(d, primary)}
    BY <1>2, NewTaskIs DEF Admit, Issued, guardianVars
  <2>3. db' = Numbered(d) /\ UNCHANGED <<primary, old>>
    BY <1>2 DEF Admit
  <2> QED BY <2>1, <2>2, <2>3 DEF Took
<1>3. ASSUME NEW t \in tasks, AdmissionSigned(t)
      PROVE  \E d : Took(d)
  <2>1. \A m \in net' : m \in net \/ m.snapshot = t.snapshot
    BY <1>3 DEF AdmissionSigned, Msg
  <2>2. Issued' \subseteq Issued \cup {NextSnapshot(db, primary)}
    BY <1>3, <2>1, NewTaskIs DEF AdmissionSigned, StartPush, Issued, guardianVars
  <2> QED BY <1>3, <2>2 DEF AdmissionSigned, StartPush, Took, TypeOK
<1> QED BY <1>1, <1>2, <1>3

\* A successor starts without tasks; the old primary's work may go on.
LEMMA SucceedIs ==
  ASSUME TypeOK, NEW g \in Guardian, Succeed(g)
  PROVE  /\ primary' = primary + 1 /\ primary < MaxPrimary
         /\ db' = copy[g] /\ copy[g] \in Database
         /\ Issued' \subseteq Issued
         /\ old' = None
            \/ old' = [db |-> db, primary |-> primary, upTo |-> db.seq]
<1>1. Issued' \subseteq Issued
  BY DEF Succeed, Issued
<1> QED BY <1>1 DEF Succeed

LEMMA OldPrimaryIs ==
  ASSUME TypeOK, OldPrimaryPushes
  PROVE  /\ old # None /\ UNCHANGED <<primary, db, tasks, guardianVars>>
         /\ old' = [old EXCEPT !.db = Numbered(@)]
         /\ \A m \in net' : m \in net \/
              \E g \in old.db.guardians :
                m = Msg("push", g, NextSnapshot(old.db, old.primary))
         /\ Issued' \subseteq Issued \cup {NextSnapshot(old.db, old.primary)}
<1>1. /\ old # None /\ UNCHANGED <<primary, db, tasks, guardianVars>>
      /\ old' = [old EXCEPT !.db = Numbered(@)]
      /\ \A m \in net' : m \in net \/
           \E g \in old.db.guardians :
             m = Msg("push", g, NextSnapshot(old.db, old.primary))
  BY DEF OldPrimaryPushes
<1>2. Issued' \subseteq Issued \cup {NextSnapshot(old.db, old.primary)}
  BY <1>1 DEF Issued, Msg, guardianVars
<1> QED BY <1>1, <1>2

\* Every step is of one of these kinds.
LEMMA NextIs ==
  ASSUME TypeOK, [Next]_vars
  PROVE  \/ Quiet \/ WriteRow \/ OldPrimaryPushes
         \/ \E d : Took(d)
         \/ \E g \in Guardian : Succeed(g)
<1>1. CASE UNCHANGED vars
  BY <1>1 DEF vars, primaryVars, guardianVars, Quiet, Issued
<1>2. CASE Next
  BY <1>2, TaskStepQuiet, GuardianStepQuiet, PrimaryStepTakes DEF Next
<1> QED BY <1>1, <1>2

-----------------------------------------------------------------------------
(* Numbers order contents.                                                 *)

SeqOrders == \A s, t \in Issued : InOrder(s, t)

LEMMA SeqOrdersIs == SeqOrdersContent <=> SeqOrders
BY DEF SeqOrdersContent, SeqOrders, InOrder

\* A new snapshot n of database d is in order with those taken from d before.
LEMMA NewInOrder ==
  ASSUME NEW d \in Database, NEW s \in Snapshot, NEW n \in Snapshot,
         s.signedBy = n.signedBy => Before(s, d) /\ s.seq < n.seq,
         n.content.writes = d.writes, d.guardians \subseteq n.content.guardians
  PROVE  InOrder(s, n) /\ InOrder(n, s) /\ InOrder(n, n)
BY DEF InOrder, Before, Snapshot, Database

LEMMA OrderedKept ==
  ASSUME TypeOK, Ordered, [Next]_vars
  PROVE  Ordered'
<1> USE SeqOrdersIs
<1>0. Issued \subseteq Snapshot /\ primary \in Nat /\ db \in Database
  BY IssuedTypes DEF TypeOK
<1>1. CASE Quiet
  BY <1>1 DEF Quiet, Ordered, SeqOrdersContent
<1>2. CASE WriteRow
  <2>1. Issued' = Issued /\ UNCHANGED <<primary, old>>
    BY <1>2 DEF WriteRow, Issued, guardianVars
  <2>2. \A s \in Snapshot : Before(s, db) => Before(s, db')
    BY <1>0, <1>2 DEF WriteRow, Before, Database, Snapshot
  <2> QED BY <1>0, <2>1, <2>2 DEF Ordered, SeqOrdersContent
<1>3. ASSUME NEW d, Took(d)
      PROVE  Ordered'
  <2> DEFINE n == NextSnapshot(d, primary)
  <2>1. /\ d \in Database /\ db.guardians \subseteq d.guardians
        /\ db.writes = d.writes /\ db.seq = d.seq /\ db' = Numbered(d)
        /\ Issued' \subseteq Issued \cup {n}
        /\ UNCHANGED <<primary, old>>
    BY <1>3 DEF Took
  <2>2. n \in Snapshot /\ n.signedBy = primary /\ n.content = d /\ n.seq = d.seq + 1
    BY <1>0, <2>1, NextSnapshotTypes DEF NextSnapshot
  <2>3. /\ Before(n, db')
        /\ \A s \in Snapshot : Before(s, db) => Before(s, db') /\ s.seq < n.seq
    BY <1>0, <2>1, <2>2, NextSnapshotAhead
  <2>4. old # None => old.primary < primary
    BY <1>0 DEF TypeOK
  <2> HIDE DEF n
  <2>5. \A s \in Issued' :
          /\ s.signedBy \in 1 .. primary'
          /\ s.signedBy = primary' => Before(s, db')
          /\ old' # None /\ s.signedBy = old'.primary => Before(s, old'.db)
    BY <1>0, <2>1, <2>2, <2>3, <2>4 DEF Ordered, TypeOK
  <2>6. \A s \in Issued : InOrder(s, n) /\ InOrder(n, s) /\ InOrder(n, n)
    BY <1>0, <2>1, <2>2, <2>3, NewInOrder DEF Ordered
  <2>7. n \in Issued' => InOrder(n, n)
    BY <2>2 DEF InOrder, Snapshot
  <2>8. SeqOrders'
    BY <2>1, <2>6, <2>7 DEF SeqOrders, Ordered, InOrder
  <2> QED BY <2>5, <2>8 DEF Ordered, SeqOrdersContent, SeqOrders, InOrder
<1>4. CASE OldPrimaryPushes
  <2> DEFINE n == NextSnapshot(old.db, old.primary)
  <2>1. /\ old # None /\ UNCHANGED <<primary, db>>
        /\ old' = [old EXCEPT !.db = Numbered(@)]
        /\ Issued' \subseteq Issued \cup {n}
    BY <1>4, OldPrimaryIs
  <2>2. old.db \in Database /\ old.primary \in 1 .. primary - 1
    BY <2>1 DEF TypeOK
  <2>3. n \in Snapshot /\ n.signedBy = old.primary /\ n.content = old.db
        /\ n.seq = old.db.seq + 1
    BY <1>0, <2>2, NextSnapshotTypes DEF NextSnapshot
  <2>4. /\ Before(n, Numbered(old.db))
        /\ \A s \in Snapshot : Before(s, old.db) =>
             Before(s, Numbered(old.db)) /\ s.seq < n.seq
    BY <2>2, <2>3, NextSnapshotAhead
  <2>5. /\ old'.primary = old.primary /\ old'.db = Numbered(old.db)
        /\ old.primary # primary
    BY <1>0, <2>1 DEF TypeOK
  <2> HIDE DEF n
  <2>6. \A s \in Issued' :
          /\ s.signedBy \in 1 .. primary'
          /\ s.signedBy = primary' => Before(s, db')
          /\ s.signedBy = old'.primary => Before(s, old'.db)
    BY <1>0, <2>1, <2>2, <2>3, <2>4, <2>5 DEF Ordered
  <2>7. SeqOrders'
    <3>1. \A s \in Issued : InOrder(s, n) /\ InOrder(n, s)
      BY <1>0, <2>1, <2>2, <2>3, <2>4, NewInOrder DEF Ordered
    <3>2. InOrder(n, n)
      BY <2>3 DEF InOrder, Snapshot
    <3> QED BY <2>1, <3>1, <3>2 DEF SeqOrders, Ordered, InOrder
  <2> QED BY <2>6, <2>7 DEF Ordered, SeqOrdersContent, SeqOrders, InOrder
<1>5. ASSUME NEW g \in Guardian, Succeed(g)
      PROVE  Ordered'
  <2>1. /\ primary' = primary + 1 /\ Issued' \subseteq Issued
        /\ old' = None
           \/ old' = [db |-> db, primary |-> primary, upTo |-> db.seq]
    BY <1>5, SucceedIs
  <2>2. \A s \in Issued' :
          /\ s.signedBy \in 1 .. primary' /\ s.signedBy # primary'
          /\ old' # None /\ s.signedBy = old'.primary => Before(s, old'.db)
    BY <1>0, <2>1 DEF Ordered
  <2> QED BY <2>1, <2>2 DEF Ordered, SeqOrdersContent
<1> QED BY <1>1, <1>2, <1>3, <1>4, <1>5, NextIs

-----------------------------------------------------------------------------
(* A copy lists its holder.                                                *)

LEMMA TaskStepLists ==
  ASSUME TypeOK, Listing, NEW t \in tasks,
         \/ PushSigned(t) \/ PushAnswered(t) \/ \E g \in t.todo : PushTo(t, g)
  PROVE  Listing'
<1>1. t \in Task /\ UNCHANGED <<copy, applying>>
  BY DEF TypeOK, PushSigned, PushAnswered, PushTo, guardianVars
<1>2. CASE PushSigned(t)
  BY <1>1, <1>2 DEF PushSigned, Listing, CopyListsHolder, Task
<1>3. CASE PushAnswered(t)
  <2> DEFINE u == [t EXCEPT !.current = None]
  <2>1. u.todo = t.todo /\ u.current = None /\ u.snapshot = t.snapshot
    BY <1>1 DEF Task
  <2> QED BY <1>1, <1>3, <2>1 DEF PushAnswered, Listing, CopyListsHolder
<1>4. ASSUME NEW g \in t.todo, PushTo(t, g)
      PROVE  Listing'
  <2> DEFINE u == [t EXCEPT !.current = g, !.todo = @ \ {g}]
             m == Msg("push", g, t.snapshot)
  <2>1. u.todo \subseteq t.todo /\ u.current = g /\ u.snapshot = t.snapshot
    BY <1>1 DEF Task
  <2>2. m.guardian = g /\ m.snapshot = t.snapshot
    BY DEF Msg
  <2>3. net' = net \cup {m} /\ tasks' = (tasks \ {t}) \cup {u}
    BY <1>4 DEF PushTo
  <2> HIDE DEF u, m
  <2> QED BY <1>1, <2>1, <2>2, <2>3 DEF Listing, CopyListsHolder
<1> QED BY <1>2, <1>3, <1>4

\* A task that is started lists whom it answers or pushes to.
LEMMA NewTaskLists ==
  ASSUME NEW k, NEW d, NEW g \in d.guardians \cup {None},
         NEW G \in SUBSET d.guardians, NEW t, t = NewTask(k, d, g, G)
  PROVE  t.todo \cup ({t.current} \ {None}) \subseteq t.snapshot.content.guardians
BY DEF NewTask, NextSnapshot

LEMMA PrimaryStepLists ==
  ASSUME TypeOK, Listing,
         \/ PushTimer \/ \E g \in Guardian : Admit(g)
         \/ \E t \in tasks : AdmissionSigned(t)
  PROVE  Listing'
<1>1. CASE PushTimer
  BY <1>1, NewTaskLists
     DEF PushTimer, StartPush, Listing, CopyListsHolder, guardianVars
<1>2. ASSUME NEW g \in Guardian, Admit(g)
      PROVE  Listing'
  <2> DEFINE d == [db EXCEPT !.guardians = @ \cup {g}]
  <2>1. g \in d.guardians
    BY DEF TypeOK, Database
  <2> QED BY <1>2, <2>1, NewTaskLists
          DEF Admit, Listing, CopyListsHolder, guardianVars
<1>3. ASSUME NEW t \in tasks, AdmissionSigned(t)
      PROVE  Listing'
  <2>1. \A m \in net' : m \in net \/
          (m.guardian = t.current /\ t.current # None /\ m.snapshot = t.snapshot)
    BY <1>3 DEF AdmissionSigned, Msg
  <2>2. \A m \in net' : m.guardian \in m.snapshot.content.guardians
    BY <2>1 DEF Listing
  <2>3. \A u \in tasks' : u.todo \cup ({u.current} \ {None})
                            \subseteq u.snapshot.content.guardians
    BY <1>3, NewTaskLists DEF AdmissionSigned, StartPush, Listing
  <2> QED BY <1>3, <2>2, <2>3
          DEF AdmissionSigned, Listing, CopyListsHolder, guardianVars
<1> QED BY <1>1, <1>2, <1>3

LEMMA GuardianStepLists ==
  ASSUME TypeOK, Listing,
         \/ \E g \in Guardian :
              AskAdmission(g) \/ AdmissionTimeout(g) \/ GuardianRestart(g)
         \/ \E m \in net : AdmissionReceived(m) \/ RecoveryReceived(m)
         \/ \E m \in applying : SnapshotApplied(m) \/ SnapshotTorn(m)
  PROVE  Listing'
<1>1. CASE \E g \in Guardian : AskAdmission(g)
  BY <1>1 DEF AskAdmission, Listing, CopyListsHolder, primaryVars
<1>2. ASSUME NEW g \in Guardian, AdmissionTimeout(g)
      PROVE  Listing'
  <2>1. \A t \in tasks : LET u == [t EXCEPT !.current = None] IN
          u.todo = t.todo /\ u.current = None /\ u.snapshot = t.snapshot
    BY DEF TypeOK, Task
  <2>2. \A u \in tasks' : u.todo \cup ({u.current} \ {None})
                            \subseteq u.snapshot.content.guardians
    BY <1>2, <2>1 DEF AdmissionTimeout, Listing
  <2> QED BY <1>2, <2>2 DEF AdmissionTimeout, Listing, CopyListsHolder
<1>3. CASE \E m \in net : AdmissionReceived(m) \/ RecoveryReceived(m)
  BY <1>3 DEF AdmissionReceived, RecoveryReceived, Listing, CopyListsHolder,
              primaryVars
<1>4. ASSUME NEW m \in applying, SnapshotApplied(m)
      PROVE  Listing'
  <2>1. CopyListsHolder'
    BY <1>4 DEF SnapshotApplied, TypeOK, Listing, CopyListsHolder
  <2> QED BY <1>4, <2>1 DEF SnapshotApplied, Listing, primaryVars
\* A torn file is no copy.
<1>5. CASE \/ \E m \in applying : SnapshotTorn(m)
           \/ \E g \in Guardian : GuardianRestart(g)
  <2>1. \A g \in Guardian : copy'[g] = copy[g] \/ copy'[g] = Torn
    BY <1>5 DEF SnapshotTorn, GuardianRestart, TypeOK
  <2>2. CopyListsHolder'
    BY <2>1, ReplicationAssumption DEF Listing, CopyListsHolder
  <2>3. tasks' = tasks /\ net' \subseteq net /\ applying' \subseteq applying
    BY <1>5 DEF SnapshotTorn, GuardianRestart, primaryVars
  <2> QED BY <2>2, <2>3 DEF Listing
<1> QED BY <1>1, <1>2, <1>3, <1>4, <1>5

LEMMA ListingKept ==
  ASSUME TypeOK, Listing, [Next]_vars
  PROVE  Listing'
<1>1. CASE OldPrimaryPushes
  <2>1. \A m \in net' : m.guardian \in m.snapshot.content.guardians
    BY <1>1, OldPrimaryIs DEF Listing, Msg, NextSnapshot
  <2> QED BY <1>1, <2>1, OldPrimaryIs DEF Listing, CopyListsHolder, guardianVars
<1>2. ASSUME NEW g \in Guardian, Succeed(g)
      PROVE  Listing'
  <2>1. Numbered(copy[g]).guardians = copy[g].guardians
    BY <1>2 DEF Succeed, Numbered, Database
  <2>2. CopyListsHolder'
    BY <1>2, <2>1 DEF Succeed, Listing, CopyListsHolder, TypeOK
  <2> QED BY <1>2, <2>2 DEF Succeed, Listing
<1>3. CASE WriteRow \/ UNCHANGED vars
  BY <1>3 DEF WriteRow, vars, primaryVars, guardianVars, Listing, CopyListsHolder
<1> QED BY <1>1, <1>2, <1>3, TaskStepLists, PrimaryStepLists, GuardianStepLists
        DEF Next

-----------------------------------------------------------------------------
(* Types.                                                                  *)

LEMMA NewTaskTypes ==
  ASSUME TypeOK, NEW k \in {"push", "admission"}, NEW d \in Database,
         NEW g \in Guardian \cup {None}, NEW G \in SUBSET Guardian
  PROVE  NewTask(k, d, g, G) \in Task /\ Numbered(d) \in Database
<1>1. NextSnapshot(d, primary) \in Snapshot /\ Numbered(d) \in Database
  BY NextSnapshotTypes DEF TypeOK
<1> QED BY <1>1 DEF NewTask, Task

LEMMA FaultTypes == faults \in 0 .. MaxFaults /\ Fault => faults' \in 0 .. MaxFaults
BY ReplicationAssumption DEF Fault

LEMMA PushStartTypes ==
  ASSUME TypeOK, NEW ts \in SUBSET Task, StartPush(db, ts)
  PROVE  tasks' \subseteq Task /\ db' \in Database
<1>1. db \in Database /\ db.guardians \in SUBSET Guardian
  BY DEF TypeOK, Database
<1> QED BY <1>1, NewTaskTypes DEF StartPush

LEMMA PrimaryStepTypes ==
  ASSUME TypeOK,
         \/ WriteRow \/ PushTimer \/ OldPrimaryPushes
         \/ \E g \in Guardian : Admit(g)
         \/ \E t \in tasks : AdmissionSigned(t)
  PROVE  TypeOK'
<1>1. CASE WriteRow
  BY <1>1 DEF WriteRow, TypeOK, Database, guardianVars
<1>2. CASE PushTimer
  <2>1. tasks' \subseteq Task /\ db' \in Database
    BY <1>2, PushStartTypes DEF PushTimer, TypeOK
  <2> QED BY <1>2, <2>1 DEF PushTimer, TypeOK, guardianVars
<1>3. CASE OldPrimaryPushes
  <2>1. /\ old.db \in Database /\ old.primary \in 1 .. primary - 1
        /\ old.upTo \in Nat /\ primary \in Nat
        /\ old' = [db |-> Numbered(old.db), primary |-> old.primary,
                   upTo |-> old.upTo]
    BY <1>3 DEF OldPrimaryPushes, TypeOK
  <2>2. /\ NextSnapshot(old.db, old.primary) \in Snapshot
        /\ Numbered(old.db) \in Database
    BY <2>1, NextSnapshotTypes
  <2>3. old' \in {None} \cup
                 [db : Database, primary : 1 .. primary' - 1, upTo : Nat]
    BY <1>3, <2>1, <2>2 DEF OldPrimaryPushes
  <2>4. net' \subseteq Message
    BY <1>3, <2>1, <2>2 DEF OldPrimaryPushes, TypeOK, Msg, Message, Database
  <2> QED BY <1>3, <2>3, <2>4 DEF OldPrimaryPushes, TypeOK, guardianVars
<1>4. ASSUME NEW g \in Guardian, Admit(g)
      PROVE  TypeOK'
  <2> DEFINE d == [db EXCEPT !.guardians = @ \cup {g}]
  <2>1. d \in Database
    BY DEF TypeOK, Database
  <2>2. tasks' \subseteq Task /\ db' \in Database
    BY <1>4, <2>1, NewTaskTypes DEF Admit, TypeOK
  <2> QED BY <1>4, <2>2 DEF Admit, TypeOK, guardianVars
<1>5. ASSUME NEW t \in tasks, AdmissionSigned(t)
      PROVE  TypeOK'
  <2>1. tasks' \subseteq Task /\ db' \in Database
    BY <1>5, PushStartTypes DEF AdmissionSigned, TypeOK
  <2>2. net' \subseteq Message
    BY <1>5 DEF AdmissionSigned, TypeOK, Task, Msg, Message
  <2> QED BY <1>5, <2>1, <2>2 DEF AdmissionSigned, TypeOK, guardianVars
<1> QED BY <1>1, <1>2, <1>3, <1>4, <1>5

LEMMA TaskStepTypes ==
  ASSUME TypeOK, NEW t \in tasks,
         \/ PushSigned(t) \/ PushAnswered(t) \/ \E g \in t.todo : PushTo(t, g)
  PROVE  TypeOK'
<1>1. t \in Task
  BY DEF TypeOK
<1>2. CASE PushSigned(t)
  <2>1. tasks' \subseteq Task
    BY <1>1, <1>2 DEF PushSigned, TypeOK, Task
  <2> QED BY <1>2, <2>1 DEF PushSigned, TypeOK, guardianVars
<1>3. CASE PushAnswered(t)
  <2>1. tasks' \subseteq Task
    BY <1>1, <1>3 DEF PushAnswered, TypeOK, Task
  <2>2. faults' \in 0 .. MaxFaults
    BY <1>3, FaultTypes DEF PushAnswered, TypeOK
  <2> QED BY <1>3, <2>1, <2>2 DEF PushAnswered, TypeOK, guardianVars
<1>4. ASSUME NEW g \in t.todo, PushTo(t, g)
      PROVE  TypeOK'
  <2> DEFINE u == [t EXCEPT !.current = g, !.todo = @ \ {g}]
  <2>1. g \in Guardian /\ t.snapshot \in Snapshot
    BY <1>1 DEF Task
  <2>2. u \in Task
    BY <1>1, <2>1 DEF Task
  <2>3. tasks' \subseteq Task
    BY <1>4, <2>2 DEF PushTo, TypeOK
  <2>4. net' \subseteq Message
    <3>1. Msg("push", g, t.snapshot) \in Message
      BY <2>1 DEF Msg, Message
    <3> QED BY <1>4, <3>1 DEF PushTo, TypeOK
  <2> QED BY <1>4, <2>3, <2>4 DEF PushTo, TypeOK, guardianVars
<1> QED BY <1>2, <1>3, <1>4

\* A guardian gets the key of a primary there was.
LEMMA GuardianStepTypes ==
  ASSUME TypeOK, Ordered,
         \/ \E g \in Guardian :
              AskAdmission(g) \/ AdmissionTimeout(g) \/ GuardianRestart(g)
         \/ \E m \in net : AdmissionReceived(m) \/ RecoveryReceived(m)
         \/ \E m \in applying : SnapshotApplied(m) \/ SnapshotTorn(m)
  PROVE  TypeOK'
<1>1. CASE \E g \in Guardian : AskAdmission(g)
  BY <1>1 DEF AskAdmission, TypeOK, primaryVars
<1>2. ASSUME NEW g \in Guardian, AdmissionTimeout(g)
      PROVE  TypeOK'
  <2>1. tasks' \subseteq Task
    BY <1>2 DEF AdmissionTimeout, TypeOK, Task
  <2>2. faults' \in 0 .. MaxFaults
    BY <1>2, FaultTypes DEF AdmissionTimeout, TypeOK
  <2> QED BY <1>2, <2>1, <2>2 DEF AdmissionTimeout, TypeOK
<1>3. ASSUME NEW m \in net, AdmissionReceived(m)
      PROVE  TypeOK'
  <2>1. m.guardian \in Guardian /\ m.snapshot.signedBy \in 1 .. MaxPrimary
    <3>1. m.guardian \in Guardian /\ primary \in 1 .. MaxPrimary
      BY DEF TypeOK, Message
    <3>2. m.snapshot.signedBy \in 1 .. primary
      BY DEF Ordered, Issued
    <3> QED BY <3>1, <3>2, ReplicationAssumption
  <2>2. vaultKey' \in [Guardian -> (1 .. MaxPrimary) \cup {None}]
    BY <1>3, <2>1 DEF AdmissionReceived, TypeOK
  <2> QED BY <1>3, <2>2 DEF AdmissionReceived, TypeOK, primaryVars
<1>4. CASE \E m \in net : RecoveryReceived(m)
  BY <1>4 DEF RecoveryReceived, TypeOK, primaryVars
<1>5. ASSUME NEW m \in applying, SnapshotApplied(m)
      PROVE  TypeOK'
  <2>1. m.snapshot.content \in Database
    BY DEF TypeOK, Message, Snapshot
  <2> QED BY <1>5, <2>1 DEF SnapshotApplied, TypeOK, primaryVars
<1>6. ASSUME NEW m \in applying, SnapshotTorn(m)
      PROVE  TypeOK'
  BY <1>6 DEF SnapshotTorn, TypeOK, primaryVars
<1>7. ASSUME NEW g \in Guardian, GuardianRestart(g)
      PROVE  TypeOK'
  <2>1. faults' \in 0 .. MaxFaults
    BY <1>7, FaultTypes DEF GuardianRestart, TypeOK
  <2> QED BY <1>7, <2>1 DEF GuardianRestart, TypeOK, primaryVars
<1> QED BY <1>1, <1>2, <1>3, <1>4, <1>5, <1>6, <1>7

LEMMA TypesKept ==
  ASSUME TypeOK, Ordered, [Next]_vars
  PROVE  TypeOK'
<1>1. ASSUME NEW g \in Guardian, Succeed(g)
      PROVE  TypeOK'
  <2>1. primary' = primary + 1 /\ primary' \in 1 .. MaxPrimary
    BY <1>1, ReplicationAssumption DEF Succeed, TypeOK
  <2>2. old' \in {None} \cup
                 [db : Database, primary : 1 .. primary' - 1, upTo : Nat]
    BY <1>1, <2>1 DEF Succeed, TypeOK, Database
  <2>3. copy' \in [Guardian -> Database \cup {None, Torn}]
    BY <1>1, NextSnapshotTypes DEF Succeed, TypeOK
  <2>4. faults' \in 0 .. MaxFaults
    BY <1>1, FaultTypes DEF Succeed, TypeOK
  <2> QED BY <1>1, <2>1, <2>2, <2>3, <2>4 DEF Succeed, TypeOK
<1>2. CASE UNCHANGED vars
  BY <1>2 DEF TypeOK, vars, primaryVars, guardianVars
<1> QED BY <1>1, <1>2, PrimaryStepTypes, TaskStepTypes, GuardianStepTypes DEF Next

-----------------------------------------------------------------------------
(* The specification.                                                      *)

LEMMA InvHolds == Spec => []IInv
<1>1. Init => IInv
  <2> SUFFICES ASSUME Init PROVE IInv
    OBVIOUS
  <2>1. TypeOK
    BY ReplicationAssumption DEF Init, TypeOK, Database
  <2>2. Issued = {}
    BY DEF Init, Issued
  <2>3. Ordered
    BY <2>2 DEF Ordered, SeqOrdersContent
  <2>4. Listing
    BY ReplicationAssumption DEF Init, Listing, CopyListsHolder
  <2> QED BY <2>1, <2>3, <2>4 DEF IInv
<1>2. IInv /\ [Next]_vars => IInv'
  BY TypesKept, OrderedKept, ListingKept DEF IInv
<1> QED BY <1>1, <1>2, PTL DEF Spec

\* Every variable keeps its type; what a guardian holds as its vault key is
\* the key of one of the primaries there have been.
THEOREM TypeCorrect == Spec => []TypeOK
<1>1. IInv => TypeOK
  BY DEF IInv
<1> QED BY <1>1, InvHolds, PTL

\* SeqOrdersContent: createSnapshot's numbers order the contents of all
\* snapshots of a signer, however many pushes and admissions sign at once,
\* also those of an old primary that goes on after its succession.
THEOREM SeqOrdersContentHolds == Spec => []SeqOrdersContent
<1>1. IInv => SeqOrdersContent
  BY DEF IInv, Ordered
<1> QED BY <1>1, InvHolds, PTL

\* CopyListsHolder: the guardian.db a guardian can hand to a successor lists
\* that guardian, through any number of admissions, pushes and successions.
THEOREM CopyListsHolderHolds == Spec => []CopyListsHolder
<1>1. IInv => CopyListsHolder
  BY DEF IInv, Listing
<1> QED BY <1>1, InvHolds, PTL

=============================================================================
