------------------------ MODULE NetworkManagerProofs ------------------------
(***************************************************************************)
(* Proofs that overlapping evaluations pay and create only so much, for    *)
(* every number of evaluations, every price and every number of machines.  *)
(* SurplusIsBounded is inductive with the types of what it counts: a       *)
(* caller starts to pay only while the balance is below the price, and a   *)
(* payment trades one paying caller for one unit of balance.               *)
(* CreationsAreBounded needs to know when the manager stops: a role is     *)
(* Blocked once enough rows count or a machine is pending, no step         *)
(* unblocks it, and before that every machine has cost a fault.            *)
(***************************************************************************)
EXTENDS NetworkManager, FiniteSetTheorems, TLAPS

Balanced ==
  /\ call \in [Evaluation -> Call]
  /\ credit \in Nat
  /\ SurplusIsBounded

LEMMA PayingIsFinite ==
  /\ IsFiniteSet(Paying) /\ Cardinality(Paying) \in Nat
  /\ Cardinality(Paying) <= Cardinality(Evaluation)
  /\ Cardinality(Evaluation) \in Nat
<1>1. IsFiniteSet(Evaluation)
  BY SecretVmAssumption
<1>2. Paying \subseteq Evaluation
  BY DEF Paying
<1> QED BY <1>1, <1>2, FS_Subset, FS_CardinalityType

\* One caller joins or leaves those that pay, or their number stays.
LEMMA OneMoves ==
  ASSUME NEW e \in Evaluation, NEW to \in Call,
         call \in [Evaluation -> Call], Goes(e, to)
  PROVE  /\ call' \in [Evaluation -> Call]
         /\ Cardinality(Paying') \in Nat
         /\ Cardinality(Paying') <= Cardinality(Evaluation)
         /\ to \notin {"topUp", "pay", "payAgain"} =>
              /\ Cardinality(Paying') <= Cardinality(Paying)
              /\ e \in Paying => Cardinality(Paying') = Cardinality(Paying) - 1
         /\ e \in Paying => Cardinality(Paying') <= Cardinality(Paying)
<1>1. /\ call' \in [Evaluation -> Call]
      /\ call' = [call EXCEPT ![e] = to]
  BY DEF Goes
<1>2. Paying' \subseteq Evaluation
  BY DEF Paying
<1>3. /\ Cardinality(Paying') \in Nat
      /\ Cardinality(Paying') <= Cardinality(Evaluation)
  BY <1>2, SecretVmAssumption, FS_Subset, FS_CardinalityType
<1>4. IsFiniteSet(Paying) /\ Cardinality(Paying) \in Nat
  BY PayingIsFinite
<1>5. CASE to \notin {"topUp", "pay", "payAgain"}
  <2>1. Paying' = Paying \ {e}
    BY <1>1, <1>5 DEF Paying
  <2>2. CASE e \in Paying
    <3>1. Cardinality(Paying \ {e}) = Cardinality(Paying) - 1
      BY <1>4, <2>2, FS_RemoveElement
    <3> QED BY <1>1, <1>3, <1>4, <1>5, <2>1, <3>1
  <2>3. CASE e \notin Paying
    <3>1. Paying' = Paying
      BY <2>1, <2>3
    <3> QED BY <1>1, <1>3, <1>4, <1>5, <2>3, <3>1
  <2> QED BY <2>2, <2>3
<1>6. CASE to \in {"topUp", "pay", "payAgain"}
  <2>1. e \in Paying => Paying' = Paying
    BY <1>1, <1>6 DEF Paying
  <2> QED BY <1>1, <1>3, <1>4, <1>6, <2>1
<1> QED BY <1>5, <1>6

-----------------------------------------------------------------------------
(* The steps of the service.                                               *)

LEMMA CallKeeps ==
  ASSUME Balanced, NEW e \in Evaluation,
         \/ CreateVm(e) \/ Refused(e) \/ TermsSigned(e)
         \/ Paid(e) \/ Limited(e) \/ Waived(e)
  PROVE  Balanced'
<1> USE SecretVmAssumption, PayingIsFinite, OneMoves
        DEF Balanced, SurplusIsBounded, Call
<1>1. CASE CreateVm(e)
  BY <1>1 DEF CreateVm
<1>2. CASE Refused(e)
  BY <1>2 DEF Refused
<1>3. CASE TermsSigned(e)
  <2>1. e \in Paying
    BY <1>3 DEF TermsSigned, Paying
  <2> QED BY <1>3, <2>1 DEF TermsSigned
<1>4. CASE Paid(e)
  <2>1. e \in Paying
    BY <1>4 DEF Paid, Paying
  <2> QED BY <1>4, <2>1 DEF Paid, Settled
<1>5. CASE Limited(e)
  <2>1. e \in Paying
    BY <1>5 DEF Limited, Paying
  <2> QED BY <1>5, <2>1 DEF Limited
<1>6. CASE Waived(e)
  <2>1. e \in Paying
    BY <1>6 DEF Waived, Paying
  <2> QED BY <1>6, <2>1 DEF Waived
<1> QED BY <1>1, <1>2, <1>3, <1>4, <1>5, <1>6

LEMMA ReturnKeeps ==
  ASSUME Balanced, NEW e \in Evaluation,
         \/ \E again \in BOOLEAN : VmCreated(e, again)
         \/ Failed(e) \/ CreatedUnheard(e)
         \/ PaidUnheard(e) \/ Unpaid(e)
  PROVE  Balanced'
<1> USE SecretVmAssumption, PayingIsFinite, OneMoves
        DEF Balanced, SurplusIsBounded, Call
<1>1. CASE \E again \in BOOLEAN : VmCreated(e, again)
  BY <1>1 DEF VmCreated, Charged
<1>2. CASE Failed(e)
  BY <1>2 DEF Failed, Throws
<1>3. CASE CreatedUnheard(e)
  BY <1>3 DEF CreatedUnheard, Throws, Charged
<1>4. CASE PaidUnheard(e)
  <2>1. e \in Paying
    BY <1>4 DEF PaidUnheard, Paying
  <2> QED BY <1>4, <2>1 DEF PaidUnheard, Throws, Settled
<1>5. CASE Unpaid(e)
  BY <1>5 DEF Unpaid, Throws
<1> QED BY <1>1, <1>2, <1>3, <1>4, <1>5

LEMMA RestKeeps ==
  ASSUME Balanced, UNCHANGED <<call, credit>>
  PROVE  Balanced'
BY DEF Balanced, SurplusIsBounded, Paying

-----------------------------------------------------------------------------
(* The specification.                                                      *)

LEMMA NextKeeps == Balanced /\ [Next]_vars => Balanced'
<1> SUFFICES ASSUME Balanced, [Next]_vars PROVE Balanced'
  OBVIOUS
<1> USE DEF serviceVars
<1>1. CASE \/ WarmUp \/ \E h \in Host : GuardianAdmitted(h) \/ BackupAdmitted(h)
           \/ \E r \in Role : DeficitPersists(r)
  BY <1>1, RestKeeps DEF WarmUp, GuardianAdmitted, BackupAdmitted, DeficitPersists
<1>2. ASSUME NEW e \in Evaluation, Evaluate(e) PROVE Balanced'
  BY <1>2, CallKeeps, RestKeeps DEF Evaluate, Calls
<1>3. ASSUME NEW e \in Evaluation, Created(e) PROVE Balanced'
  <2>1. VmCreated(e, evals'[e] # Idle)
    BY <1>3 DEF Created, GuardianCreated, BackupCreated, Answered
  <2>2. (evals'[e] # Idle) \in BOOLEAN
    OBVIOUS
  <2> QED BY <2>1, <2>2, ReturnKeeps
<1>4. ASSUME NEW e \in Evaluation, CreationFails(e) PROVE Balanced'
  BY <1>4, ReturnKeeps DEF CreationFails
<1>5. ASSUME NEW e \in Evaluation, Pays(e) \/ RateLimited(e) \/ ToppedUpUnpaid(e)
      PROVE  Balanced'
  BY <1>5, CallKeeps DEF Pays, RateLimited, ToppedUpUnpaid
<1>6. CASE Deposit \/ UNCHANGED vars
  BY <1>6, RestKeeps DEF Deposit, Refill, vars
<1> QED BY <1>1, <1>2, <1>3, <1>4, <1>5, <1>6 DEF Next

LEMMA InitBalanced == Init => Balanced
<1> SUFFICES ASSUME Init PROVE Balanced
  OBVIOUS
<1>1. Paying = {}
  BY DEF Init, ServiceInit, Paying
<1>2. Cardinality(Paying) = 0
  BY <1>1, FS_EmptySet
<1> QED BY <1>2, PayingIsFinite, SecretVmAssumption
        DEF Init, ServiceInit, Balanced, SurplusIsBounded, Call

\* SurplusIsBounded: what the agent has paid ahead of its machines stays below
\* the price of one machine and one payment per overlapping evaluation.
THEOREM SurplusBounded == Spec => []SurplusIsBounded
<1>1. Balanced => SurplusIsBounded
  BY DEF Balanced
<1> QED BY <1>1, InitBalanced, NextKeeps, PTL DEF Spec

-----------------------------------------------------------------------------
(* Machines.  An evaluation goes on to create a machine only when a peer   *)
(* of the role was admitted, none is pending and too few count; with a     *)
(* target of at most two it then creates one.  The first answer makes the  *)
(* role Blocked for good, so that whatever was created before it costs a   *)
(* fault, and whatever comes after it was begun before.                    *)

NumberOf(r) ==
  IF r = "guardian" THEN Cardinality(Active) ELSE Cardinality(backups)

\* No evaluation starts to create machines for r any more.
Blocked(r) == config.pending[r] # None \/ NumberOf(r) >= Target

Busy(r) == {e \in Evaluation : evals[e].role = r}

\* An admission stores the compose file, and its row is never retired.
Peers ==
  /\ IsFiniteSet(Active)
  /\ "guardian" \in compose => \E x \in Active : x.by = "external"
  /\ "backup" \in compose => backups # {}

OneEach ==
  \A e \in Evaluation : evals[e].role # "idle" => Target = 2 /\ evals[e].left = 1

Charges ==
  \A r \in Role :
    /\ ~Blocked(r) => Cardinality(Machines(r)) <= faults
    /\ Cardinality(Machines(r)) + Cardinality(Busy(r))
         <= (Target - 1) * Cardinality(Evaluation) + faults

\* Only an evaluation at work has called createVm.
Suspended == \A e \in Evaluation : evals[e].role = "idle" => call[e] = "idle"

IInv == TypeOK /\ Peers /\ OneEach /\ Suspended /\ Charges

\* What an evaluation is at; it goes on to create for r only if it may.
At(r) == IF r = "idle" THEN Idle ELSE [role |-> r, left |-> 1]
Turns(e, r) ==
  /\ evals' = [evals EXCEPT ![e] = At(r)]
  /\ r # "idle" => Target = 2 /\ ~Blocked(r)

LEMMA TargetIs ==
  /\ Target \in Nat /\ (Target = 1 \/ Target = 2)
  /\ Cardinality(Evaluation) \in Nat
  /\ Target = 1 => (Target - 1) * Cardinality(Evaluation) = 0
  /\ Target = 2 => (Target - 1) * Cardinality(Evaluation) = Cardinality(Evaluation)
<1>1. Target = 1 \/ Target = 2
  BY NetworkManagerAssumption
<1>2. Cardinality(Evaluation) \in Nat
  BY PayingIsFinite
<1> QED BY <1>1, <1>2

LEMMA Numbers ==
  ASSUME TypeOK, Peers, NEW r \in Role
  PROVE  /\ NumberOf(r) \in Nat
         /\ r \in compose => NumberOf(r) >= 1
         /\ IsFiniteSet(Machines(r)) /\ Cardinality(Machines(r)) \in Nat
         /\ IsFiniteSet(Busy(r)) /\ Cardinality(Busy(r)) \in Nat
         /\ Cardinality(Busy(r)) <= Cardinality(Evaluation)
<1>1. IsFiniteSet(backups)
  BY NetworkManagerAssumption, FS_Subset DEF TypeOK
<1>2. NumberOf(r) \in Nat
  BY <1>1, FS_CardinalityType DEF Peers, NumberOf
<1>3. r \in compose => NumberOf(r) # 0
  <2>1. r = "guardian" \/ r = "backup"
    BY DEF Role
  <2>2. CASE r = "guardian"
    BY <2>2, FS_EmptySet DEF Peers, NumberOf
  <2>3. CASE r = "backup"
    BY <1>1, <2>3, FS_EmptySet DEF Peers, NumberOf
  <2> QED BY <2>1, <2>2, <2>3
<1>4. IsFiniteSet(Machines(r)) /\ Cardinality(Machines(r)) \in Nat
  <2>1. Len(vms) \in Nat /\ DOMAIN vms = 1 .. Len(vms)
    BY DEF TypeOK
  <2>2. IsFiniteSet(1 .. Len(vms))
    BY <2>1, FS_Interval
  <2>3. Machines(r) \in SUBSET (1 .. Len(vms))
    BY <2>1 DEF Machines
  <2> QED BY <2>2, <2>3, FS_Subset, FS_CardinalityType
<1>5. /\ IsFiniteSet(Busy(r)) /\ Cardinality(Busy(r)) \in Nat
      /\ Cardinality(Busy(r)) <= Cardinality(Evaluation)
  <2>1. Busy(r) \in SUBSET Evaluation
    BY DEF Busy
  <2> QED BY <2>1, SecretVmAssumption, FS_Subset, FS_CardinalityType
<1> QED BY <1>2, <1>3, <1>4, <1>5

-----------------------------------------------------------------------------
(* What the steps do to the number of machines and of evaluations at work. *)

LEMMA TurnsIs ==
  ASSUME TypeOK, Peers, NEW e \in Evaluation, NEW t \in Role \cup {"idle"},
         Turns(e, t), NEW r \in Role
  PROVE  /\ Cardinality(Busy(r)') \in Nat
         /\ Cardinality(Busy(r)') <= Cardinality(Evaluation)
         /\ r # t => /\ Cardinality(Busy(r)') <= Cardinality(Busy(r))
                     /\ evals[e].role = r =>
                          Cardinality(Busy(r)') = Cardinality(Busy(r)) - 1
<1>1. /\ \A f \in Evaluation : f # e => evals'[f] = evals[f]
      /\ evals'[e].role = t
  BY DEF Turns, TypeOK, At, Idle
<1>2. Busy(r)' \in SUBSET Evaluation
  BY DEF Busy
<1>3. /\ Cardinality(Busy(r)') \in Nat
      /\ Cardinality(Busy(r)') <= Cardinality(Evaluation)
  BY <1>2, SecretVmAssumption, FS_Subset, FS_CardinalityType
<1>4. r # t => Busy(r)' = Busy(r) \ {e}
  BY <1>1 DEF Busy
<1>5. /\ Cardinality(Busy(r)) \in Nat
      /\ Cardinality(Busy(r) \ {e}) = IF e \in Busy(r) THEN Cardinality(Busy(r)) - 1
                                      ELSE Cardinality(Busy(r))
  BY Numbers, FS_RemoveElement
<1>6. evals[e].role = r => e \in Busy(r)
  BY DEF Busy
<1> QED BY <1>3, <1>4, <1>5, <1>6

LEMMA AppendIs ==
  ASSUME TypeOK, Peers, NEW q \in Role, vms' = Append(vms, q), NEW r \in Role
  PROVE  Cardinality(Machines(r)') = IF r = q THEN Cardinality(Machines(r)) + 1
                                     ELSE Cardinality(Machines(r))
<1>1. /\ Len(vms) \in Nat /\ DOMAIN vms = 1 .. Len(vms)
      /\ DOMAIN vms' = 1 .. Len(vms) + 1
      /\ vms'[Len(vms) + 1] = q
      /\ \A m \in 1 .. Len(vms) : vms'[m] = vms[m]
  BY DEF TypeOK
<1>2. Machines(r)' = IF r = q THEN Machines(r) \cup {Len(vms) + 1}
                     ELSE Machines(r)
  BY <1>1 DEF Machines
<1>3. Len(vms) + 1 \notin Machines(r)
  BY <1>1 DEF Machines
<1>4. Cardinality(Machines(r) \cup {Len(vms) + 1}) = Cardinality(Machines(r)) + 1
  BY <1>3, Numbers, FS_AddElement
<1> QED BY <1>2, <1>4

\* A step keeps the account if it blocks what it answers and unblocks nothing.
LEMMA ChargesStep ==
  ASSUME TypeOK, Peers, Charges, faults' \in Nat,
         \A r \in Role : Blocked(r) => Blocked(r)',
         NEW e \in Evaluation, NEW t \in Role \cup {"idle"}, Turns(e, t),
         NEW q \in Role,
         \/ vms' = vms /\ faults' >= faults
         \/ /\ evals[e].role = q /\ q # t
            /\ vms' = Append(vms, q)
            /\ \/ faults' = faults /\ Blocked(q)'
               \/ faults' = faults + 1
  PROVE  Charges'
<1> SUFFICES ASSUME NEW r \in Role
             PROVE  /\ ~Blocked(r)' => Cardinality(Machines(r)') <= faults'
                    /\ Cardinality(Machines(r)') + Cardinality(Busy(r)')
                         <= (Target - 1) * Cardinality(Evaluation) + faults'
  BY DEF Charges
<1>1. PICK M \in Nat, B \in Nat, C \in Nat, Due \in Nat, F \in Nat :
        /\ M = Cardinality(Machines(r))
        /\ B = Cardinality(Busy(r)) /\ C = Cardinality(Busy(r)')
        /\ Due = (Target - 1) * Cardinality(Evaluation) /\ F = faults
  <2>1. faults \in 0 .. MaxFaults /\ MaxFaults \in Nat
    BY NetworkManagerAssumption DEF TypeOK
  <2>2. (Target - 1) * Cardinality(Evaluation) \in Nat
    BY TargetIs
  <2>3. Cardinality(Machines(r)) \in Nat /\ Cardinality(Busy(r)) \in Nat
    BY Numbers
  <2>4. Cardinality(Busy(r)') \in Nat
    BY TurnsIs
  <2> QED BY <2>1, <2>2, <2>3, <2>4
<1>2. (~Blocked(r) => M <= F) /\ M + B <= Due + F
  BY <1>1 DEF Charges
\* Whoever turns to r finds it not blocked: all machines so far cost a fault.
<1>3. t = r => C <= Due /\ M <= F
  <2>1. C <= Cardinality(Evaluation)
    BY <1>1, TurnsIs
  <2>2. t = r => Due = Cardinality(Evaluation) /\ ~Blocked(r)
    BY <1>1, TargetIs DEF Turns, Role
  <2> QED BY <1>2, <2>1, <2>2
<1>4. t # r => C <= B /\ (evals[e].role = r => C = B - 1)
  BY <1>1, TurnsIs
<1>5. ~Blocked(r)' => M <= F
  BY <1>2
<1>6. CASE vms' = vms /\ faults' >= faults
  <2>1. Cardinality(Machines(r)') = M /\ F <= faults'
    BY <1>1, <1>6 DEF Machines
  <2>2. M + C <= Due + F
    BY <1>2, <1>3, <1>4
  <2>3. M + C <= Due + faults' /\ (M <= F => M <= faults')
    BY <2>1, <2>2
  <2> QED BY <1>1, <1>5, <2>1, <2>3
<1>7. CASE /\ evals[e].role = q /\ q # t
           /\ vms' = Append(vms, q)
           /\ \/ faults' = faults /\ Blocked(q)'
              \/ faults' = faults + 1
  <2>0. PICK G \in Nat : G = faults' /\ (G = F \/ G = F + 1)
    BY <1>1, <1>7
  <2>1. CASE r = q
    <3>1. Cardinality(Machines(r)') = M + 1
      BY <1>1, <1>7, <2>1, AppendIs
    <3>2. M + 1 + C <= Due + G
      BY <1>2, <1>4, <1>7, <2>0, <2>1
    <3>3. ~Blocked(r)' => G = F + 1
      <4>1. Blocked(q)' => Blocked(r)'
        BY <2>1 DEF Blocked, NumberOf
      <4>2. Blocked(q)' \/ G = F + 1
        BY <1>1, <1>7, <2>0
      <4> QED BY <4>1, <4>2
    <3>4. ~Blocked(r)' => M + 1 <= G
      BY <1>5, <2>0, <3>3
    <3> QED BY <1>1, <2>0, <3>1, <3>2, <3>4
  <2>2. CASE r # q
    <3>1. Cardinality(Machines(r)') = M
      BY <1>1, <1>7, <2>2, AppendIs
    <3>2. M + C <= Due + F
      BY <1>2, <1>3, <1>4
    <3>3. F <= G
      BY <2>0
    <3>4. Due + F <= Due + G
      BY <3>3
    <3>5. M + C <= Due + G
      BY <3>2, <3>4
    <3>6. M <= F => M <= G
      BY <3>3
    <3> QED BY <1>1, <1>5, <2>0, <3>1, <3>5, <3>6
  <2> QED BY <2>1, <2>2
<1> QED BY <1>6, <1>7

-----------------------------------------------------------------------------
(* The parts of the steps.                                                 *)

\* The service keeps its types and the calls of the other evaluations.
LEMMA ServiceIs ==
  ASSUME ServiceTypeOK, NEW e \in Evaluation,
         \/ CreateVm(e) \/ Refused(e) \/ TermsSigned(e) \/ Paid(e) \/ Limited(e)
         \/ Waived(e) \/ \E again \in BOOLEAN : VmCreated(e, again)
         \/ Failed(e) \/ CreatedUnheard(e) \/ PaidUnheard(e) \/ Unpaid(e)
  PROVE  /\ ServiceTypeOK'
         /\ \A f \in Evaluation : f # e => call'[f] = call[f]
<1> USE DEF ServiceTypeOK, Call, Goes
<1>1. Price \in Nat /\ Funds \in Nat
  BY SecretVmAssumption
<1>2. CASE CreateVm(e) \/ Refused(e) \/ TermsSigned(e) \/ Limited(e) \/ Waived(e)
  BY <1>2 DEF CreateVm, Refused, TermsSigned, Limited, Waived
<1>3. CASE Paid(e) \/ PaidUnheard(e)
  BY <1>1, <1>3 DEF Paid, PaidUnheard, Settled, Throws
<1>4. CASE (\E again \in BOOLEAN : VmCreated(e, again)) \/ CreatedUnheard(e)
  BY <1>1, <1>4 DEF VmCreated, CreatedUnheard, Charged, Throws
<1>5. CASE Failed(e) \/ Unpaid(e)
  BY <1>5 DEF Failed, Unpaid, Throws
<1> QED BY <1>2, <1>3, <1>4, <1>5

LEMMA EvalsAre ==
  ASSUME TypeOK, OneEach, Suspended, NEW e \in Evaluation,
         NEW t \in Role \cup {"idle"}, Turns(e, t),
         \A f \in Evaluation : f # e => call'[f] = call[f],
         t = "idle" => call'[e] = "idle"
  PROVE  /\ evals' \in [Evaluation ->
                          [role : Role \cup {"idle"}, left : 0 .. Target - 1]]
         /\ OneEach' /\ Suspended'
<1>1. At(t) \in [role : Role \cup {"idle"}, left : 0 .. Target - 1]
  BY TargetIs DEF At, Idle, Turns, Role
<1>2. /\ evals'[e] = At(t)
      /\ \A f \in Evaluation : f # e => evals'[f] = evals[f]
  BY DEF Turns, TypeOK
<1>3. At(t).role = t /\ (t # "idle" => Target = 2 /\ At(t).left = 1)
  BY DEF At, Idle, Turns
<1>4. evals' \in [Evaluation ->
                    [role : Role \cup {"idle"}, left : 0 .. Target - 1]]
  BY <1>1 DEF Turns, TypeOK
<1>5. OneEach'
  BY <1>2, <1>3 DEF OneEach
<1>6. Suspended'
  BY <1>2, <1>3 DEF Suspended
<1> QED BY <1>4, <1>5, <1>6

\* Without machines to create the evaluation is over, or goes on to the
\* backups; there it creates one only if that role is not Blocked.
LEMMA ProvisionIs ==
  ASSUME TypeOK, Peers, NEW r \in Role, NEW e \in Evaluation, NEW c \in Config,
         c.pending[r] = config.pending[r],
         Persisted(r, c, NumberOf(r)), Provision(e, r, c, NumberOf(r))
  PROVE  /\ config' = c
         /\ \E t \in {"idle", r} : Turns(e, t)
<1>1. CASE r \in compose
  <2>1. Target = 2 /\ Target - NumberOf(r) = 1 /\ ~Blocked(r)
    BY <1>1, Numbers, TargetIs DEF Persisted, Blocked
  <2>2. r # "idle"
    BY DEF Role
  <2>3. Turns(e, r) /\ config' = c
    BY <1>1, <2>1, <2>2 DEF Provision, Turns, At
  <2> QED BY <2>3
<1>2. CASE r \notin compose
  BY <1>2 DEF Provision, Return, Turns, At
<1> QED BY <1>1, <1>2

LEMMA BackupPartIs ==
  ASSUME TypeOK, Peers, NEW e \in Evaluation, NEW c \in Config,
         c.pending["backup"] = config.pending["backup"],
         BackupPart(e, c), backups' = backups
  PROVE  /\ config' \in Config
         /\ config'.pending["guardian"] = c.pending["guardian"]
         /\ Blocked("backup") => Blocked("backup")'
         /\ \E t \in {"idle", "backup"} : Turns(e, t)
<1> DEFINE n == Cardinality(backups)
           over == [Cleared("backup", c) EXCEPT
                      !.backupVm = IF n > Target THEN None ELSE @]
<1>0. "backup" \in Role /\ NumberOf("backup") = n
  BY DEF Role, NumberOf
<1>1. NumberOf("backup")' = NumberOf("backup")
  BY DEF NumberOf
<1>2. /\ Noted("backup", c) \in Config
      /\ Noted("backup", c).pending = c.pending
  BY DEF Noted, Config
<1>3. /\ over \in Config
      /\ over.pending["guardian"] = c.pending["guardian"]
  BY DEF Cleared, Config, Role
<1> HIDE DEF over
<1>4. \A d : Return(e, d) => config' = d /\ Turns(e, "idle")
  BY DEF Return, Turns, At
<1>5. CASE Waiting("backup", c, n) /\ Return(e, c)
  BY <1>1, <1>4, <1>5 DEF Blocked
<1>6. CASE Detected("backup", c, n) /\ Return(e, Noted("backup", c))
  BY <1>1, <1>2, <1>4, <1>6 DEF Blocked
<1>7. CASE Persisted("backup", c, n) /\ Provision(e, "backup", c, n)
  BY <1>0, <1>1, <1>7, ProvisionIs DEF Blocked
<1>8. CASE n >= Target /\ Return(e, over)
  <2>1. Blocked("backup")'
    BY <1>0, <1>1, <1>8 DEF Blocked
  <2> QED BY <1>3, <1>4, <1>8, <2>1
<1> QED BY <1>5, <1>6, <1>7, <1>8 DEF BackupPart, over

\* Retiring leaves Target rows active, and those of admitted guardians.
LEMMA RetireIs ==
  ASSUME TypeOK, Peers, Cardinality(Active) >= Target, Retire
  PROVE  /\ rows' \subseteq Row
         /\ IsFiniteSet(Active') /\ Cardinality(Active') >= Target
         /\ \A x \in Active : x.by = "external" => x \in Active'
<1>1. PICK R \in SUBSET AgentRows :
        /\ Cardinality(R) = Min2(Cardinality(Active) - Target, Cardinality(AgentRows))
        /\ rows' = (rows \ R) \cup {[r EXCEPT !.status = "inactive"] : r \in R}
  BY DEF Retire
<1>2. R \subseteq Active /\ \A x \in R : x \in Row /\ x.by = "agent"
  BY DEF AgentRows, Active, TypeOK
<1>3. \A x \in R : /\ [x EXCEPT !.status = "inactive"] \in Row
                   /\ [x EXCEPT !.status = "inactive"].status = "inactive"
  BY <1>2 DEF Row
<1>4. rows' \subseteq Row
  BY <1>1, <1>3 DEF TypeOK
<1>5. Active' = Active \ R
  BY <1>1, <1>3 DEF Active
<1>6. IsFiniteSet(AgentRows) /\ IsFiniteSet(R)
  BY <1>2, FS_Subset DEF Peers, AgentRows
<1>7. PICK A \in Nat, N \in Nat, K \in Nat :
        /\ A = Cardinality(Active) /\ N = Cardinality(AgentRows) /\ K = Cardinality(R)
  BY <1>6, FS_CardinalityType DEF Peers
<1>8. K <= A - Target
  BY <1>1, <1>7, TargetIs DEF Min2
<1>9. IsFiniteSet(Active \ R) /\ Cardinality(Active \ R) = A - K
  <2>1. Active \cap R = R
    BY <1>2
  <2> QED BY <1>6, <1>7, <2>1, FS_Difference DEF Peers
<1>10. A - K >= Target
  BY <1>7, <1>8, TargetIs
<1>11. \A x \in Active : x.by = "external" => x \in Active'
  BY <1>2, <1>5
<1> QED BY <1>4, <1>5, <1>9, <1>10, <1>11

-----------------------------------------------------------------------------
(* The steps.                                                              *)

LEMMA EvaluationStep ==
  ASSUME IInv, NEW e \in Evaluation, NEW t \in Role \cup {"idle"}, Turns(e, t),
         UNCHANGED <<warm, backups, compose>>, config' \in Config,
         rows' \subseteq Row, IsFiniteSet(Active'),
         \A x \in Active : x.by = "external" => x \in Active',
         \A r \in Role : Blocked(r) => Blocked(r)',
         faults' \in 0 .. MaxFaults, ServiceTypeOK',
         \A f \in Evaluation : f # e => call'[f] = call[f],
         t = "idle" => call'[e] = "idle",
         NEW q \in Role,
         \/ vms' = vms /\ faults' >= faults
         \/ /\ evals[e].role = q /\ q # t
            /\ vms' = Append(vms, q) /\ Len(vms) < MaxMachines
            /\ \/ faults' = faults /\ Blocked(q)'
               \/ faults' = faults + 1
  PROVE  IInv'
<1>1. vms' \in Seq(Role) /\ Len(vms') <= MaxMachines
  BY NetworkManagerAssumption DEF IInv, TypeOK
<1>2. TypeOK' /\ OneEach' /\ Suspended'
  BY <1>1, EvalsAre DEF IInv, TypeOK
<1>3. Peers'
  BY DEF IInv, Peers
<1>4. faults' \in Nat
  BY NetworkManagerAssumption
<1>5. Charges'
  BY <1>4, ChargesStep DEF IInv
<1> QED BY <1>2, <1>3, <1>5 DEF IInv

LEMMA EvaluateKeeps ==
  ASSUME IInv, NEW e \in Evaluation, Evaluate(e)
  PROVE  IInv'
<1> DEFINE n == Cardinality(Active)
<1> USE DEF IInv
<1>1. /\ "guardian" \in Role /\ "backup" \in Role
      /\ Role = {"guardian", "backup"} /\ NumberOf("guardian") = n
  BY DEF Role, NumberOf
<1>2. /\ evals[e] = Idle /\ Calls(e)
      /\ UNCHANGED <<warm, backups, compose, vms, faults>>
      /\ config \in Config /\ faults' >= faults /\ faults' \in 0 .. MaxFaults
  BY NetworkManagerAssumption DEF Evaluate, TypeOK
<1>3. rows' = rows => /\ rows' \subseteq Row /\ IsFiniteSet(Active')
                      /\ NumberOf("guardian")' = NumberOf("guardian")
                      /\ \A x \in Active : x \in Active'
  BY DEF TypeOK, Peers, Active, NumberOf
<1>4. /\ config' \in Config /\ rows' \subseteq Row /\ IsFiniteSet(Active')
      /\ \A x \in Active : x.by = "external" => x \in Active'
      /\ \A r \in Role : Blocked(r) => Blocked(r)'
      /\ \E t \in Role \cup {"idle"} : Turns(e, t)
  <2>1. CASE /\ Waiting("guardian", config, n) /\ BackupPart(e, config)
             /\ UNCHANGED rows
    BY <1>1, <1>2, <1>3, <2>1, BackupPartIs DEF Blocked
  <2>2. CASE /\ Detected("guardian", config, n)
             /\ BackupPart(e, Noted("guardian", config)) /\ UNCHANGED rows
    <3>1. /\ Noted("guardian", config) \in Config
          /\ Noted("guardian", config).pending = config.pending
      BY <1>2 DEF Noted, Config
    <3> QED BY <1>1, <1>2, <1>3, <2>2, <3>1, BackupPartIs DEF Blocked
  <2>3. CASE /\ Persisted("guardian", config, n)
             /\ Provision(e, "guardian", config, n) /\ UNCHANGED rows
    <3>1. config' = config /\ \E t \in {"idle", "guardian"} : Turns(e, t)
      BY <1>1, <1>2, <2>3, ProvisionIs
    <3>2. NumberOf("backup")' = NumberOf("backup")
      BY <1>2 DEF NumberOf
    <3> QED BY <1>1, <1>2, <1>3, <2>3, <3>1, <3>2 DEF Blocked
  <2>4. CASE /\ n >= Target /\ Retire
             /\ BackupPart(e, Cleared("guardian", config))
    <3>1. /\ Cleared("guardian", config) \in Config
          /\ Cleared("guardian", config).pending["backup"]
               = config.pending["backup"]
      BY <1>2 DEF Cleared, Config, Role
    <3>2. /\ rows' \subseteq Row
          /\ IsFiniteSet(Active') /\ Cardinality(Active') >= Target
          /\ \A x \in Active : x.by = "external" => x \in Active'
      BY <2>4, RetireIs
    <3>3. Blocked("guardian")'
      BY <3>2 DEF Blocked, NumberOf
    <3> QED BY <1>1, <1>2, <2>4, <3>1, <3>2, <3>3, BackupPartIs
  <2> QED BY <2>1, <2>2, <2>3, <2>4 DEF Evaluate
<1>5. PICK t \in Role \cup {"idle"} : Turns(e, t)
  BY <1>4
<1>6. /\ ServiceTypeOK' /\ \A f \in Evaluation : f # e => call'[f] = call[f]
      /\ t = "idle" => call'[e] = "idle"
  <2>1. CASE evals'[e] = Idle
    BY <1>2, <2>1 DEF Calls, serviceVars, TypeOK, ServiceTypeOK, Suspended, Idle
  <2>2. CASE evals'[e] # Idle
    <3>1. t # "idle"
      BY <1>5, <2>2 DEF Turns, At, TypeOK
    <3> QED BY <1>2, <2>2, <3>1, ServiceIs DEF Calls, TypeOK
  <2> QED BY <2>1, <2>2
<1> QED BY <1>1, <1>2, <1>4, <1>5, <1>6, EvaluationStep

LEMMA CreatedKeeps ==
  ASSUME IInv, NEW e \in Evaluation, Created(e)
  PROVE  IInv'
<1> USE DEF IInv
<1>1. /\ "guardian" \in Role /\ "backup" \in Role /\ "idle" \notin Role
      /\ Role = {"guardian", "backup"}
  BY DEF Role
<1>2. /\ evals[e].role \in Role /\ evals[e].left = 1
      /\ VmCreated(e, evals'[e] # Idle)
      /\ vms' = Append(vms, evals[e].role) /\ Len(vms) < MaxMachines
      /\ UNCHANGED <<warm, backups, compose, faults>>
      /\ faults' \in 0 .. MaxFaults
  BY <1>1 DEF Created, GuardianCreated, BackupCreated, Answered, OneEach, TypeOK
<1>3. New \in Machine /\ New # None /\ New \in Host
  <2>1. Len(vms) \in Nat
    BY DEF TypeOK
  <2>2. New \in Machine
    BY <1>2, <2>1, NetworkManagerAssumption DEF New, Machine
  <2> QED BY <2>2, NetworkManagerAssumption DEF Host
<1>4. \E t \in Role \cup {"idle"} :
        /\ Turns(e, t) /\ t # evals[e].role
        /\ config' \in Config /\ rows' \subseteq Row /\ IsFiniteSet(Active')
        /\ \A x \in Active : x \in Active'
        /\ \A r \in Role : Blocked(r) => Blocked(r)'
        /\ \A q \in Role : q = evals[e].role => Blocked(q)'
  <2>1. CASE GuardianCreated(e)
    <3> DEFINE c == [config EXCEPT !.pending["guardian"] = New]
               d == [c EXCEPT !.since["guardian"] = "none"]
               row == [host |-> New, by |-> "agent", status |-> "active"]
    <3>1. /\ d \in Config /\ d.pending["guardian"] = New
          /\ d.pending["backup"] = config.pending["backup"]
      BY <1>1, <1>3 DEF TypeOK, Config
    <3>2. BackupPart(e, d) /\ rows' = rows \cup {row}
      BY <1>2, <2>1 DEF GuardianCreated
    <3>3. row \in Row /\ row.status = "active"
      BY <1>3 DEF Row
    <3>4. Active' = Active \cup {row} /\ rows' \subseteq Row
      BY <3>2, <3>3 DEF Active, TypeOK
    <3>5. IsFiniteSet(Active')
      BY <3>4, FS_AddElement DEF Peers
    <3> HIDE DEF d
    <3>6. /\ config' \in Config /\ config'.pending["guardian"] = New
          /\ Blocked("backup") => Blocked("backup")'
          /\ \E t \in {"idle", "backup"} : Turns(e, t)
      BY <1>2, <3>1, <3>2, BackupPartIs
    <3>7. Blocked("guardian")'
      BY <1>3, <3>6 DEF Blocked
    <3>8. evals[e].role = "guardian"
      BY <2>1 DEF GuardianCreated
    <3> QED BY <1>1, <3>4, <3>5, <3>6, <3>7, <3>8
  <2>2. CASE BackupCreated(e)
    <3> DEFINE c == [config EXCEPT !.backupVm = New, !.pending["backup"] = New]
               d == [c EXCEPT !.since["backup"] = "none"]
    <3>1. /\ d \in Config /\ d.pending["backup"] = New
          /\ d.pending["guardian"] = config.pending["guardian"]
      BY <1>1, <1>3 DEF TypeOK, Config
    <3>2. /\ Return(e, d) /\ rows' = rows
      BY <1>2, <2>2 DEF BackupCreated, BackupsGoOn
    <3>3. rows' \subseteq Row /\ Active' = Active /\ IsFiniteSet(Active')
      BY <3>2 DEF Active, TypeOK, Peers
    <3> HIDE DEF d
    <3>4. Turns(e, "idle") /\ config' = d
      BY <3>2 DEF Return, Turns, At
    <3>5. Blocked("backup")'
      BY <1>3, <3>1, <3>4 DEF Blocked
    <3>6. Blocked("guardian") => Blocked("guardian")'
      BY <3>1, <3>3, <3>4 DEF Blocked, NumberOf
    <3>7. evals[e].role = "backup"
      BY <2>2 DEF BackupCreated
    <3> QED BY <1>1, <3>1, <3>3, <3>4, <3>5, <3>6, <3>7
  <2> QED BY <2>1, <2>2 DEF Created
<1>5. PICK t \in Role \cup {"idle"} :
        /\ Turns(e, t) /\ t # evals[e].role
        /\ config' \in Config /\ rows' \subseteq Row /\ IsFiniteSet(Active')
        /\ \A x \in Active : x \in Active'
        /\ \A r \in Role : Blocked(r) => Blocked(r)'
        /\ \A q \in Role : q = evals[e].role => Blocked(q)'
  BY <1>4
<1>6. /\ ServiceTypeOK' /\ \A f \in Evaluation : f # e => call'[f] = call[f]
      /\ t = "idle" => call'[e] = "idle"
  <2>1. (evals'[e] # Idle) \in BOOLEAN
    OBVIOUS
  <2>2. ServiceTypeOK' /\ \A f \in Evaluation : f # e => call'[f] = call[f]
    BY <1>2, <2>1, ServiceIs DEF TypeOK
  <2>3. t = "idle" => evals'[e] = Idle
    BY <1>5 DEF Turns, At, TypeOK
  <2>4. evals'[e] = Idle => call'[e] = "idle"
    BY <1>2 DEF VmCreated, Goes, TypeOK, ServiceTypeOK
  <2> QED BY <2>2, <2>3, <2>4
<1>7. PICK q \in Role : q = evals[e].role
  BY <1>2
<1> QED BY <1>2, <1>5, <1>6, <1>7, EvaluationStep

LEMMA CreationFailsKeeps ==
  ASSUME IInv, NEW e \in Evaluation, CreationFails(e)
  PROVE  IInv'
<1> USE DEF IInv
<1>1. /\ Turns(e, "idle") /\ config' = config
      /\ UNCHANGED <<warm, rows, backups, compose>>
  BY DEF CreationFails, Return, Turns, At
<1>2. /\ config' \in Config /\ rows' \subseteq Row /\ Active' = Active
      /\ IsFiniteSet(Active')
      /\ \A r \in Role : Blocked(r)' = Blocked(r)
  BY <1>1 DEF TypeOK, Peers, Active, Blocked, NumberOf
<1>3. /\ ServiceTypeOK' /\ \A f \in Evaluation : f # e => call'[f] = call[f]
  BY ServiceIs DEF CreationFails, TypeOK
<1>4. call[e] # "idle" /\ call'[e] = "idle"
  BY DEF CreationFails, Failed, CreatedUnheard, PaidUnheard, Unpaid, Throws,
         Goes, TypeOK, ServiceTypeOK
<1>5. PICK q \in Role : q = evals[e].role
  BY <1>4 DEF Suspended, TypeOK
<1>6. /\ q # "idle" /\ faults' \in 0 .. MaxFaults
      /\ \/ vms' = vms /\ faults' >= faults
         \/ /\ vms' = Append(vms, q) /\ Len(vms) < MaxMachines
            /\ faults' = faults + 1
  BY <1>5, NetworkManagerAssumption DEF CreationFails, Fault, TypeOK, Role
<1>7. "idle" \in Role \cup {"idle"}
  OBVIOUS
<1> QED BY <1>1, <1>2, <1>3, <1>4, <1>5, <1>6, <1>7, EvaluationStep

\* Where no evaluation moves and no machine is created, the account is kept
\* if nothing is unblocked.
LEMMA AroundKeeps ==
  ASSUME IInv, TypeOK', Peers', UNCHANGED <<vms, evals>>,
         \A e \in Evaluation : evals[e].role = "idle" => call'[e] = "idle",
         \A r \in Role : Blocked(r) => Blocked(r)', faults' >= faults
  PROVE  IInv'
<1>1. OneEach' /\ Suspended'
  BY DEF IInv, OneEach, Suspended
<1>2. Charges'
  <2> SUFFICES ASSUME NEW r \in Role
               PROVE  /\ ~Blocked(r)' => Cardinality(Machines(r)') <= faults'
                      /\ Cardinality(Machines(r)') + Cardinality(Busy(r)')
                           <= (Target - 1) * Cardinality(Evaluation) + faults'
    BY DEF Charges
  <2>1. PICK M \in Nat, B \in Nat, Due \in Nat, F \in Nat, G \in Nat :
          /\ M = Cardinality(Machines(r)) /\ B = Cardinality(Busy(r))
          /\ Due = (Target - 1) * Cardinality(Evaluation)
          /\ F = faults /\ G = faults'
    <3>1. faults \in Nat /\ faults' \in Nat
      BY NetworkManagerAssumption DEF IInv, TypeOK
    <3>2. (Target - 1) * Cardinality(Evaluation) \in Nat
      BY TargetIs
    <3> QED BY <3>1, <3>2, Numbers DEF IInv
  <2>2. Machines(r)' = Machines(r) /\ Busy(r)' = Busy(r)
    BY DEF Machines, Busy
  <2>3. F <= G /\ M + B <= Due + F /\ (~Blocked(r)' => M <= F)
    BY <2>1 DEF IInv, Charges
  <2>4. M + B <= Due + G /\ (M <= F => M <= G)
    BY <2>3
  <2> QED BY <2>1, <2>2, <2>3, <2>4
<1> QED BY <1>1, <1>2 DEF IInv

LEMMA AdmissionKeeps ==
  ASSUME IInv, NEW h \in Host, GuardianAdmitted(h) \/ BackupAdmitted(h)
  PROVE  IInv'
<1> USE DEF IInv
<1>1. /\ Role = {"guardian", "backup"}
      /\ UNCHANGED <<warm, config, vms, evals, serviceVars, faults>>
  BY DEF Role, GuardianAdmitted, BackupAdmitted
<1>2. ServiceTypeOK' /\ call' = call
  BY <1>1 DEF TypeOK, ServiceTypeOK, serviceVars
<1>3. faults \in Nat
  BY NetworkManagerAssumption DEF TypeOK
<1>4. CASE GuardianAdmitted(h)
  <2> DEFINE row == [host |-> h, by |-> "external", status |-> "active"]
  <2>1. row \in Row /\ row.status = "active" /\ row.by = "external"
    BY DEF Row
  <2>2. Active' = Active \cup {row} /\ rows' \subseteq Row
    BY <1>4, <2>1 DEF GuardianAdmitted, Active, TypeOK
  <2>3. /\ backups' = backups /\ compose' = compose \cup {"guardian"}
    BY <1>4 DEF GuardianAdmitted
  <2> HIDE DEF row
  <2>4. TypeOK'
    BY <1>1, <1>2, <2>2, <2>3 DEF TypeOK
  <2>5. IsFiniteSet(Active')
    BY <2>2, FS_AddElement DEF Peers
  <2>6. Peers'
    BY <2>1, <2>2, <2>3, <2>5 DEF Peers
  <2>7. Cardinality(Active) <= Cardinality(Active')
    BY <2>2, <2>5, FS_Subset
  <2>8. /\ Cardinality(Active) \in Nat /\ Cardinality(Active') \in Nat
        /\ Target \in Nat
    BY <2>5, FS_CardinalityType, TargetIs DEF Peers
  <2>9. \A r \in Role : Blocked(r) => Blocked(r)'
    BY <1>1, <2>3, <2>7, <2>8 DEF Blocked, NumberOf
  <2> QED BY <1>1, <1>2, <1>3, <2>4, <2>6, <2>9, AroundKeeps DEF Suspended
<1>5. CASE BackupAdmitted(h)
  <2>1. /\ backups' = backups \cup {h} /\ compose' = compose \cup {"backup"}
        /\ rows' = rows /\ Active' = Active
    BY <1>5 DEF BackupAdmitted, Active
  <2>2. TypeOK'
    BY <1>1, <1>2, <2>1 DEF TypeOK
  <2>3. Peers'
    BY <2>1 DEF Peers
  <2>4. IsFiniteSet(backups) /\ IsFiniteSet(backups')
    BY <2>2, NetworkManagerAssumption, FS_Subset DEF TypeOK
  <2>5. Cardinality(backups) <= Cardinality(backups')
    BY <2>1, <2>4, FS_Subset
  <2>6. /\ Cardinality(backups) \in Nat /\ Cardinality(backups') \in Nat
        /\ Target \in Nat
    BY <2>4, FS_CardinalityType, TargetIs
  <2>7. \A r \in Role : Blocked(r) => Blocked(r)'
    BY <1>1, <2>1, <2>5, <2>6 DEF Blocked, NumberOf
  <2> QED BY <1>1, <1>2, <1>3, <2>2, <2>3, <2>7, AroundKeeps DEF Suspended
<1> QED BY <1>4, <1>5

\* The warm-up, the passing of time, the payments and the refill.
LEMMA OthersKeep ==
  ASSUME IInv,
         \/ WarmUp \/ Deposit \/ UNCHANGED vars
         \/ \E r \in Role : DeficitPersists(r)
         \/ \E e \in Evaluation : Pays(e) \/ RateLimited(e) \/ ToppedUpUnpaid(e)
  PROVE  IInv'
<1> USE DEF IInv
<1>1. /\ UNCHANGED <<rows, backups, compose, vms, evals>>
      /\ warm' \in BOOLEAN
      /\ faults' >= faults /\ faults' \in 0 .. MaxFaults
  <2>1. faults \in 0 .. MaxFaults /\ MaxFaults \in Nat
    BY NetworkManagerAssumption DEF TypeOK
  <2>2. /\ UNCHANGED <<rows, backups, compose, vms, evals>>
        /\ warm' \in BOOLEAN
        /\ faults' = faults \/ Fault
    BY DEF WarmUp, Deposit, DeficitPersists, Pays, RateLimited, ToppedUpUnpaid, vars, TypeOK
  <2>3. faults' = faults => faults' >= faults /\ faults' \in 0 .. MaxFaults
    BY <2>1
  <2>4. Fault => faults' >= faults /\ faults' \in 0 .. MaxFaults
    BY <2>1 DEF Fault
  <2> QED BY <2>2, <2>3, <2>4
<1>2. config' \in Config /\ config'.pending = config.pending
  BY DEF WarmUp, Deposit, DeficitPersists, Pays, RateLimited, ToppedUpUnpaid, vars, TypeOK, Config
<1>3. /\ ServiceTypeOK'
      /\ \A e \in Evaluation : call[e] = "idle" => call'[e] = "idle"
  <2>1. CASE \E e \in Evaluation : Pays(e) \/ RateLimited(e) \/ ToppedUpUnpaid(e)
    <3>1. PICK e \in Evaluation : Pays(e) \/ RateLimited(e) \/ ToppedUpUnpaid(e)
      BY <2>1
    <3>2. call[e] # "idle"
      BY <3>1 DEF Pays, RateLimited, ToppedUpUnpaid, Refused, TermsSigned, Paid, Limited, Waived
    <3> QED BY <3>1, <3>2, ServiceIs DEF Pays, RateLimited, ToppedUpUnpaid, TypeOK
  <2>2. CASE Deposit
    BY <2>2, SecretVmAssumption DEF Deposit, Refill, TypeOK, ServiceTypeOK
  <2>3. CASE WarmUp \/ UNCHANGED vars \/ \E r \in Role : DeficitPersists(r)
    BY <2>3 DEF WarmUp, DeficitPersists, vars, serviceVars, TypeOK, ServiceTypeOK
  <2> QED BY <2>1, <2>2, <2>3
<1>4. TypeOK'
  BY <1>1, <1>2, <1>3 DEF TypeOK
<1>5. Active' = Active /\ Peers'
  BY <1>1 DEF Active, Peers
<1>6. \A r \in Role : Blocked(r) => Blocked(r)'
  BY <1>1, <1>2, <1>5 DEF Blocked, NumberOf
<1> QED BY <1>1, <1>3, <1>4, <1>5, <1>6, AroundKeeps DEF Suspended

-----------------------------------------------------------------------------
(* The specification.                                                      *)

LEMMA InitInv == Init => IInv
<1> SUFFICES ASSUME Init PROVE IInv
  OBVIOUS
<1> USE DEF Init
<1>1. TypeOK
  <2>1. config \in Config
    BY DEF Config
  <2>2. vms \in Seq(Role) /\ Len(vms) <= MaxMachines
    BY NetworkManagerAssumption
  <2>3. evals \in [Evaluation ->
                    [role : Role \cup {"idle"}, left : 0 .. Target - 1]]
    BY TargetIs DEF Idle
  <2>4. ServiceTypeOK
    BY SecretVmAssumption DEF ServiceInit, ServiceTypeOK, Call
  <2>5. faults \in 0 .. MaxFaults
    BY NetworkManagerAssumption
  <2> QED BY <2>1, <2>2, <2>3, <2>4, <2>5 DEF TypeOK
<1>2. Active = {} /\ Peers
  BY FS_EmptySet DEF Active, Peers
<1>3. OneEach /\ Suspended
  BY DEF OneEach, Suspended, Idle, ServiceInit
<1>4. \A r \in Role : Machines(r) = {} /\ Busy(r) = {}
  BY DEF Machines, Busy, Idle, Role
<1>5. (Target - 1) * Cardinality(Evaluation) \in Nat /\ Cardinality({}) = 0
  BY TargetIs, FS_EmptySet
<1>6. Charges
  <2>1. PICK Due \in Nat : Due = (Target - 1) * Cardinality(Evaluation)
    BY <1>5
  <2>2. 0 + 0 <= Due + 0 /\ 0 <= 0
    OBVIOUS
  <2> QED BY <1>4, <1>5, <2>1, <2>2 DEF Charges
<1> QED BY <1>1, <1>2, <1>3, <1>6 DEF IInv

LEMMA InvHolds == Spec => []IInv
<1>1. IInv /\ [Next]_vars => IInv'
  BY AdmissionKeeps, OthersKeep, EvaluateKeeps, CreatedKeeps, CreationFailsKeeps
     DEF Next
<1> QED BY <1>1, InitInv, PTL DEF Spec

\* TypeOK: the tables, the configuration and the evaluations have their types;
\* in particular the manager never names a pending machine that was not
\* created, nor creates one for an evaluation that has no role.
THEOREM TypeCorrect == Spec => []TypeOK
<1>1. IInv => TypeOK
  BY DEF IInv
<1> QED BY <1>1, InvHolds, PTL

\* CreationsAreBounded: per role, no more machines than one for each
\* evaluation that may overlap, and none with a target of one, except those
\* that cost a failing request.
THEOREM CreationsBounded == Spec => []CreationsAreBounded
<1>1. IInv => CreationsAreBounded
  <2> SUFFICES ASSUME IInv, NEW r \in Role
               PROVE  Cardinality(Machines(r))
                        <= (Target - 1) * Cardinality(Evaluation) + faults
    BY DEF CreationsAreBounded
  <2>1. PICK M \in Nat, B \in Nat, Due \in Nat, F \in Nat :
          /\ M = Cardinality(Machines(r)) /\ B = Cardinality(Busy(r))
          /\ Due = (Target - 1) * Cardinality(Evaluation) /\ F = faults
    <3>1. faults \in Nat
      BY NetworkManagerAssumption DEF IInv, TypeOK
    <3>2. (Target - 1) * Cardinality(Evaluation) \in Nat
      BY TargetIs
    <3> QED BY <3>1, <3>2, Numbers DEF IInv
  <2>2. M + B <= Due + F
    BY <2>1 DEF IInv, Charges
  <2> QED BY <2>1, <2>2
<1> QED BY <1>1, InvHolds, PTL

=============================================================================
