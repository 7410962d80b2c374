--------------------------- MODULE NetworkManager ---------------------------
(***************************************************************************)
(* AutonomousNetworkManager: every heartbeat interval the primary calls    *)
(* evaluate(), which compares the rows of its database with the target of  *)
(* its tier, and creates virtual machines for guardians and backups that   *)
(* are missing.  createVm, with the payments of SecretVm, is the only      *)
(* await that lasts (stopVm has no endpoint to call and returns at once),  *)
(* and the timer does not wait for it: evaluations overlap.                *)
(*                                                                         *)
(* warm      the startup delay of 30 minutes is over                       *)
(* rows      the guardians table: who runs the guardian, whether the row   *)
(*           was written by provisionGuardian ("agent") or by the          *)
(*           admission of the guardian ("external"), and the status        *)
(* backups   hosts of the rows of backup_agents on standby                 *)
(* compose   the compose files stored at the first admission of a role     *)
(* config    per role: how long the deficit has lasted and the machine     *)
(*           that is pending; the backup machine of the agent              *)
(* vms       what each machine was created for, in order                   *)
(* evals     the evaluations suspended at createVm                         *)
(* call, credit, usdc   see SecretVm                                       *)
(* faults    requests to the service that failed, were not answered, or    *)
(*           were answered otherwise than a payment needs                  *)
(***************************************************************************)
EXTENDS SecretVm, Sequences

CONSTANTS
  MaxMachines,       \* bound on the machines the agent creates
  ExternalGuardian, ExternalBackup,
  Target,            \* guardians and backups the tier asks for
  MaxFaults,         \* bound on failing requests
  None

Machine == 1 .. MaxMachines
Role == {"guardian", "backup"}
Host == Machine \cup ExternalGuardian \cup ExternalBackup

ASSUME NetworkManagerAssumption ==
  /\ Target \in {1, 2}
  /\ IsFiniteSet(Host)
  /\ Machine \cap (ExternalGuardian \cup ExternalBackup) = {}
  /\ MaxFaults \in Nat /\ MaxMachines \in Nat
  /\ None \notin Host

VARIABLES warm, rows, backups, compose, config, vms, evals, faults

vars == <<warm, rows, backups, compose, config, vms, evals, serviceVars, faults>>

Row == [host : Host, by : {"agent", "external"}, status : {"active", "inactive"}]
Config == [since : [Role -> {"none", "young", "old"}],
           pending : [Role -> Machine \cup {None}],
           backupVm : Machine \cup {None}]

TypeOK ==
  /\ warm \in BOOLEAN
  /\ rows \subseteq Row
  /\ backups \subseteq Host
  /\ compose \subseteq Role
  /\ config \in Config
  /\ vms \in Seq(Role) /\ Len(vms) <= MaxMachines
  \* the role an evaluation creates machines for, and how many are left
  /\ evals \in [Evaluation -> [role : Role \cup {"idle"}, left : 0 .. Target - 1]]
  /\ ServiceTypeOK
  /\ faults \in 0 .. MaxFaults

Idle == [role |-> "idle", left |-> 0]

Init ==
  /\ warm = FALSE
  /\ rows = {}
  /\ backups = {}
  /\ compose = {}
  /\ config = [since |-> [r \in Role |-> "none"], pending |-> [r \in Role |-> None],
               backupVm |-> None]
  /\ vms = <<>>
  /\ evals = [e \in Evaluation |-> Idle]
  /\ ServiceInit
  /\ faults = 0

Active == {r \in rows : r.status = "active"}
AgentRows == {r \in Active : r.by = "agent"}
Min2(m, n) == IF m < n THEN m ELSE n

-----------------------------------------------------------------------------
(* Around the manager.                                                     *)

WarmUp ==
  /\ ~warm /\ warm' = TRUE
  /\ UNCHANGED <<rows, backups, compose, config, vms, evals, serviceVars,
                 faults>>

Provisioned(h, r) == h \in DOMAIN vms /\ vms[h] = r

\* A guardian is admitted: one of an independent operator, or of a machine.
GuardianAdmitted(h) ==
  /\ h \in ExternalGuardian \/ Provisioned(h, "guardian")
  /\ rows' = rows \cup {[host |-> h, by |-> "external", status |-> "active"]}
  /\ compose' = compose \cup {"guardian"}
  /\ UNCHANGED <<warm, backups, config, vms, evals, serviceVars,
                 faults>>

BackupAdmitted(h) ==
  /\ h \in ExternalBackup \/ Provisioned(h, "backup")
  /\ backups' = backups \cup {h}
  /\ compose' = compose \cup {"backup"}
  /\ UNCHANGED <<warm, rows, config, vms, evals, serviceVars,
                 faults>>

\* Ten minutes pass.
DeficitPersists(r) ==
  /\ config.since[r] = "young"
  /\ config' = [config EXCEPT !.since[r] = "old"]
  /\ UNCHANGED <<warm, rows, backups, compose, vms, evals, serviceVars,
                 faults>>

-----------------------------------------------------------------------------
(* evaluate(): the part about one role, given the configuration c that the *)
(* part before it left and the number n of rows that count.                *)

Waiting(r, c, n) == n < Target /\ (c.pending[r] # None \/ c.since[r] = "young")
Detected(r, c, n) == n < Target /\ c.pending[r] = None /\ c.since[r] = "none"
Persisted(r, c, n) == n < Target /\ c.pending[r] = None /\ c.since[r] = "old"

Noted(r, c) == [c EXCEPT !.since[r] = "young"]
Cleared(r, c) == [c EXCEPT !.since[r] = "none", !.pending[r] = None]

Return(e, c) == evals' = [evals EXCEPT ![e] = Idle] /\ config' = c

\* Mutant: the loop runs once too often.
ProvisionOneMore(e, r, c, n) ==
  IF r \in compose
  THEN evals' = [evals EXCEPT ![e] = [role |-> r, left |-> Target + 1 - n]] /\ config' = c
  ELSE Return(e, c)

\* Machines for role r are created one by one; without a compose file
\* evaluate throws before the first one.
Provision(e, r, c, n) ==
  IF r \in compose
  THEN evals' = [evals EXCEPT ![e] = [role |-> r, left |-> Target - n]] /\ config' = c
  ELSE Return(e, c)

\* createVm is called if the evaluation goes on to create machines.
Calls(e) == IF evals'[e] = Idle THEN UNCHANGED serviceVars ELSE CreateVm(e)

BackupPart(e, c) ==
  LET n == Cardinality(backups) IN
  \/ Waiting("backup", c, n) /\ Return(e, c)
  \/ Detected("backup", c, n) /\ Return(e, Noted("backup", c))
  \/ Persisted("backup", c, n) /\ Provision(e, "backup", c, n)
  \/ /\ n >= Target
     /\ Return(e, [Cleared("backup", c) EXCEPT
                     !.backupVm = IF n > Target THEN None ELSE @])

\* Rows of machines the agent created are retired, as many as are too many,
\* never a row of an admitted guardian.
Retire ==
  \E R \in SUBSET AgentRows :
    /\ Cardinality(R) = Min2(Cardinality(Active) - Target, Cardinality(AgentRows))
    /\ rows' = (rows \ R) \cup {[r EXCEPT !.status = "inactive"] : r \in R}

Evaluate(e) ==
  LET n == Cardinality(Active) IN
  /\ warm /\ backups # {} /\ evals[e] = Idle
  /\ \/ Waiting("guardian", config, n) /\ BackupPart(e, config) /\ UNCHANGED rows
     \/ /\ Detected("guardian", config, n)
        /\ BackupPart(e, Noted("guardian", config)) /\ UNCHANGED rows
     \/ /\ Persisted("guardian", config, n)
        /\ Provision(e, "guardian", config, n) /\ UNCHANGED rows
     \/ n >= Target /\ Retire /\ BackupPart(e, Cleared("guardian", config))
  /\ Calls(e)
  /\ UNCHANGED <<warm, backups, compose, vms, faults>>

Machines(r) == {m \in DOMAIN vms : vms[m] = r}
New == Len(vms) + 1

\* createVm returns; it is called again for what is left of the role, or for
\* the role after it.
Answered(e, r) ==
  /\ evals[e].role = r /\ Len(vms) < MaxMachines
  /\ VmCreated(e, evals'[e] # Idle)
  /\ vms' = Append(vms, r)

\* The loop goes on, or ends and the deficit is forgotten.
GuardianCreated(e) ==
  LET c == [config EXCEPT !.pending["guardian"] = New] IN
  /\ evals[e].role = "guardian"
  /\ IF evals[e].left > 1
     THEN evals' = [evals EXCEPT ![e].left = @ - 1] /\ config' = c
     ELSE BackupPart(e, [c EXCEPT !.since["guardian"] = "none"])
  /\ Answered(e, "guardian")
  /\ rows' = rows \cup {[host |-> New, by |-> "agent", status |-> "active"]}
  /\ UNCHANGED <<warm, backups, compose, faults>>

BackupsGoOn(e, c) ==
  IF evals[e].left > 1
  THEN evals' = [evals EXCEPT ![e].left = @ - 1] /\ config' = c
  ELSE Return(e, [c EXCEPT !.since["backup"] = "none"])

\* Mutant: the machine is not noted as pending.
BackupCreatedUnnoted(e) ==
  /\ evals[e].role = "backup"
  /\ BackupsGoOn(e, [config EXCEPT !.backupVm = New])
  /\ Answered(e, "backup")
  /\ UNCHANGED <<warm, rows, backups, compose, faults>>

BackupCreated(e) ==
  /\ evals[e].role = "backup"
  /\ BackupsGoOn(e, [config EXCEPT !.backupVm = New, !.pending["backup"] = New])
  /\ Answered(e, "backup")
  /\ UNCHANGED <<warm, rows, backups, compose, faults>>

Created(e) == GuardianCreated(e) \/ BackupCreated(e)

\* The client is refused and pays.
Pays(e) ==
  /\ Refused(e) \/ TermsSigned(e) \/ Paid(e)
  /\ UNCHANGED <<warm, rows, backups, compose, config, vms, evals, faults>>

Fault == faults < MaxFaults /\ faults' = faults + 1

\* Mutant: a payment that was settled is sent a second time.
RateLimitedLate(e) ==
  /\ Fault /\ LimitedLate(e)
  /\ UNCHANGED <<warm, rows, backups, compose, config, vms, evals>>

RateLimited(e) ==
  /\ Fault /\ Limited(e)
  /\ UNCHANGED <<warm, rows, backups, compose, config, vms, evals>>

ToppedUpUnpaid(e) ==
  /\ Fault /\ Waived(e)
  /\ UNCHANGED <<warm, rows, backups, compose, config, vms, evals>>


\* createVm throws, and evaluate with it: a request failed, the answer was lost
\* and a machine that nobody noted is running, or a payment was made.
CreationFails(e) ==
  /\ \/ Fault /\ Failed(e) /\ UNCHANGED vms
     \/ /\ Fault /\ CreatedUnheard(e) /\ Len(vms) < MaxMachines
        /\ vms' = Append(vms, evals[e].role)
     \/ Fault /\ PaidUnheard(e) /\ UNCHANGED vms
     \/ Unpaid(e) /\ UNCHANGED <<vms, faults>>
  /\ Return(e, config)
  /\ UNCHANGED <<warm, rows, backups, compose>>

Deposit ==
  /\ Refill
  /\ UNCHANGED <<warm, rows, backups, compose, config, vms, evals, faults>>

-----------------------------------------------------------------------------
Next ==
  \/ WarmUp
  \/ \E h \in Host : GuardianAdmitted(h) \/ BackupAdmitted(h)
  \/ \E r \in Role : DeficitPersists(r)
  \/ \E e \in Evaluation : \/ Evaluate(e) \/ Created(e) \/ CreationFails(e)
                          \/ Pays(e) \/ RateLimited(e) \/ ToppedUpUnpaid(e)
  \/ Deposit

Spec == Init /\ [][Next]_vars

\* Time passes, the timer fires, the service answers, the wallet is refilled and
\* an independent backup registers.  Nothing is assumed of the machines that
\* are created: their clients give up after ten attempts or a refusal.
Fairness ==
  /\ WF_vars(WarmUp)
  /\ \A r \in Role : WF_vars(DeficitPersists(r))
  /\ \A e \in Evaluation : /\ WF_vars(Evaluate(e)) /\ WF_vars(Created(e))
                            /\ WF_vars(Pays(e))
  /\ WF_vars(Deposit)
  /\ \A h \in ExternalBackup : WF_vars(BackupAdmitted(h))

FairSpec == Spec /\ Fairness

-----------------------------------------------------------------------------
(* Properties.                                                             *)

\* The agent never pays for more machines of a role than are missing once the
\* first peer of that role was admitted, times the evaluations that may
\* overlap, except for those whose answer was lost: the flags in the database
\* keep evaluations that start after the first answer from creating more,
\* across failing calls and late admissions.
CreationsAreBounded ==
  \A r \in Role :
    Cardinality(Machines(r)) <= (Target - 1) * Cardinality(Evaluation) + faults


=============================================================================
