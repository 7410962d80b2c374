--------------------------- MODULE HandoverProofs ---------------------------
(***************************************************************************)
(* Succession implements Handover: every step of the two-request exchange, *)
(* of a crash and of a reboot is a step of the abstract hand-over of one   *)
(* agent, or leaves it alone.                                              *)
(***************************************************************************)
EXTENDS SuccessionProofs

\* What a step may do to one agent's disk and to the registry: nothing, or
\* one stage forward.
Forward(a) ==
  /\ UNCHANGED registry
  /\ \A b \in Agent \ {a} : db'[b] = db[b] /\ sealedKey'[b] = sealedKey[b]
  /\ \/ /\ db'[a] = db[a]
        /\ sealedKey[a] # "boot" => sealedKey'[a] # "boot"
     \/ /\ sealedKey[a] # "boot" /\ sealedKey' = sealedKey
        /\ db'[a] # "own"

\* Such a step is one of the abstract steps of that agent, or none.
LEMMA ForwardRefines ==
  ASSUME TypeOK, TypeOK', SealInv, NEW a \in Agent, Forward(a)
  PROVE  [Promise!Next]_Promise!vars
<1> DEFINE At(b) == IF db[b] # "own" THEN "equipped"
                    ELSE IF sealedKey[b] # "boot" THEN "keyed" ELSE "outside"
<1>1. Stage = [b \in Agent |-> At(b)] /\ Stage' = [b \in Agent |-> At(b)']
  BY DEF Stage
<1>2. \A b \in Agent \ {a} : At(b)' = At(b)
  BY DEF Forward
<1>3. Stage' = [Stage EXCEPT ![a] = At(a)']
  BY <1>1, <1>2, Zenon
<1>4. \/ At(a)' = At(a)
      \/ At(a) = "outside" /\ At(a)' = "keyed"
      \/ At(a) = "keyed" /\ At(a)' = "equipped"
  BY DEF Forward, SealInv, Kept
<1>5. CASE At(a)' = At(a)
  <2>1. Stage' = Stage
    BY <1>1, <1>2, <1>5, Zenon
  <2>2. QED
    BY <2>1 DEF Forward, Promise!vars
<1> HIDE DEF At
<1>6. Stage[a] = At(a) /\ registry' = registry
  BY <1>1 DEF Forward
<1>7. CASE At(a) = "outside" /\ At(a)' = "keyed"
  <2>1. Promise!Entrust(a)
    BY <1>3, <1>6, <1>7 DEF Promise!Entrust, Promise!Advance
  <2>2. QED
    BY <2>1 DEF Promise!Next
<1>8. CASE At(a) = "keyed" /\ At(a)' = "equipped"
  <2>1. Promise!Equip(a)
    BY <1>3, <1>6, <1>8 DEF Promise!Equip, Promise!Advance
  <2>2. QED
    BY <2>1 DEF Promise!Next
<1>9. QED
  BY <1>4, <1>5, <1>7, <1>8

\* A step that leaves every agent's disk and the registry alone stutters.
LEMMA UntouchedRefines ==
  ASSUME UNCHANGED <<db, sealedKey, registry>>
  PROVE  [Promise!Next]_Promise!vars
<1>1. Stage' = Stage
  BY DEF Stage
<1>2. QED
  BY <1>1 DEF Promise!vars

\* Guardians touch no agent and not the registry.
LEMMA GuardianRefines ==
  ASSUME NEW g \in Guardian,
         GuardianStep(g) \/ StandDownTimeout(g) \/ GuardianRestart(g)
  PROVE  [Promise!Next]_Promise!vars
<1>1. UNCHANGED <<db, sealedKey, registry>>
  BY DEF GuardianStep, PrimarySilent, PingReceived, Initiate, ReadyAnswered,
         ConfirmAnswered, ConfirmRejected, RequestAborted, StandDown,
         StandDownTimeout, GuardianRestart, agentVars, keyVars
<1>2. QED
  BY <1>1, UntouchedRefines

\* Up to their first await the request handlers write nothing to disk.
LEMMA ServeRefines ==
  ASSUME NEW m \in net, Serve(m)
  PROVE  [Promise!Next]_Promise!vars
<1>1. UNCHANGED <<db, sealedKey, registry>>
  BY DEF Serve, BackupReady, ConfirmUnwrap, ConfirmWithoutSession, ConfirmFails,
         agentVars, keyVars
<1>2. QED
  BY <1>1, UntouchedRefines

\* A seal entrusts, a replaced file equips, the registry transaction appoints.
LEMMA ContinueRefines ==
  ASSUME TypeOK, TypeOK', SealInv, NEW h \in handlers, Continue(h)
  PROVE  [Promise!Next]_Promise!vars
<1>1. h.agent \in Agent /\ HandlerSeals(h)
  BY DEF TypeOK, Handler, SealInv
<1>2. CASE DeriveSealingKey(h) \/ RotateVaultKey(h)
  <2>1. UNCHANGED <<db, sealedKey, registry>>
    BY <1>2 DEF DeriveSealingKey, RotateVaultKey, agentVars, keyVars
  <2>2. QED
    BY <2>1, UntouchedRefines
<1>3. CASE SealReceived(h) \/ DecryptFails(h) \/ SealRotated(h)
  <2>1. /\ sealedKey' = [sealedKey EXCEPT ![h.agent] = h.key]
        /\ h.key # "boot"
        /\ UNCHANGED <<db, registry>>
    BY <1>1, <1>3 DEF SealReceived, DecryptFails, SealRotated, HandlerSeals, Kept
  <2>2. Forward(h.agent)
    BY <1>1, <2>1 DEF Forward, TypeOK
  <2>3. QED
    BY <1>1, <2>2, ForwardRefines
<1>4. CASE SnapshotApplied(h) \/ SnapshotUnreadable(h)
  <2>1. PICK d \in {"network", "torn"} : db' = [db EXCEPT ![h.agent] = d]
    BY <1>4 DEF SnapshotApplied, SnapshotUnreadable
  <2>2. sealedKey[h.agent] # "boot" /\ UNCHANGED <<sealedKey, registry>>
    BY <1>1, <1>4 DEF SnapshotApplied, SnapshotUnreadable, HandlerSeals, Kept,
       keyVars
  <2>3. Forward(h.agent)
    BY <1>1, <2>1, <2>2 DEF Forward, TypeOK
  <2>4. QED
    BY <1>1, <2>3, ForwardRefines
<1>5. CASE BecomePrimary(h)
  <2>1. UNCHANGED <<db, sealedKey>>
    BY <1>5 DEF BecomePrimary, keyVars
  <2>2. CASE registry' = registry
    BY <2>1, <2>2, UntouchedRefines
  <2>3. CASE registry' = h.agent /\ wallet[h.agent] = "network"
    <3>1. Stage' = Stage /\ Stage[h.agent] = "equipped"
      BY <1>1, <2>1, <2>3 DEF Stage, SealInv
    <3>2. Promise!Appoint(h.agent)
      BY <2>3, <3>1 DEF Promise!Appoint
    <3>3. QED
      BY <1>1, <3>2 DEF Promise!Next
  <2>4. QED
    BY <1>5, <2>2, <2>3 DEF BecomePrimary
<1>6. QED
  BY <1>2, <1>3, <1>4, <1>5 DEF Continue

\* A process that ends in the middle of writing the database equips its agent
\* with a torn file; otherwise the disk is as it was.
LEMMA MachineRefines ==
  ASSUME TypeOK, TypeOK', SealInv, NEW a \in Agent,
         Crash(a) \/ PingOnClosedDb(a) \/ Reboot(a)
  PROVE  [Promise!Next]_Promise!vars
<1>1. CASE Halt(a)
  <2>1. UNCHANGED <<sealedKey, registry>>
    BY <1>1 DEF Halt, keyVars
  <2>2. CASE Writing(a)
    <3>1. sealedKey[a] # "boot"
      BY <2>2 DEF Writing, SealInv, HandlerSeals, Kept
    <3>2. db' = [db EXCEPT ![a] = "torn"]
      BY <1>1, <2>2 DEF Halt
    <3>3. Forward(a)
      BY <2>1, <3>1, <3>2 DEF Forward, TypeOK
    <3>4. QED
      BY <3>3, ForwardRefines
  <2>3. CASE ~Writing(a)
    <3>1. db' = db
      BY <1>1, <2>3 DEF Halt, TypeOK
    <3>2. QED
      BY <2>1, <3>1, UntouchedRefines
  <2>4. QED
    BY <2>2, <2>3
<1>2. CASE Reboot(a)
  <2>1. UNCHANGED <<db, sealedKey, registry>>
    BY <1>2 DEF Reboot
  <2>2. QED
    BY <2>1, UntouchedRefines
<1>3. QED
  BY <1>1, <1>2 DEF Crash, PingOnClosedDb

\* The exchange, with all its races, timeouts, crashes and reboots, implements
\* the hand-over that goes through key, database and registry entry in this
\* order, one agent at a time, and never back.
THEOREM HandedOverHolds == Spec => HandedOver
<1>1. Init => Promise!Init
  <2>1. ASSUME Init PROVE Stage = [a \in Agent |-> "outside"]
    BY <2>1 DEF Init, Stage
  <2>2. QED
    BY <2>1 DEF Init, Promise!Init
<1>2. TypeOK /\ TypeOK' /\ SealInv /\ [Next]_vars
        => [Promise!Next]_Promise!vars
  <2>1. ASSUME TypeOK, TypeOK', SealInv, Next
        PROVE  [Promise!Next]_Promise!vars
    BY <2>1, GuardianRefines, ServeRefines, ContinueRefines, MachineRefines DEF Next
  <2>2. ASSUME UNCHANGED vars PROVE [Promise!Next]_Promise!vars
    BY <2>2, UntouchedRefines DEF vars, agentVars, keyVars
  <2>3. QED
    BY <2>1, <2>2
<1>3. QED
  BY <1>1, <1>2, TypeCorrect, SealHolds, PTL
  DEF Spec, HandedOver, Promise!Spec

=============================================================================
