--------------------------- MODULE SuccessionProofs ---------------------------
(***************************************************************************)
(* Invariants of Succession for any number of guardians and agents, any    *)
(* tables, any kinds and number of faults.                                 *)
(***************************************************************************)
EXTENDS Succession, SelectionProofs, TLAPS

USE SuccessionAssumption

(***************************************************************************)
(* Types of the records the actions build.                                 *)
(***************************************************************************)
\* Posting or answering builds a well-formed message.
LEMMA MsgType ==
  ASSUME NEW g \in Guardian, NEW a \in Agent, NEW n \in ContactId,
         NEW t \in {"ready", "readyOk", "confirm", "confirmOk", "confirmErr"}
  PROVE  Msg(t, g, a, n) \in Message
BY DEF Msg, Message

\* An answer, if it is sent at all, is a well-formed message.
LEMMA AnswerType ==
  ASSUME NEW g \in Guardian, NEW a \in Agent, NEW n \in ContactId,
         NEW t \in {"ready", "readyOk", "confirm", "confirmOk", "confirmErr"}
  PROVE  Answer(t, g, a, n) \subseteq Message
BY MsgType DEF Answer

\* A message in flight names a guardian, an agent and a contact.
LEMMA MsgFields ==
  ASSUME NEW m \in Message
  PROVE  m.guardian \in Guardian /\ m.agent \in Agent /\ m.contact \in ContactId
BY DEF Message

\* The head of the candidate loop keeps the types of what it assigns.
LEMMA NextCandidateType ==
  ASSUME TypeOK, NEW g \in Guardian, NEW R \in SUBSET BackupRow,
         NEW msgs \in SUBSET Message, NextCandidate(g, R, msgs)
  PROVE  /\ phase' \in [Guardian -> {"idle", "ready", "confirm", "standdown", "down"}]
         /\ remaining' \in [Guardian -> SUBSET BackupRow]
         /\ target' \in [Guardian -> Agent \cup {None}]
         /\ contact' \in [Guardian -> ContactId \cup {None}]
         /\ net' \subseteq Message
<1>1. CASE R = {} /\ phase' = [phase EXCEPT ![g] = "idle"]
                  /\ remaining' = [remaining EXCEPT ![g] = {}]
                  /\ target' = [target EXCEPT ![g] = None]
                  /\ contact' = [contact EXCEPT ![g] = None]
                  /\ net' = msgs
  BY <1>1 DEF TypeOK
<1>2. ASSUME NEW r \in R, NEW n \in ContactId,
             phase' = [phase EXCEPT ![g] = "ready"],
             remaining' = [remaining EXCEPT ![g] = R \ {r}],
             target' = [target EXCEPT ![g] = r.agent],
             contact' = [contact EXCEPT ![g] = n],
             net' = IF up[r.agent] THEN msgs \cup {Msg("ready", g, r.agent, n)}
                    ELSE msgs
      PROVE  /\ phase' \in [Guardian -> {"idle", "ready", "confirm", "standdown", "down"}]
             /\ remaining' \in [Guardian -> SUBSET BackupRow]
             /\ target' \in [Guardian -> Agent \cup {None}]
             /\ contact' \in [Guardian -> ContactId \cup {None}]
             /\ net' \subseteq Message
  <2>1. r.agent \in Agent
    BY DEF BackupRow
  <2>2. Msg("ready", g, r.agent, n) \in Message
    BY <2>1, MsgType
  <2>3. QED
    BY <1>2, <2>1, <2>2 DEF TypeOK
<1>3. QED
  BY <1>1, <1>2 DEF NextCandidate

\* The exchange a message or a handler belongs to names a session.
LEMMA SessionType ==
  ASSUME NEW x, x.guardian \in Guardian, x.contact \in ContactId
  PROVE  SessionOf(x) \in Session /\ SessionOf(x) # None /\ SessionOf(x) # Service
BY DEF SessionOf, Session

\* A new handler of /confirm is well formed.
LEMMA NewHandlerType ==
  ASSUME NEW m \in Message, NEW o \in Buffer, NEW s \in {"derive", "rotate"}
  PROVE  NewHandler(m, s, o) \in Handler
<1>1. m.guardian \in Guardian /\ m.agent \in Agent /\ m.contact \in ContactId
  BY MsgFields
<1>2. "zero" \in Key
  BY DEF Key
<1>3. QED
  BY <1>1, <1>2 DEF NewHandler, Handler

\* k is the handler j, but that the key it received may have been zeroed.
Same(j, k) ==
  /\ k.agent = j.agent /\ k.guardian = j.guardian /\ k.contact = j.contact
  /\ k.step = j.step /\ k.key = j.key
  /\ j.step \notin {"derive", "seal"} => k = j

\* k is h at its next await: seal() takes the key the manager holds when the
\* sealing key is there.
Resumed(h, k) ==
  /\ k.agent = h.agent /\ k.guardian = h.guardian /\ k.contact = h.contact
  /\ <<h.step, k.step>> \in
       {<<"derive", "seal">>, <<"seal", "write">>, <<"write", "rotate">>,
        <<"rotate", "rederive">>, <<"rederive", "reseal">>,
        <<"reseal", "register">>}
  /\ h.step \in {"derive", "rederive"} => k.key = mgrKey[h.agent]
  /\ k.spoilt = h.spoilt

\* A rotation zeroes keys of other handlers, and changes nothing else of them.
LEMMA RotateRecords ==
  ASSUME TypeOK, NEW h \in handlers, RotateVaultKey(h)
  PROVE  /\ handlers' \subseteq Handler
         /\ \A k \in handlers' :
              (\E j \in handlers \ {h} : Same(j, k)) \/ Resumed(h, k)
         /\ \A j \in handlers \ {h} : \E k \in handlers' : Same(j, k)
<1> DEFINE zeroed(k) == IF Spoils(h, k) THEN [k EXCEPT !.spoilt = TRUE] ELSE k
           r == [h EXCEPT !.step = "rederive", !.old = None]
<1>1. handlers' = {zeroed(k) : k \in handlers \ {h}} \cup {r}
  BY DEF RotateVaultKey
<1>2. \A k \in handlers : k \in Handler
  BY DEF TypeOK
<1>3. \A k \in handlers : zeroed(k) \in Handler /\ Same(k, zeroed(k))
  BY <1>2 DEF Handler, Same, Spoils
<1>4. r \in Handler
  BY <1>2 DEF Handler, Buffer
<1>5. Resumed(h, r)
  BY <1>2 DEF RotateVaultKey, Handler, Resumed
<1> HIDE DEF zeroed, r
<1>6. QED
  BY <1>1, <1>3, <1>4, <1>5

\* One step of a handler, seen from the table of handlers.
LEMMA ContinueRecords ==
  ASSUME TypeOK, NEW h \in handlers, Continue(h)
  PROVE  /\ handlers' \subseteq Handler
         /\ \A k \in handlers' :
              (\E j \in handlers \ {h} : Same(j, k)) \/ Resumed(h, k)
         /\ \A j \in handlers \ {h} : \E k \in handlers' : Same(j, k)
<1>1. h \in Handler /\ handlers \subseteq Handler
  BY DEF TypeOK
<1>2. \A j \in handlers : Same(j, j)
  BY DEF Same
<1>3. ASSUME NEW r \in Handler, Resumed(h, r), handlers' = (handlers \ {h}) \cup {r}
      PROVE  /\ handlers' \subseteq Handler
             /\ \A k \in handlers' :
                  (\E j \in handlers \ {h} : Same(j, k)) \/ Resumed(h, k)
             /\ \A j \in handlers \ {h} : \E k \in handlers' : Same(j, k)
  BY <1>1, <1>2, <1>3
<1>4. CASE DeriveSealingKey(h)
  <2> DEFINE r == [h EXCEPT !.key = mgrKey[h.agent],
                  !.step = IF h.step = "derive" THEN "seal" ELSE "reseal"]
  <2>1. mgrKey[h.agent] \in Key
    BY <1>1 DEF TypeOK, Handler
  <2>2. r \in Handler
    BY <1>1, <2>1 DEF Handler
  <2>3. Resumed(h, r)
    BY <1>1, <1>4 DEF DeriveSealingKey, Handler, Resumed
  <2>4. handlers' = (handlers \ {h}) \cup {r}
    BY <1>4 DEF DeriveSealingKey
  <2> HIDE DEF r
  <2>5. QED
    BY <1>3, <2>2, <2>3, <2>4
<1>5. CASE SealReceived(h) \/ SealRotated(h)
  <2> DEFINE r(s) == [h EXCEPT !.step = s, !.key = "zero"]
  <2>1. PICK s \in {"write", "register"} :
          /\ handlers' = (handlers \ {h}) \cup {r(s)}
          /\ s = IF h.step = "seal" THEN "write" ELSE "register"
          /\ h.step \in {"seal", "reseal"}
    BY <1>5 DEF SealReceived, SealRotated, Resume
  <2>2. r(s) \in Handler
    BY <1>1 DEF Handler, Key
  <2>3. Resumed(h, r(s))
    BY <1>1, <2>1 DEF Handler, Resumed
  <2> HIDE DEF r
  <2>4. QED
    BY <1>3, <2>1, <2>2, <2>3
<1>6. CASE SnapshotApplied(h)
  <2> DEFINE r == [h EXCEPT !.step = "rotate", !.old = buffer[h.agent]]
  <2>1. buffer[h.agent] \in Buffer
    BY <1>1 DEF TypeOK, Handler
  <2>2. r \in Handler
    BY <1>1, <2>1 DEF Handler
  <2>3. Resumed(h, r)
    BY <1>1, <1>6 DEF SnapshotApplied, Handler, Resumed
  <2>4. handlers' = (handlers \ {h}) \cup {r}
    BY <1>6 DEF SnapshotApplied
  <2> HIDE DEF r
  <2>5. QED
    BY <1>3, <2>2, <2>3, <2>4
<1>7. CASE RotateVaultKey(h)
  BY <1>7, RotateRecords
<1>8. CASE DecryptFails(h) \/ SnapshotUnreadable(h) \/ BecomePrimary(h)
  <2>1. handlers' = handlers \ {h}
    BY <1>8 DEF DecryptFails, SnapshotUnreadable, BecomePrimary, Throws
  <2>2. QED
    BY <1>1, <1>2, <2>1
<1>9. QED
  BY <1>4, <1>5, <1>6, <1>7, <1>8 DEF Continue

\* A counted fault stays within the bound.
LEMMA FaultType ==
  ASSUME TypeOK, NEW k, Fault(k)
  PROVE  faults' \in 0 .. MaxFaults
BY DEF TypeOK, Fault

-----------------------------------------------------------------------------
(***************************************************************************)
(* Type correctness.                                                       *)
(***************************************************************************)
\* The initial state is well typed.
LEMMA InitTypeOK == Init => TypeOK
BY DEF Init, TypeOK, Key, Buffer

\* A guardian's own steps preserve the types.
LEMMA GuardianTypeOK ==
  ASSUME TypeOK, NEW g \in Guardian,
         GuardianStep(g) \/ StandDownTimeout(g) \/ GuardianRestart(g)
  PROVE  TypeOK'
<1> USE DEF guardianVars, agentVars, keyVars, history
<1>1. CASE PrimarySilent(g)
  BY <1>1 DEF PrimarySilent, TypeOK
<1>2. CASE PingReceived(g)
  BY <1>2 DEF PingReceived, TypeOK
<1>3. CASE Initiate(g)
  <2>1. Standby(Roster[g]) \in SUBSET BackupRow
    BY DEF Standby
  <2>2. NextCandidate(g, Standby(Roster[g]), net) /\ net \in SUBSET Message
    BY <1>3 DEF Initiate, TypeOK
  <2>3. QED
    BY <1>3, <2>1, <2>2, NextCandidateType DEF Initiate, TypeOK
<1>4. CASE ReadyAnswered(g)
  <2> DEFINE m == Msg("readyOk", g, target[g], contact[g])
             sent == Msg("confirm", g, target[g], contact[g])
  <2>1. m \in Message
    BY <1>4 DEF ReadyAnswered, TypeOK
  <2>2. target[g] \in Agent /\ contact[g] \in ContactId
    BY <2>1, MsgFields DEF Msg
  <2>3. sent \in Message
    BY <2>2, MsgType
  <2>4. QED
    BY <1>4, <2>3 DEF ReadyAnswered, TypeOK
<1>5. CASE ConfirmAnswered(g)
  BY <1>5 DEF ConfirmAnswered, TypeOK
<1>6. CASE ConfirmRejected(g)
  <2>1. remaining[g] \in SUBSET BackupRow
    BY DEF TypeOK
  <2>2. net \ {Msg("confirmErr", g, target[g], contact[g])} \in SUBSET Message
    BY DEF TypeOK
  <2>3. QED
    BY <1>6, <2>1, <2>2, NextCandidateType DEF ConfirmRejected, TypeOK
<1>7. CASE RequestAborted(g)
  <2>1. remaining[g] \in SUBSET BackupRow
    BY DEF TypeOK
  <2>2. {m \in net : m.guardian = g => m.type \in {"ready", "confirm"}}
          \in SUBSET Message
    BY DEF TypeOK
  <2>3. faults' \in 0 .. MaxFaults
    BY <1>7, FaultType DEF RequestAborted, Late, TypeOK
  <2>4. QED
    BY <1>7, <2>1, <2>2, <2>3, NextCandidateType DEF RequestAborted, TypeOK
<1>8. CASE StandDown(g)
  BY <1>8 DEF StandDown, TypeOK
<1>9. CASE StandDownTimeout(g)
  BY <1>9, FaultType DEF StandDownTimeout, TypeOK
<1>10. CASE GuardianRestart(g)
  BY <1>10, FaultType DEF GuardianRestart, TypeOK
<1>11. QED
  BY <1>1, <1>2, <1>3, <1>4, <1>5, <1>6, <1>7, <1>8, <1>9, <1>10
  DEF GuardianStep

\* So do the request handlers of an agent, up to their first await ...
LEMMA ServeTypeOK ==
  ASSUME TypeOK, NEW m \in net, Serve(m)
  PROVE  TypeOK'
<1> USE DEF guardianVars, agentVars, keyVars, history
<1>1. m \in Message /\ m.guardian \in Guardian /\ m.agent \in Agent
        /\ m.contact \in ContactId
  BY MsgFields DEF TypeOK
<1>2. CASE BackupReady(m)
  <2>1. [guardian |-> m.guardian, contact |-> m.contact] \in Session
    BY <1>1 DEF Session
  <2>2. Answer("readyOk", m.guardian, m.agent, m.contact) \subseteq Message
    BY <1>1, AnswerType
  <2>3. QED
    BY <1>1, <1>2, <2>1, <2>2 DEF BackupReady, TypeOK
<1>3. CASE ConfirmUnwrap(m)
  <2>1. NewHandler(m, "derive", None) \in Handler
    BY <1>1, NewHandlerType DEF Buffer
  <2>2. SessionOf(m) \in Buffer
    BY <1>1, SessionType DEF Buffer
  <2>3. QED
    BY <1>1, <1>3, <2>1, <2>2 DEF ConfirmUnwrap, TypeOK, Key
<1>4. CASE ConfirmWithoutSession(m)
  <2>1. NewHandler(m, "rotate", buffer[m.agent]) \in Handler
    BY <1>1, NewHandlerType DEF TypeOK
  <2>2. QED
    BY <1>1, <1>4, <2>1 DEF ConfirmWithoutSession, TypeOK
<1>5. CASE ConfirmFails(m)
  <2>1. Answer("confirmErr", m.guardian, m.agent, m.contact) \subseteq Message
    BY <1>1, AnswerType
  <2>2. QED
    BY <1>1, <1>5, <2>1 DEF ConfirmFails, TypeOK
<1>6. QED
  BY <1>2, <1>3, <1>4, <1>5 DEF Serve

\* ... and from one await to the next.
LEMMA ContinueTypeOK ==
  ASSUME TypeOK, NEW h \in handlers, Continue(h)
  PROVE  TypeOK'
<1> USE DEF guardianVars, agentVars, keyVars, history
<1>1. h \in Handler /\ h.agent \in Agent /\ h.guardian \in Guardian
        /\ h.contact \in ContactId /\ h.key \in Key
  BY DEF TypeOK, Handler
<1>2. handlers' \subseteq Handler
  BY ContinueRecords
<1>3. \A t \in {"confirmOk", "confirmErr"} :
        Answer(t, h.guardian, h.agent, h.contact) \subseteq Message
  BY <1>1, AnswerType
<1>4. CASE DeriveSealingKey(h)
  BY <1>2, <1>4 DEF DeriveSealingKey, TypeOK
<1>5. CASE SealReceived(h)
  BY <1>1, <1>2, <1>5 DEF SealReceived, TypeOK, Buffer
<1>6. CASE DecryptFails(h)
  BY <1>1, <1>2, <1>3, <1>6 DEF DecryptFails, Throws, TypeOK
<1>7. CASE SnapshotApplied(h)
  <2>1. PICK d \in {"network", "torn"} :
          /\ db' = [db EXCEPT ![h.agent] = d]
          /\ wallet' = [wallet EXCEPT ![h.agent] =
               IF @ = "none" /\ d = "network" THEN "network" ELSE @]
    BY <1>7 DEF SnapshotApplied
  <2>2. QED
    BY <1>1, <1>2, <1>7, <2>1 DEF SnapshotApplied, TypeOK
<1>8. CASE SnapshotUnreadable(h)
  BY <1>1, <1>2, <1>3, <1>8 DEF SnapshotUnreadable, Throws, TypeOK
<1>9. CASE RotateVaultKey(h)
  BY <1>1, <1>2, <1>9 DEF RotateVaultKey, TypeOK, Key, Buffer
<1>10. CASE SealRotated(h)
  BY <1>1, <1>2, <1>10 DEF SealRotated, TypeOK
<1>11. CASE BecomePrimary(h)
  <2>1. faults' \in 0 .. MaxFaults
    BY <1>11, FaultType DEF BecomePrimary, TypeOK
  <2>2. QED
    BY <1>1, <1>2, <1>3, <1>11, <2>1 DEF BecomePrimary, TypeOK
<1>12. QED
  BY <1>4, <1>5, <1>6, <1>7, <1>8, <1>9, <1>10, <1>11 DEF Continue

\* So do crashes and reboots.
LEMMA MachineTypeOK ==
  ASSUME TypeOK, NEW a \in Agent, Crash(a) \/ PingOnClosedDb(a) \/ Reboot(a)
  PROVE  TypeOK'
<1> USE DEF guardianVars, agentVars, keyVars, history
<1>1. CASE Halt(a) /\ \E k \in Faults : Fault(k)
  BY <1>1, FaultType DEF Halt, TypeOK
<1>2. CASE Reboot(a)
  <2>1. PICK r \in {"primary", "backup"} :
          /\ Resolved(a, r)
          /\ role' = [role EXCEPT ![a] = r]
          /\ wallet' = [wallet EXCEPT ![a] =
               IF r = "backup" THEN "none"
               ELSE IF db[a] = "network" THEN "network" ELSE "own"]
    BY <1>2 DEF Reboot
  <2>2. faults' \in 0 .. MaxFaults
    BY <2>1, FaultType DEF Resolved, TypeOK
  <2>3. QED
    BY <1>2, <2>1, <2>2 DEF Reboot, TypeOK, Buffer
<1>3. QED
  BY <1>1, <1>2 DEF Crash, PingOnClosedDb, Faults

\* Every variable keeps its type.
THEOREM TypeCorrect == Spec => []TypeOK
<1>1. TypeOK /\ [Next]_vars => TypeOK'
  <2>1. ASSUME TypeOK, Next PROVE TypeOK'
    BY <2>1, GuardianTypeOK, ServeTypeOK, ContinueTypeOK, MachineTypeOK DEF Next
  <2>2. ASSUME TypeOK, UNCHANGED vars PROVE TypeOK'
    BY <2>2 DEF TypeOK, vars, guardianVars, agentVars, keyVars, history
  <2>3. QED
    BY <2>1, <2>2
<1>2. QED
  BY InitTypeOK, <1>1, PTL DEF Spec

-----------------------------------------------------------------------------
(***************************************************************************)
(* The vault key is sealed before the database is replaced.                *)
(***************************************************************************)
\* The keys of a succession, received or rotated.
Kept == {"network", "rotated"}

\* What the steps of a handler owe to the ones before: it runs at an agent
\* that is up, an encryption of the current key never takes the boot key or
\* a zeroed one, and the file is written under a sealed key of the network.
HandlerSeals(h) ==
  /\ up[h.agent]
  /\ h.step \in {"derive", "rederive"} => mgrKey[h.agent] \in Kept
  /\ h.step \in {"seal", "reseal"} => h.key \in Kept
  /\ h.step = "write" => sealedKey[h.agent] \in Kept

\* Only the network's database yields the network's wallet, and only that
\* wallet the registry entry.
SealInv ==
  /\ \A h \in handlers : HandlerSeals(h)
  /\ \A a \in Agent :
       /\ db[a] # "own" => sealedKey[a] \in Kept
       /\ wallet[a] = "network" => db[a] # "own"
       /\ registry = a => db[a] # "own"

\* Initially there is no handler, and every agent has its own database.
LEMMA InitSeal == Init => SealInv
BY DEF Init, SealInv

\* Guardians touch nothing of it.
LEMMA GuardianSeal ==
  ASSUME SealInv, NEW g \in Guardian,
         GuardianStep(g) \/ StandDownTimeout(g) \/ GuardianRestart(g)
  PROVE  SealInv'
<1>1. UNCHANGED <<agentVars, handlers, registry>>
  BY DEF GuardianStep, PrimarySilent, PingReceived, Initiate, ReadyAnswered,
         ConfirmAnswered, ConfirmRejected, RequestAborted, StandDown,
         StandDownTimeout, GuardianRestart
<1>2. QED
  BY <1>1 DEF SealInv, HandlerSeals, agentVars, keyVars

\* A handler starts with the unwrapped key, or skips to the rotation.
LEMMA ServeSeal ==
  ASSUME TypeOK, SealInv, NEW m \in net, Serve(m)
  PROVE  SealInv'
<1> USE DEF guardianVars, agentVars, keyVars, history
<1>1. m.agent \in Agent
  BY MsgFields DEF TypeOK
<1>2. CASE BackupReady(m)
  BY <1>2 DEF BackupReady, SealInv, HandlerSeals
<1>3. CASE ConfirmUnwrap(m)
  BY <1>1, <1>3 DEF ConfirmUnwrap, NewHandler, SealInv, HandlerSeals, Kept, TypeOK
<1>4. CASE ConfirmWithoutSession(m)
  BY <1>1, <1>4 DEF ConfirmWithoutSession, NewHandler, SealInv, HandlerSeals, TypeOK
<1>5. CASE ConfirmFails(m)
  BY <1>5 DEF ConfirmFails, SealInv, HandlerSeals
<1>6. QED
  BY <1>2, <1>3, <1>4, <1>5 DEF Serve

\* A step that keeps what is kept hands the next await what it relies on,
\* whatever other handlers of the agent are at.
LEMMA ContinueKeeps ==
  ASSUME TypeOK, SealInv, NEW h \in handlers, Continue(h), up' = up,
         \A a \in Agent : /\ mgrKey[a] \in Kept => mgrKey'[a] \in Kept
                          /\ sealedKey[a] \in Kept => sealedKey'[a] \in Kept,
         h.step = "rotate" => mgrKey'[h.agent] \in Kept,
         h.step = "seal" => sealedKey'[h.agent] \in Kept
  PROVE  \A k \in handlers' : HandlerSeals(k)'
<1> SUFFICES ASSUME NEW k \in handlers' PROVE HandlerSeals(k)'
  OBVIOUS
<1>1. \A j \in handlers : j.agent \in Agent
  BY DEF TypeOK, Handler
<1>2. CASE \E j \in handlers : Same(j, k)
  BY <1>1, <1>2 DEF Same, SealInv, HandlerSeals
<1>3. CASE Resumed(h, k)
  BY <1>1, <1>3 DEF Resumed, SealInv, HandlerSeals
<1>4. QED
  BY <1>2, <1>3, ContinueRecords

\* Each await hands the next step what it relies on, whatever the other
\* handlers of the agent have done to its keys and its database meanwhile.
LEMMA ContinueSeal ==
  ASSUME TypeOK, SealInv, NEW h \in handlers, Continue(h)
  PROVE  SealInv'
<1> USE DEF guardianVars, agentVars, keyVars, history
<1>1. h.agent \in Agent /\ HandlerSeals(h)
  BY DEF TypeOK, Handler, SealInv
<1>2. CASE DeriveSealingKey(h)
  <2>1. UNCHANGED agentVars /\ registry' = registry
    BY <1>2 DEF DeriveSealingKey
  <2>2. h.step \in {"derive", "rederive"}
    BY <1>2 DEF DeriveSealingKey
  <2>3. QED
    BY <2>1, <2>2, ContinueKeeps DEF SealInv
<1>3. CASE SealReceived(h) \/ DecryptFails(h) \/ SealRotated(h)
  <2>1. /\ sealedKey' = [sealedKey EXCEPT ![h.agent] = h.key]
        /\ h.step \in {"seal", "reseal"}
        /\ UNCHANGED <<up, mgrKey, db, wallet, registry>>
    BY <1>3 DEF SealReceived, DecryptFails, SealRotated
  <2>2. h.key \in Kept
    BY <1>1, <2>1 DEF HandlerSeals
  <2>3. /\ sealedKey'[h.agent] \in Kept
        /\ \A a \in Agent : sealedKey[a] \in Kept => sealedKey'[a] \in Kept
    BY <1>1, <2>1, <2>2 DEF TypeOK
  <2>4. QED
    BY <2>1, <2>3, ContinueKeeps DEF SealInv
<1>4. CASE SnapshotApplied(h) \/ SnapshotUnreadable(h)
  <2>1. PICK d \in {"network", "torn"} :
          /\ db' = [db EXCEPT ![h.agent] = d]
          /\ wallet' \in {wallet, [wallet EXCEPT ![h.agent] =
               IF @ = "none" /\ d = "network" THEN "network" ELSE @]}
    BY <1>4 DEF SnapshotApplied, SnapshotUnreadable
  <2>2. h.step = "write" /\ UNCHANGED <<up, mgrKey, sealedKey, registry>>
    BY <1>4 DEF SnapshotApplied, SnapshotUnreadable
  <2>3. sealedKey[h.agent] \in Kept
    BY <1>1, <2>2 DEF HandlerSeals
  <2>4. \A a \in Agent :
          /\ db'[a] # "own" => sealedKey[a] \in Kept
          /\ wallet'[a] = "network" => db'[a] # "own"
          /\ registry = a => db'[a] # "own"
    BY <1>1, <2>1, <2>3 DEF SealInv, TypeOK
  <2>5. QED
    BY <2>2, <2>4, ContinueKeeps DEF SealInv
<1>5. CASE RotateVaultKey(h)
  <2>1. /\ mgrKey' = [mgrKey EXCEPT ![h.agent] = "rotated"]
        /\ h.step = "rotate" /\ UNCHANGED <<up, sealedKey, db, wallet, registry>>
    BY <1>5 DEF RotateVaultKey
  <2>2. /\ mgrKey'[h.agent] \in Kept
        /\ \A a \in Agent : mgrKey[a] \in Kept => mgrKey'[a] \in Kept
    BY <1>1, <2>1 DEF TypeOK, Kept
  <2>3. QED
    BY <2>1, <2>2, ContinueKeeps DEF SealInv
<1>6. CASE BecomePrimary(h)
  <2>1. /\ registry' = registry \/ (registry' = h.agent /\ wallet[h.agent] = "network")
        /\ h.step = "register" /\ UNCHANGED <<up, mgrKey, sealedKey, db, wallet>>
    BY <1>6 DEF BecomePrimary
  <2>2. \A a \in Agent : registry' = a => db[a] # "own"
    BY <1>1, <2>1 DEF SealInv
  <2>3. QED
    BY <2>1, <2>2, ContinueKeeps DEF SealInv
<1>7. QED
  BY <1>2, <1>3, <1>4, <1>5, <1>6 DEF Continue

\* A crash takes the handlers with it, a reboot finds none.
LEMMA MachineSeal ==
  ASSUME TypeOK, SealInv, NEW a \in Agent, Crash(a) \/ PingOnClosedDb(a) \/ Reboot(a)
  PROVE  SealInv'
<1> USE DEF guardianVars, agentVars, keyVars, history
<1>1. \A h \in handlers : h.agent \in Agent
  BY DEF TypeOK, Handler
<1>2. CASE Halt(a)
  <2>1. /\ handlers' = {h \in handlers : h.agent # a}
        /\ up' = [up EXCEPT ![a] = FALSE]
        /\ UNCHANGED <<mgrKey, sealedKey, wallet, registry>>
        /\ db' = [db EXCEPT ![a] = IF Writing(a) THEN "torn" ELSE @]
    BY <1>2 DEF Halt
  <2>2. Writing(a) => sealedKey[a] \in Kept
    BY DEF Writing, SealInv, HandlerSeals
  <2>3. \A b \in Agent : db'[b] = db[b] \/ (b = a /\ Writing(a) /\ db'[b] # "own")
    BY <2>1 DEF TypeOK
  <2>4. \A h \in handlers' : HandlerSeals(h)'
    BY <1>1, <2>1 DEF SealInv, HandlerSeals, TypeOK
  <2>5. QED
    BY <2>1, <2>2, <2>3, <2>4 DEF SealInv
<1>3. CASE Reboot(a)
  <2>1. /\ ~up[a] /\ handlers' = handlers
        /\ up' = [up EXCEPT ![a] = TRUE]
        /\ mgrKey' = [mgrKey EXCEPT ![a] = sealedKey[a]]
        /\ UNCHANGED <<sealedKey, db, registry>>
        /\ \E w \in {"none", "own", "network"} :
             /\ wallet' = [wallet EXCEPT ![a] = w]
             /\ w = "network" => db[a] # "own"
    BY <1>3 DEF Reboot
  <2>2. \A h \in handlers : h.agent # a
    BY <2>1 DEF SealInv, HandlerSeals
  <2>3. \A h \in handlers' : HandlerSeals(h)'
    BY <1>1, <2>1, <2>2 DEF SealInv, HandlerSeals, TypeOK
  <2>4. \A b \in Agent : wallet'[b] = "network" => db[b] # "own"
    BY <2>1 DEF SealInv, TypeOK
  <2>5. QED
    BY <2>1, <2>3, <2>4 DEF SealInv
<1>4. QED
  BY <1>2, <1>3 DEF Crash, PingOnClosedDb

\* SealInv holds in every reachable state.
LEMMA SealHolds == Spec => []SealInv
<1>1. TypeOK /\ SealInv /\ [Next]_vars => SealInv'
  <2>1. ASSUME TypeOK, SealInv, Next PROVE SealInv'
    BY <2>1, GuardianSeal, ServeSeal, ContinueSeal, MachineSeal DEF Next
  <2>2. ASSUME SealInv, UNCHANGED vars PROVE SealInv'
    BY <2>2 DEF SealInv, HandlerSeals, vars, guardianVars, agentVars, keyVars
  <2>3. QED
    BY <2>1, <2>2
<1>2. QED
  BY InitSeal, TypeCorrect, <1>1, PTL DEF Spec

\* An agent never has the network's database, whole or torn, on disk without
\* a key of the succession sealed beside it, wherever it crashes and however
\* many /confirm handlers interleave in it.
THEOREM KeyBeforeDataHolds == Spec => []KeyBeforeData
<1>1. SealInv => KeyBeforeData
  BY DEF SealInv, KeyBeforeData, Kept
<1>2. QED
  BY SealHolds, <1>1, PTL

\* The registry only ever names an agent that applied the network's database
\* and sealed a key of the succession, or the primary that died.
THEOREM RegistryNamesHolderHolds == Spec => []RegistryNamesHolder
<1>1. SealInv => RegistryNamesHolder
  BY DEF SealInv, RegistryNamesHolder, Kept
<1>2. QED
  BY SealHolds, <1>1, PTL

-----------------------------------------------------------------------------
(***************************************************************************)
(* What a confirmed agent skipped: nothing, unless its process ended.      *)
(***************************************************************************)
\* A file is torn only by handlers that wrote it at once, or by the end of
\* the process that was writing it.
OverlapInv ==
  /\ \A h, k \in handlers :
       h.step = "write" /\ k.step = "write" /\ h.agent = k.agent /\ h # k
         => h.agent \in overlapped
  /\ \A h \in handlers :
       h.step = "write" /\ dbOpen[h.agent] => h.agent \in overlapped
  /\ \A a \in Agent : db[a] = "torn" => a \in overlapped \cup halted
  /\ \A a \in Agent : ~up[a] => a \in halted

\* Initially no file is torn and no process has ended.
LEMMA InitOverlap == Init => OverlapInv
BY DEF Init, OverlapInv

\* Guardians and the first steps of a request touch nothing of it.
LEMMA OthersOverlap ==
  ASSUME OverlapInv, UNCHANGED <<up, db, dbOpen, history>>,
         \A k \in handlers' : k \in handlers \/ k.step # "write"
  PROVE  OverlapInv'
BY DEF OverlapInv, history

\* The second handler to start writing is the one that is counted; what it
\* shares with the first can be torn by either.
LEMMA ContinueOverlap ==
  ASSUME TypeOK, OverlapInv, NEW h \in handlers, Continue(h)
  PROVE  OverlapInv'
<1> USE DEF guardianVars, agentVars, keyVars, history
<1>1. h.agent \in Agent /\ \A k \in handlers : k.agent \in Agent
  BY DEF TypeOK, Handler
<1>2. \A k \in handlers' : k.step = "write" =>
        \/ k \in handlers \ {h}
        \/ h.step = "seal" /\ k.agent = h.agent
  BY ContinueRecords DEF Same, Resumed
<1>3. CASE SealReceived(h)
  <2> DEFINE r == [h EXCEPT !.step = "write", !.key = "zero"]
  <2>1. /\ handlers' = (handlers \ {h}) \cup {r}
        /\ overlapped' = IF Writing(h.agent) THEN overlapped \cup {h.agent}
                         ELSE overlapped
        /\ dbOpen' = [dbOpen EXCEPT ![h.agent] = FALSE]
        /\ h.step = "seal"
        /\ UNCHANGED <<up, db, halted>>
    BY <1>3 DEF SealReceived, Resume
  <2>2. r.agent = h.agent
    BY DEF TypeOK, Handler
  <2> HIDE DEF r
  <2>3. \A j, k \in handlers' :
          j.step = "write" /\ k.step = "write" /\ j.agent = k.agent /\ j # k
            => j.agent \in overlapped'
    <3> SUFFICES ASSUME NEW j \in handlers', NEW k \in handlers',
                        j.step = "write", k.step = "write",
                        j.agent = k.agent, j # k
                 PROVE  j.agent \in overlapped'
      OBVIOUS
    <3>1. CASE j \in handlers /\ k \in handlers
      BY <2>1, <3>1 DEF OverlapInv
    <3>2. CASE ~(j \in handlers /\ k \in handlers)
      <4>1. j.agent = h.agent /\ Writing(h.agent)
        BY <2>1, <2>2, <3>2 DEF Writing
      <4>2. QED
        BY <2>1, <4>1
    <3>3. QED
      BY <3>1, <3>2
  <2>4. \A k \in handlers' : k.step = "write" /\ dbOpen'[k.agent]
          => k.agent \in overlapped'
    BY <1>1, <2>1, <2>2 DEF OverlapInv, TypeOK
  <2>5. QED
    BY <2>1, <2>3, <2>4 DEF OverlapInv
<1>4. CASE SnapshotApplied(h) \/ SnapshotUnreadable(h)
  <2>1. /\ h.step = "write"
        /\ dbOpen' = [dbOpen EXCEPT ![h.agent] = TRUE]
        /\ UNCHANGED <<up, history>>
        /\ \E d \in {"network", "torn"} :
             /\ d = "torn" => Raced(h)
             /\ db' = [db EXCEPT ![h.agent] = d]
    BY <1>4 DEF SnapshotApplied, SnapshotUnreadable
  <2>2. Raced(h) => h.agent \in overlapped
    BY <2>1 DEF Raced, OverlapInv
  <2>3. \A a \in Agent : db'[a] = "torn" => a \in overlapped \cup halted
    BY <1>1, <2>1, <2>2 DEF OverlapInv, TypeOK
  <2>4. \A k \in handlers' : k.step = "write" => k \in handlers \ {h}
    BY <1>2, <2>1
  <2>5. \A k \in handlers' : k.step = "write" /\ dbOpen'[k.agent]
          => k.agent \in overlapped
    BY <1>1, <2>1, <2>4 DEF OverlapInv, TypeOK
  <2>6. QED
    BY <2>1, <2>3, <2>4, <2>5 DEF OverlapInv
<1>5. CASE h.step \in {"derive", "rotate", "rederive", "reseal", "register"}
             \/ DecryptFails(h)
  <2>1. UNCHANGED <<up, db, dbOpen, history>>
    BY <1>5 DEF Continue, DeriveSealingKey, SealReceived, DecryptFails,
       SnapshotApplied, SnapshotUnreadable, RotateVaultKey, SealRotated,
       BecomePrimary
  <2>2. \A k \in handlers' : k \in handlers \/ k.step # "write"
    <3>1. DecryptFails(h) => handlers' = handlers \ {h}
      BY DEF DecryptFails, Throws
    <3>2. QED
      BY <1>2, <1>5, <3>1
  <2>3. QED
    BY <2>1, <2>2, OthersOverlap
<1>6. QED
  BY <1>3, <1>4, <1>5 DEF Continue, DeriveSealingKey, RotateVaultKey, SealRotated,
     BecomePrimary

\* A process that ends is counted, and what it wrote goes with it.
LEMMA MachineOverlap ==
  ASSUME TypeOK, SealInv, OverlapInv, NEW a \in Agent,
         Crash(a) \/ PingOnClosedDb(a) \/ Reboot(a)
  PROVE  OverlapInv'
<1> USE DEF guardianVars, agentVars, keyVars, history
<1>1. \A h \in handlers : h.agent \in Agent /\ up[h.agent]
  BY DEF TypeOK, Handler, SealInv, HandlerSeals
<1>2. CASE Halt(a)
  <2>1. /\ up' = [up EXCEPT ![a] = FALSE]
        /\ db' = [db EXCEPT ![a] = IF Writing(a) THEN "torn" ELSE @]
        /\ handlers' \subseteq handlers
        /\ halted' = halted \cup {a}
        /\ UNCHANGED <<dbOpen, overlapped>>
    BY <1>2 DEF Halt
  <2>2. \A b \in Agent : db'[b] = "torn" => b \in overlapped \cup halted'
    BY <2>1 DEF OverlapInv, TypeOK
  <2>3. QED
    BY <2>1, <2>2 DEF OverlapInv, TypeOK
<1>3. CASE Reboot(a)
  <2>1. /\ ~up[a] /\ up' = [up EXCEPT ![a] = TRUE]
        /\ dbOpen' = [dbOpen EXCEPT ![a] = TRUE]
        /\ UNCHANGED <<db, handlers, history>>
    BY <1>3 DEF Reboot
  <2>2. \A b \in Agent : b # a => dbOpen'[b] = dbOpen[b]
    BY <2>1 DEF TypeOK
  <2>3. \A h \in handlers : h.agent \in Agent /\ h.agent # a
    BY <1>1, <2>1
  <2>4. \A h \in handlers : dbOpen'[h.agent] = dbOpen[h.agent]
    BY <2>2, <2>3
  <2>5. QED
    BY <2>1, <2>4 DEF OverlapInv, TypeOK
<1>4. QED
  BY <1>2, <1>3 DEF Crash, PingOnClosedDb

\* OverlapInv holds in every reachable state.
LEMMA OverlapHolds == Spec => []OverlapInv
<1>1. TypeOK /\ SealInv /\ OverlapInv /\ [Next]_vars => OverlapInv'
  <2>1. ASSUME TypeOK, SealInv, OverlapInv, Next PROVE OverlapInv'
    <3>1. ASSUME NEW g \in Guardian,
                 GuardianStep(g) \/ StandDownTimeout(g) \/ GuardianRestart(g)
          PROVE  OverlapInv'
      <4>1. UNCHANGED <<agentVars, handlers>>
        BY <3>1 DEF GuardianStep, PrimarySilent, PingReceived, Initiate,
           ReadyAnswered, ConfirmAnswered, ConfirmRejected, RequestAborted,
           StandDown, StandDownTimeout, GuardianRestart
      <4>2. QED
        BY <2>1, <4>1, OthersOverlap DEF agentVars
    <3>2. ASSUME NEW m \in net, Serve(m) PROVE OverlapInv'
      <4>1. /\ UNCHANGED <<up, db, dbOpen, history>>
            /\ \A k \in handlers' : k \in handlers \/ k.step # "write"
        BY <3>2 DEF Serve, BackupReady, ConfirmUnwrap, ConfirmWithoutSession,
           ConfirmFails, NewHandler, agentVars
      <4>2. QED
        BY <2>1, <4>1, OthersOverlap
    <3>3. QED
      BY <2>1, <3>1, <3>2, ContinueOverlap, MachineOverlap DEF Next
  <2>2. ASSUME OverlapInv, UNCHANGED vars PROVE OverlapInv'
    BY <2>2 DEF OverlapInv, vars, agentVars, history
  <2>3. QED
    BY <2>1, <2>2
<1>2. QED
  BY InitOverlap, TypeCorrect, SealHolds, <1>1, PTL DEF Spec

\* The agent took over: key and snapshot were not skipped.
Took(a) == role[a] = "primary" /\ db[a] # "own"

\* An agent that never stopped gives a session up only for the database it
\* brought.  So what a handler of /confirm may skip is there already.
SkipInv ==
  /\ \A m \in net : m.agent \notin halted =>
       /\ m.type \in {"readyOk", "confirm"} =>
            session[m.agent] # None \/ db[m.agent] # "own"
       /\ m.type = "confirmOk" => Took(m.agent)
  /\ \A h \in handlers :
       h.agent \notin halted /\ h.step \in {"rotate", "rederive", "reseal", "register"}
         => db[h.agent] # "own"
  /\ \A g \in Guardian : phase[g] = "standdown" =>
       target[g] \in Agent /\ (target[g] \notin halted => Took(target[g]))

\* Initially nothing was asked or confirmed.
LEMMA InitSkip == Init => SkipInv
BY DEF Init, SkipInv

\* The next candidate is asked, or the attempt is over.
LEMMA NextCandidateIs ==
  ASSUME TypeOK, NEW g \in Guardian, NEW R, NEW msgs, NextCandidate(g, R, msgs)
  PROVE  /\ phase'[g] \in {"idle", "ready"}
         /\ \A k \in Guardian \ {g} : phase'[k] = phase[k] /\ target'[k] = target[k]
         /\ \A m \in net' : m \in msgs \/ m.type = "ready"
BY DEF NextCandidate, Msg, TypeOK

\* What a guardian sends and takes for done goes back to an answer.
LEMMA GuardianIs ==
  ASSUME TypeOK, NEW g \in Guardian,
         GuardianStep(g) \/ StandDownTimeout(g) \/ GuardianRestart(g)
  PROVE  /\ UNCHANGED <<agentVars, handlers, registry>>
         /\ \A m \in net' :
              \/ m \in net \/ m.type = "ready"
              \/ m.type = "confirm" /\ \E n \in net :
                   n.type = "readyOk" /\ n.agent = m.agent
         /\ \A k \in Guardian : phase'[k] = "standdown" =>
              /\ target'[k] = target[k]
              /\ \/ phase[k] = "standdown"
                 \/ \E m \in net : m.type = "confirmOk" /\ m.agent = target[k]
<1>1. CASE Initiate(g)
  BY <1>1, NextCandidateIs DEF Initiate
<1>2. CASE ReadyAnswered(g)
  <2> DEFINE m == Msg("readyOk", g, target[g], contact[g])
             sent == Msg("confirm", g, target[g], contact[g])
  <2>1. /\ m \in net /\ m.type = "readyOk" /\ m.agent = target[g]
        /\ sent.type = "confirm" /\ sent.agent = target[g]
        /\ net' = (net \ {m}) \cup (IF up[target[g]] THEN {sent} ELSE {})
    BY <1>2 DEF ReadyAnswered, Msg
  <2> HIDE DEF m, sent
  <2>2. QED
    BY <1>2, <2>1 DEF ReadyAnswered, TypeOK
<1>3. CASE ConfirmAnswered(g)
  BY <1>3 DEF ConfirmAnswered, Msg, TypeOK
<1>4. CASE ConfirmRejected(g)
  BY <1>4, NextCandidateIs DEF ConfirmRejected
<1>5. CASE RequestAborted(g)
  BY <1>5, NextCandidateIs DEF RequestAborted
<1>6. CASE PrimarySilent(g) \/ PingReceived(g)
  BY <1>6 DEF PrimarySilent, PingReceived
<1>7. CASE StandDown(g) \/ StandDownTimeout(g) \/ GuardianRestart(g)
  BY <1>7 DEF StandDown, StandDownTimeout, GuardianRestart, TypeOK
<1>8. QED
  BY <1>1, <1>2, <1>3, <1>4, <1>5, <1>6, <1>7 DEF GuardianStep

\* A guardian asks on, and believes, only what it was answered.
LEMMA GuardianSkip ==
  ASSUME TypeOK, SkipInv, NEW g \in Guardian,
         GuardianStep(g) \/ StandDownTimeout(g) \/ GuardianRestart(g)
  PROVE  SkipInv'
<1>1. UNCHANGED <<role, session, db, halted, handlers>>
  BY GuardianIs DEF agentVars, history
<1>2. \A m \in net' : m.type \in {"readyOk", "confirm"} /\ m.agent \notin halted =>
        session[m.agent] # None \/ db[m.agent] # "own"
  BY GuardianIs DEF SkipInv
<1>3. \A m \in net' : m.type = "confirmOk" => m \in net
  BY GuardianIs
<1>4. \A k \in Guardian : phase'[k] = "standdown" =>
        target'[k] \in Agent /\ (target'[k] \notin halted => Took(target'[k]))
  BY GuardianIs, MsgFields DEF SkipInv, TypeOK
<1>5. QED
  BY <1>1, <1>2, <1>3, <1>4 DEF SkipInv, Took

\* A session is stored before it is promised, and never given up here.
LEMMA ServeSkip ==
  ASSUME TypeOK, SkipInv, NEW m \in net, Serve(m)
  PROVE  SkipInv'
<1> USE DEF guardianVars, agentVars, keyVars, history
<1>1. m \in Message /\ m.agent \in Agent
  BY MsgFields DEF TypeOK
<1>2. CASE BackupReady(m)
  <2>1. [guardian |-> m.guardian, contact |-> m.contact] # None
    BY <1>1, MsgFields
  <2>2. \A n \in net' : n \in net \/ (n.type = "readyOk" /\ n.agent = m.agent)
    BY <1>2 DEF BackupReady, Answer, Msg
  <2>3. \A n \in net' : n.type \in {"readyOk", "confirm"} /\ n.agent \notin halted =>
          session'[n.agent] # None \/ db[n.agent] # "own"
    BY <1>1, <1>2, <2>1, <2>2 DEF BackupReady, SkipInv, TypeOK
  <2>4. \A n \in net' : n.type = "confirmOk" => n \in net
    BY <2>2
  <2>5. QED
    BY <1>2, <2>3, <2>4 DEF BackupReady, SkipInv, Took
<1>3. CASE ConfirmUnwrap(m)
  BY <1>1, <1>3 DEF ConfirmUnwrap, NewHandler, SkipInv, Took
<1>4. CASE ConfirmWithoutSession(m)
  BY <1>1, <1>4 DEF ConfirmWithoutSession, NewHandler, SkipInv, Took
<1>5. CASE ConfirmFails(m)
  BY <1>5 DEF ConfirmFails, Answer, Msg, SkipInv, Took
<1>6. QED
  BY <1>2, <1>3, <1>4, <1>5 DEF Serve

\* What a handler does to the session, the database and the role of its
\* agent, and whom it answers ok: true.
LEMMA ContinueIs ==
  ASSUME TypeOK, NEW h \in handlers, Continue(h)
  PROVE  /\ UNCHANGED <<guardianVars, up, halted>>
         /\ \A a \in Agent :
              /\ db[a] # "own" => db'[a] # "own"
              /\ role[a] = "primary" => role'[a] = "primary"
              /\ session'[a] = session[a] \/ db'[a] # "own"
         /\ h.step = "write" => db'[h.agent] # "own"
         /\ \A m \in net' : \/ m \in net \/ m.type = "confirmErr"
                            \/ /\ m.type = "confirmOk" /\ m.agent = h.agent
                               /\ h.step = "register" /\ role'[h.agent] = "primary"
<1> USE DEF guardianVars, agentVars, keyVars, history
<1>1. h.agent \in Agent
  BY DEF TypeOK, Handler
<1>2. CASE DeriveSealingKey(h) \/ SealReceived(h) \/ RotateVaultKey(h) \/ SealRotated(h)
  <2>1. h.step # "write" /\ UNCHANGED <<guardianVars, up, halted, role, session, db, net>>
    BY <1>2 DEF DeriveSealingKey, SealReceived, RotateVaultKey, SealRotated
  <2>2. QED
    BY <2>1
<1>3. CASE DecryptFails(h)
  BY <1>3 DEF DecryptFails, Throws, Answer, Msg
<1>4. CASE SnapshotApplied(h) \/ SnapshotUnreadable(h)
  <2>1. PICK d \in {"network", "torn"} : db' = [db EXCEPT ![h.agent] = d]
    BY <1>4 DEF SnapshotApplied, SnapshotUnreadable
  <2>2. PICK s : session' = [session EXCEPT ![h.agent] = s]
    BY <1>4 DEF SnapshotApplied, SnapshotUnreadable
  <2>3. /\ UNCHANGED <<guardianVars, up, halted, role>>
        /\ \A m \in net' : m \in net \/ m.type = "confirmErr"
    BY <1>4 DEF SnapshotApplied, SnapshotUnreadable, Throws, Answer, Msg
  <2>4. QED
    BY <1>1, <2>1, <2>2, <2>3 DEF TypeOK
<1>5. CASE BecomePrimary(h)
  <2>1. /\ h.step = "register" /\ role' = [role EXCEPT ![h.agent] = "primary"]
        /\ UNCHANGED <<guardianVars, up, halted, session, db>>
        /\ \A m \in net' :
             m \in net \/ (m.type = "confirmOk" /\ m.agent = h.agent)
    BY <1>5 DEF BecomePrimary, Answer, Msg
  <2>2. QED
    BY <1>1, <2>1 DEF TypeOK
<1>6. QED
  BY <1>2, <1>3, <1>4, <1>5 DEF Continue

\* The file is whoever's writes it, but no agent's own.
LEMMA ContinueSkip ==
  ASSUME TypeOK, SkipInv, NEW h \in handlers, Continue(h)
  PROVE  SkipInv'
<1>1. /\ h.agent \in Agent
      /\ \A k \in handlers : k.agent \in Agent
      /\ \A m \in net : m.agent \in Agent
  BY MsgFields DEF TypeOK, Handler
<1>2. /\ UNCHANGED <<phase, target, halted>>
      /\ \A a \in Agent :
           /\ db[a] # "own" => db'[a] # "own"
           /\ role[a] = "primary" => role'[a] = "primary"
           /\ session'[a] = session[a] \/ db'[a] # "own"
           /\ Took(a) => Took(a)'
  BY ContinueIs DEF Took, guardianVars
<1>3. \A k \in handlers' :
        k.agent \notin halted /\ k.step \in {"rotate", "rederive", "reseal", "register"}
          => db'[k.agent] # "own"
  <2> SUFFICES ASSUME NEW k \in handlers', k.agent \notin halted,
                      k.step \in {"rotate", "rederive", "reseal", "register"}
               PROVE  db'[k.agent] # "own"
    OBVIOUS
  <2>1. CASE \E j \in handlers : Same(j, k)
    BY <1>1, <1>2, <2>1 DEF Same, SkipInv
  <2>2. CASE Resumed(h, k)
    BY <1>1, <1>2, <2>2, ContinueIs DEF Resumed, SkipInv
  <2>3. QED
    BY <2>1, <2>2, ContinueRecords
<1>4. \A m \in net' : m.agent \notin halted =>
        /\ m.type \in {"readyOk", "confirm"} =>
             session'[m.agent] # None \/ db'[m.agent] # "own"
        /\ m.type = "confirmOk" => Took(m.agent)'
  <2> SUFFICES ASSUME NEW m \in net', m.agent \notin halted
               PROVE  /\ m.type \in {"readyOk", "confirm"} =>
                           session'[m.agent] # None \/ db'[m.agent] # "own"
                      /\ m.type = "confirmOk" => Took(m.agent)'
    OBVIOUS
  <2>1. CASE m \in net
    BY <1>1, <1>2, <2>1 DEF SkipInv
  <2>2. CASE m.type = "confirmErr"
    BY <2>2
  <2>3. CASE /\ m.type = "confirmOk" /\ m.agent = h.agent
             /\ h.step = "register" /\ role'[h.agent] = "primary"
    BY <1>1, <1>2, <2>3 DEF SkipInv, Took
  <2>4. QED
    BY <2>1, <2>2, <2>3, ContinueIs
<1>5. \A g \in Guardian : phase'[g] = "standdown" =>
        target'[g] \in Agent /\ (target'[g] \notin halted' => Took(target[g])')
  BY <1>2 DEF SkipInv
<1>6. QED
  BY <1>2, <1>3, <1>4, <1>5 DEF SkipInv

\* Crashes and reboots are of agents that count as stopped.
LEMMA MachineSkip ==
  ASSUME TypeOK, OverlapInv, SkipInv, NEW a \in Agent,
         Crash(a) \/ PingOnClosedDb(a) \/ Reboot(a)
  PROVE  SkipInv'
<1> USE DEF guardianVars, agentVars, keyVars, history
<1>1. /\ \A m \in net : m.agent \in Agent
      /\ \A h \in handlers : h.agent \in Agent
  BY MsgFields DEF TypeOK, Handler
<1>2. /\ halted' = halted \cup {a} /\ net' \subseteq net
      /\ handlers' \subseteq handlers /\ UNCHANGED <<phase, target>>
      /\ \A b \in Agent \ {a} :
           role'[b] = role[b] /\ session'[b] = session[b] /\ db'[b] = db[b]
  <2>1. CASE Halt(a)
    BY <2>1 DEF Halt, TypeOK
  <2>2. CASE Reboot(a)
    <3>1. a \in halted
      BY <2>2 DEF Reboot, OverlapInv
    <3>2. QED
      BY <2>2, <3>1 DEF Reboot, TypeOK
  <2>3. QED
    BY <2>1, <2>2 DEF Crash, PingOnClosedDb
<1>3. /\ \A m \in net' : m.agent \notin halted' => m \in net /\ m.agent \in Agent \ {a}
      /\ \A h \in handlers' : h.agent \notin halted' =>
           h \in handlers /\ h.agent \in Agent \ {a}
  BY <1>1, <1>2
<1>4. \A g \in Guardian : phase'[g] = "standdown" =>
        target'[g] \in Agent /\ (target'[g] \notin halted' => Took(target[g])')
  BY <1>2 DEF SkipInv, Took
<1>5. QED
  BY <1>2, <1>3, <1>4 DEF SkipInv, Took

\* SkipInv holds in every reachable state.
LEMMA SkipHolds == Spec => []SkipInv
<1>1. TypeOK /\ OverlapInv /\ SkipInv /\ [Next]_vars => SkipInv'
  <2>1. ASSUME TypeOK, OverlapInv, SkipInv, Next PROVE SkipInv'
    BY <2>1, GuardianSkip, ServeSkip, ContinueSkip, MachineSkip DEF Next
  <2>2. ASSUME SkipInv, UNCHANGED vars PROVE SkipInv'
    BY <2>2 DEF SkipInv, Took, vars, guardianVars, agentVars, keyVars, history
  <2>3. QED
    BY <2>1, <2>2
<1>2. QED
  BY InitSkip, TypeCorrect, OverlapHolds, <1>1, PTL DEF Spec

\* Whatever guardians race, time out and restart and whatever handlers
\* interleave: a guardian that was told ok: true left a primary that skipped
\* neither key nor snapshot behind, and the whole of the network's database,
\* unless the agent's process ended or two of its handlers wrote the file at
\* once.
THEOREM ConfirmedSkippedNothingHolds == Spec => []ConfirmedSkippedNothing
<1>1. TypeOK /\ SealInv /\ OverlapInv /\ SkipInv => ConfirmedSkippedNothing
  <2> SUFFICES ASSUME TypeOK, SealInv, OverlapInv, SkipInv, NEW g \in Guardian,
                      phase[g] = "standdown", target[g] \notin halted
               PROVE  /\ role[target[g]] = "primary"
                      /\ sealedKey[target[g]] \in Kept
                      /\ \/ db[target[g]] = "network"
                         \/ db[target[g]] = "torn" /\ target[g] \in overlapped
    BY DEF ConfirmedSkippedNothing, Kept
  <2>1. target[g] \in Agent /\ Took(target[g])
    BY DEF SkipInv
  <2>2. db[target[g]] \in {"network", "torn"}
    BY <2>1 DEF Took, TypeOK
  <2>3. QED
    BY <2>1, <2>2 DEF Took, SealInv, OverlapInv
<1>2. QED
  BY TypeCorrect, SealHolds, OverlapHolds, SkipHolds, <1>1, PTL

-----------------------------------------------------------------------------
(***************************************************************************)
(* One guardian, no fault: one request at a time is on its way, and it     *)
(* goes to the best row of the guardian's table.                           *)
(***************************************************************************)
Quiet == faults = 0 /\ \A g, k \in Guardian : g = k

\* What there is of g's current request.
InFlight(g) ==
  LET Sent(t) == {Msg(t, g, target[g], contact[g])} IN
  CASE phase[g] = "ready" ->
         handlers = {} /\ (net = Sent("ready") \/ net = Sent("readyOk"))
    [] phase[g] = "confirm" ->
         \/ handlers = {} /\ (net = Sent("confirm") \/ net = Sent("confirmOk"))
         \/ net = {} /\ \E h \in handlers :
              /\ handlers = {h} /\ h.guardian = g
              /\ h.agent = target[g] /\ h.contact = contact[g]
              /\ ~h.spoilt /\ (h.step = "write" => ~dbOpen[h.agent])
    [] OTHER -> net = {} /\ handlers = {}

\* The session of an answered /ready is the agent's until its /confirm.
Stored ==
  \A m \in net : m.type \in {"readyOk", "confirm"} => session[m.agent] = SessionOf(m)

Best(g, a) == \E r \in Standby(Roster[g]) : r.agent = a /\ IsBest(r, Standby(Roster[g]))

QuietInv ==
  Quiet =>
    /\ \A a \in Agent : up[a]
    /\ Stored
    /\ \A g \in Guardian :
         InFlight(g) /\ (phase[g] \in {"ready", "confirm"} => Best(g, target[g]))
    /\ \A a \in Agent : role[a] = "primary" => \E g \in Guardian : Best(g, a)

\* Initially nothing is on its way and nobody is primary.
LEMMA InitQuiet == Init => QuietInv
BY DEF Init, QuietInv, Stored, InFlight

\* Faults are counted, and never forgotten.
LEMMA FaultsStay ==
  ASSUME TypeOK, Next
  PROVE  faults' = 0 => faults = 0
<1>1. faults \in Nat
  BY DEF TypeOK
<1>2. \A k : Fault(k) => faults' # 0
  BY <1>1 DEF Fault
<1>3. ASSUME NEW g \in Guardian,
             GuardianStep(g) \/ StandDownTimeout(g) \/ GuardianRestart(g)
      PROVE  faults' = 0 => faults = 0
  BY <1>2, <1>3 DEF GuardianStep, PrimarySilent, PingReceived, Initiate,
     ReadyAnswered, ConfirmAnswered, ConfirmRejected, RequestAborted, Late,
     StandDown, StandDownTimeout, GuardianRestart
<1>4. ASSUME NEW m \in net, Serve(m) PROVE faults' = 0 => faults = 0
  BY <1>4 DEF Serve, BackupReady, ConfirmUnwrap, ConfirmWithoutSession, ConfirmFails
<1>5. ASSUME NEW h \in handlers, Continue(h) PROVE faults' = 0 => faults = 0
  BY <1>2, <1>5 DEF Continue, DeriveSealingKey, SealReceived, DecryptFails,
     SnapshotApplied, SnapshotUnreadable, RotateVaultKey, SealRotated, BecomePrimary
<1>6. ASSUME NEW a \in Agent, Crash(a) \/ PingOnClosedDb(a) \/ Reboot(a)
      PROVE  faults' = 0 => faults = 0
  BY <1>2, <1>6 DEF Crash, PingOnClosedDb, Reboot, Resolved
<1>7. QED
  BY <1>3, <1>4, <1>5, <1>6 DEF Next

\* The guardian asks the best row, waits for the answer that is coming, and
\* asks again only when it is idle.
LEMMA GuardianQuiet ==
  ASSUME TypeOK, QuietInv, Quiet, Quiet', NEW g \in Guardian,
         GuardianStep(g) \/ StandDownTimeout(g) \/ GuardianRestart(g)
  PROVE  QuietInv'
<1>1. /\ UNCHANGED <<up, role, session, handlers, dbOpen>>
      /\ \A k \in Guardian : k = g
      /\ \A a \in Agent : up[a]
  BY GuardianIs DEF agentVars, Quiet, QuietInv
<1>2. InFlight(g) /\ (phase[g] \in {"ready", "confirm"} => Best(g, target[g]))
  BY DEF QuietInv
<1>3. \A k : ~Fault(k)
  BY DEF Fault, Quiet, TypeOK
<1> DEFINE Goal == /\ Stored' /\ InFlight(g)'
                   /\ (phase[g] \in {"ready", "confirm"})' => Best(g, target[g])'
<1>4. Goal
  <2>1. CASE PrimarySilent(g) \/ PingReceived(g)
    BY <1>1, <1>2, <2>1 DEF PrimarySilent, PingReceived, InFlight, QuietInv,
       Stored, Best
  <2>2. CASE Initiate(g)
    <3>1. net = {} /\ handlers = {} /\ Standby(Roster[g]) # {}
      BY <1>2, <2>2 DEF Initiate, InFlight
    <3>2. PICK r \in Standby(Roster[g]), n \in ContactId :
            /\ IsBest(r, Standby(Roster[g]))
            /\ phase' = [phase EXCEPT ![g] = "ready"]
            /\ target' = [target EXCEPT ![g] = r.agent]
            /\ contact' = [contact EXCEPT ![g] = n]
            /\ net' = IF up[r.agent] THEN {} \cup {Msg("ready", g, r.agent, n)}
                      ELSE {}
      BY <2>2, <3>1 DEF Initiate, NextCandidate
    <3>3. up[r.agent]
      BY <1>1 DEF Standby, BackupRow
    <3>4. /\ phase'[g] = "ready" /\ target'[g] = r.agent /\ contact'[g] = n
          /\ net' = {Msg("ready", g, r.agent, n)}
      BY <3>2, <3>3 DEF TypeOK
    <3>5. InFlight(g)'
      BY <1>1, <3>1, <3>4 DEF InFlight
    <3>6. Stored'
      BY <3>4 DEF Stored, Msg
    <3>7. Best(g, target[g])'
      BY <3>2, <3>4 DEF Best
    <3>8. QED
      BY <3>5, <3>6, <3>7
  <2>3. CASE ReadyAnswered(g)
    <3> DEFINE m == Msg("readyOk", g, target[g], contact[g])
               sent == Msg("confirm", g, target[g], contact[g])
    <3>1. phase[g] = "ready" /\ m \in net
      BY <2>3 DEF ReadyAnswered
    <3>2. net = {m} /\ handlers = {}
      BY <1>2, <3>1 DEF InFlight, Msg
    <3>3. target[g] \in Agent
      BY <3>1, MsgFields DEF Msg, TypeOK
    <3>4. /\ net' = {sent} /\ phase'[g] = "confirm"
          /\ UNCHANGED <<target, contact>>
      BY <1>1, <2>3, <3>2, <3>3 DEF ReadyAnswered, TypeOK
    <3>5. session[target[g]] = SessionOf(m) /\ SessionOf(m) = SessionOf(sent)
      BY <3>1 DEF QuietInv, Stored, Msg, SessionOf
    <3>6. InFlight(g)'
      BY <1>1, <3>2, <3>4 DEF InFlight
    <3>7. Stored'
      BY <1>1, <3>4, <3>5 DEF Stored, Msg
    <3>8. Best(g, target[g])'
      BY <1>2, <3>1, <3>4 DEF Best
    <3>9. QED
      BY <3>6, <3>7, <3>8
  <2>4. CASE ConfirmAnswered(g)
    <3>1. /\ phase'[g] = "standdown"
          /\ net' = net \ {Msg("confirmOk", g, target[g], contact[g])}
          /\ phase[g] = "confirm"
          /\ Msg("confirmOk", g, target[g], contact[g]) \in net
      BY <2>4 DEF ConfirmAnswered, TypeOK
    <3>2. net' = {} /\ handlers = {}
      BY <1>2, <3>1 DEF InFlight, Msg
    <3>3. QED
      BY <1>1, <3>1, <3>2 DEF InFlight, Stored
  <2>5. ~ConfirmRejected(g)
    BY <1>2 DEF ConfirmRejected, InFlight, Msg
  <2>6. ~RequestAborted(g)
    <3>1. \A t : /\ Msg(t, g, target[g], contact[g]).guardian = g
                /\ Msg(t, g, target[g], contact[g]).contact = contact[g]
      BY DEF Msg
    <3>2. phase[g] = "ready" => AnswerPending(g)
      BY <1>2, <3>1 DEF InFlight, AnswerPending
    <3>3. phase[g] = "confirm" => AnswerPending(g)
      BY <1>2, <3>1 DEF InFlight, AnswerPending
    <3>4. QED
      BY <1>3, <3>2, <3>3 DEF RequestAborted, Late
  <2>7. CASE StandDown(g)
    <3>1. net = {} /\ handlers = {} /\ net' = {} /\ phase'[g] = "idle"
      BY <1>2, <2>7 DEF StandDown, InFlight, TypeOK
    <3>2. QED
      BY <1>1, <3>1 DEF InFlight, Stored
  <2>8. ~StandDownTimeout(g) /\ ~GuardianRestart(g)
    BY <1>3 DEF StandDownTimeout, GuardianRestart
  <2>9. QED
    BY <2>1, <2>2, <2>3, <2>4, <2>5, <2>6, <2>7, <2>8 DEF GuardianStep
<1>5. QED
  BY <1>1, <1>4 DEF QuietInv, Best

\* The candidate answers the one request there is, with the session it made
\* for it.
LEMMA ServeQuiet ==
  ASSUME TypeOK, QuietInv, Quiet, NEW m \in net, Serve(m)
  PROVE  QuietInv'
<1> DEFINE g == m.guardian
<1>1. /\ g \in Guardian /\ m.agent \in Agent /\ m.contact \in ContactId
      /\ \A k \in Guardian : k = g
  BY MsgFields DEF TypeOK, Quiet
<1>2. InFlight(g) /\ Stored
  BY <1>1 DEF QuietInv
<1>3. UNCHANGED <<guardianVars, up, role>>
  BY DEF Serve, BackupReady, ConfirmUnwrap, ConfirmWithoutSession, ConfirmFails,
     agentVars
<1>4. /\ net = {m} /\ handlers = {}
      /\ m.agent = target[g] /\ m.contact = contact[g]
      /\ phase[g] \in {"ready", "confirm"}
      /\ m.type = "ready" => phase[g] = "ready"
      /\ m.type = "confirm" => phase[g] = "confirm"
  BY <1>2 DEF InFlight, Msg
<1>5. InFlight(g)' /\ Stored'
  <2>1. CASE BackupReady(m)
    <3>1. /\ net' = {Msg("readyOk", g, target[g], contact[g])}
          /\ m.type = "ready" /\ handlers' = handlers
      BY <1>4, <2>1 DEF BackupReady, Answer
    <3>2. session'[target[g]] = [guardian |-> g, contact |-> contact[g]]
      BY <1>1, <1>4, <2>1 DEF BackupReady, TypeOK
    <3>3. InFlight(g)'
      BY <1>3, <1>4, <3>1 DEF InFlight, guardianVars
    <3>4. Stored'
      BY <1>3, <3>1, <3>2 DEF Stored, SessionOf, Msg, guardianVars
    <3>5. QED
      BY <3>3, <3>4
  <2>2. CASE ConfirmUnwrap(m)
    <3> DEFINE k == NewHandler(m, "derive", None)
    <3>1. net' = {} /\ handlers' = {k} /\ m.type = "confirm"
      BY <1>4, <2>2 DEF ConfirmUnwrap
    <3>2. /\ k.guardian = g /\ k.agent = m.agent /\ k.contact = m.contact
          /\ k.step = "derive" /\ ~k.spoilt
      BY DEF NewHandler
    <3> HIDE DEF k
    <3>3. InFlight(g)'
      BY <1>3, <1>4, <3>1, <3>2 DEF InFlight, guardianVars
    <3>4. Stored'
      BY <3>1 DEF Stored
    <3>5. QED
      BY <3>3, <3>4
  <2>3. ~ConfirmWithoutSession(m) /\ ~ConfirmFails(m)
    <3>1. m.type = "confirm" => session[m.agent] = SessionOf(m)
      BY <1>2 DEF Stored
    <3>2. SessionOf(m) # None
      BY <1>1, SessionType
    <3>3. QED
      BY <3>1, <3>2 DEF ConfirmWithoutSession, ConfirmFails
  <2>4. QED
    BY <2>1, <2>2, <2>3 DEF Serve
<1>6. QED
  BY <1>1, <1>3, <1>5 DEF QuietInv, Best, guardianVars

\* The handler of the one /confirm there is ends in the answer to it: alone,
\* it finds its key as it came and the file as it left it.
LEMMA ContinueQuiet ==
  ASSUME TypeOK, QuietInv, Quiet, NEW h \in handlers, Continue(h)
  PROVE  QuietInv'
<1> DEFINE g == h.guardian
<1>1. /\ h \in Handler /\ g \in Guardian /\ h.agent \in Agent
      /\ \A k \in Guardian : k = g
  BY DEF TypeOK, Handler, Quiet
<1>2. InFlight(g) /\ (phase[g] = "confirm" => Best(g, target[g]))
  BY <1>1 DEF QuietInv
<1>3. /\ phase[g] = "confirm" /\ net = {} /\ handlers = {h}
      /\ h.agent = target[g] /\ h.contact = contact[g]
      /\ ~h.spoilt /\ (h.step = "write" => ~dbOpen[h.agent])
  BY <1>2 DEF InFlight
<1>4. UNCHANGED <<guardianVars, up>>
  BY ContinueIs
<1>5. ~DecryptFails(h) /\ ~SnapshotUnreadable(h)
  BY <1>3 DEF DecryptFails, SnapshotUnreadable, Raced
<1>6. CASE ~BecomePrimary(h)
  <2>1. role' = role /\ net' = {}
    BY <1>3, <1>5, <1>6 DEF Continue, DeriveSealingKey, SealReceived,
       SnapshotApplied, RotateVaultKey, SealRotated, agentVars
  <2>2. PICK k \in handlers' : handlers' = {k}
    <3>1. CASE RotateVaultKey(h)
      <4>1. handlers \ {h} = {}
        BY <1>3
      <4>2. handlers' = {[h EXCEPT !.step = "rederive", !.old = None]}
        BY <3>1, <4>1 DEF RotateVaultKey
      <4>3. QED
        BY <4>2
    <3>2. CASE ~RotateVaultKey(h)
      BY <1>3, <1>5, <1>6, <3>2 DEF Continue, DeriveSealingKey, SealReceived,
         SnapshotApplied, SealRotated, Resume
    <3>3. QED
      BY <3>1, <3>2
  <2>3. Resumed(h, k)
    BY <1>3, <2>2, ContinueRecords
  <2>4. k.step = "write" => ~dbOpen'[k.agent]
    <3>1. k.step = "write" => SealReceived(h)
      BY <1>5, <1>6, <2>3 DEF Resumed, Continue, DeriveSealingKey,
         SnapshotApplied, RotateVaultKey, SealRotated
    <3>2. QED
      BY <1>1, <2>3, <3>1 DEF SealReceived, Resumed, TypeOK
  <2>5. InFlight(g)'
    BY <1>3, <1>4, <2>1, <2>2, <2>3, <2>4 DEF InFlight, Resumed, guardianVars
  <2>6. Stored'
    BY <2>1 DEF Stored
  <2>7. QED
    BY <1>1, <1>4, <2>1, <2>5, <2>6 DEF QuietInv, Best, guardianVars
<1>7. CASE BecomePrimary(h)
  <2>1. /\ net' = {Msg("confirmOk", g, target[g], contact[g])}
        /\ handlers' = {} /\ role' = [role EXCEPT ![h.agent] = "primary"]
    BY <1>3, <1>7 DEF BecomePrimary, Answer
  <2>2. InFlight(g)'
    BY <1>3, <1>4, <2>1 DEF InFlight, guardianVars
  <2>3. Stored'
    BY <2>1 DEF Stored, Msg
  <2>4. \A a \in Agent : role'[a] = "primary" => \E k \in Guardian : Best(k, a)
    BY <1>1, <1>2, <1>3, <2>1 DEF QuietInv, TypeOK
  <2>5. QED
    BY <1>1, <1>4, <2>2, <2>3, <2>4 DEF QuietInv, Best, guardianVars
<1>8. QED
  BY <1>6, <1>7

LEMMA QuietHolds == Spec => []QuietInv
<1>1. TypeOK /\ QuietInv /\ [Next]_vars => QuietInv'
  <2>1. ASSUME TypeOK, QuietInv, Next PROVE QuietInv'
    <3>1. CASE Quiet'
      <4>1. Quiet
        BY <2>1, <3>1, FaultsStay DEF Quiet
      <4>2. \A a \in Agent : ~Crash(a) /\ ~PingOnClosedDb(a) /\ ~Reboot(a)
        <5>1. \A k : ~Fault(k)
          BY <2>1, <3>1, <4>1 DEF Fault, Quiet, TypeOK
        <5>2. QED
          BY <2>1, <4>1, <5>1 DEF Crash, PingOnClosedDb, Reboot, QuietInv
      <4>3. QED
        BY <2>1, <3>1, <4>1, <4>2, GuardianQuiet, ServeQuiet, ContinueQuiet DEF Next
    <3>2. CASE ~Quiet'
      BY <3>2 DEF QuietInv
    <3>3. QED
      BY <3>1, <3>2
  <2>2. ASSUME QuietInv, UNCHANGED vars PROVE QuietInv'
    BY <2>2 DEF QuietInv, Quiet, Stored, InFlight, Best, vars, guardianVars,
       agentVars, keyVars
  <2>3. QED
    BY <2>1, <2>2
<1>2. QED
  BY InitQuiet, TypeCorrect, <1>1, PTL DEF Spec

\* One guardian whose attempts meet no fault makes one primary, however often
\* it starts over before the first ping of the new primary arrives: every
\* attempt goes to the same agent, the best row of the guardian's table.
THEOREM OnePrimaryHolds == Spec => []OnePrimaryWithoutFaults
<1>1. QuietInv => OnePrimaryWithoutFaults
  <2> SUFFICES ASSUME QuietInv, Quiet, NEW a \in Primaries, NEW b \in Primaries
               PROVE  a = b
    BY DEF OnePrimaryWithoutFaults, AtMostOnePrimary, Quiet
  <2>1. PICK g \in Guardian : Best(g, a)
    BY DEF QuietInv, Primaries
  <2>2. Best(g, b)
    BY DEF QuietInv, Primaries, Quiet
  <2>3. PICK r \in Standby(Roster[g]) : r.agent = a /\ IsBest(r, Standby(Roster[g]))
    BY <2>1 DEF Best
  <2>4. PICK s \in Standby(Roster[g]) : s.agent = b /\ IsBest(s, Standby(Roster[g]))
    BY <2>2 DEF Best
  <2>5. Standby(Roster[g]) \in SUBSET BackupRow
    BY DEF Standby
  <2>6. r = s
    BY <2>3, <2>4, <2>5, BestIsUnique
  <2>7. QED
    BY <2>3, <2>4, <2>6
<1>2. QED
  BY QuietHolds, <1>1, PTL

=============================================================================
