----------------------------- MODULE Succession -----------------------------
(***************************************************************************)
(* Succession: guardians that lost the primary hand the vault key and the  *)
(* database to a backup agent over two HTTP requests, /api/backup/ready    *)
(* and /api/backup/confirm, and the agent rotates the key, updates the     *)
(* ERC-8004 registry and becomes primary.  The old primary is dead for the *)
(* whole behaviour.  Every await of a handler ends a step.                 *)
(*                                                                         *)
(* Guardians                                                               *)
(*   phase      what the succession handler awaits ("idle" is inProgress = *)
(*              false; a "down" guardian restarted and lost its vault key) *)
(*   remaining  rows the candidate loop has not reached yet                *)
(*   target     the candidate being contacted                              *)
(*   contact    names the key-exchange session of the current candidate    *)
(*   pinged     FALSE when the last ping is older than the threshold       *)
(* Agents                                                                  *)
(*   up, role                                                              *)
(*   session    pendingSuccessionSession: the contact it was made for      *)
(*   mgrKey     VaultKeyManager's key; sealedKey, the one on disk          *)
(*   svcKey     content of the buffer AdmissionService and SnapshotManager *)
(*              were built with                                            *)
(*   buffer     the buffer mgrKey is: Service, that one; a session, the    *)
(*              one its handler received; None, one nobody else reads      *)
(*   db, dbOpen the file as the last write left it: the agent's own, the   *)
(*              network's, or torn (truncated, or parts of two writes)     *)
(*   wallet     whose EVM wallet and token the agent holds                 *)
(* handlers, net   running /confirm handlers, HTTP messages in flight      *)
(* registry        whom the discovery endpoint of the token names          *)
(* faults          faults so far (bounded by MaxFaults)                    *)
(* halted, overlapped   history only: agents whose process ever ended, and *)
(*                 agents whose database two handlers ever wrote at once   *)
(***************************************************************************)
EXTENDS SuccessorSelection

CONSTANTS
  Guardian,
  Roster,        \* [Guardian -> SUBSET BackupRow], each guardian's copy
  ContactId,     \* names for key-exchange sessions, a finite set of naturals
  FaultKinds,    \* the faults that may happen, out of Faults
  MaxFaults,     \* and the bound on how many
  MaxOvertaken,  \* the bound on a guardian's requests it no longer waits for
  None, OldPrimary, Service

\* An answer that comes after the timer, an agent's or a guardian's restart,
\* a registry (or the primary it names) that cannot be read or written, a
\* heartbeat that finds the database closed or unreadable.
Faults == {"late", "crash", "restart", "registry", "heartbeat"}

ASSUME SuccessionAssumption ==
  /\ Roster \in [Guardian -> SUBSET BackupRow]
  /\ \A g \in Guardian : UniqueTee(Roster[g])
  /\ ContactId \subseteq Nat
  /\ FaultKinds \subseteq Faults
  /\ MaxFaults \in Nat /\ MaxOvertaken \in Nat
  /\ None \notin Agent /\ OldPrimary \notin Agent
  /\ None # OldPrimary
  /\ None \notin [guardian : Guardian, contact : ContactId]
  /\ Service \notin [guardian : Guardian, contact : ContactId]
  /\ None # Service

VARIABLES phase, remaining, target, contact, pinged,
          up, role, session, mgrKey, sealedKey, svcKey, buffer,
          db, dbOpen, wallet, handlers, net, registry, faults,
          halted, overlapped

guardianVars == <<phase, remaining, target, contact, pinged>>
keyVars == <<mgrKey, sealedKey, svcKey, buffer>>
history == <<halted, overlapped>>
agentVars == <<up, role, session, keyVars, db, dbOpen, wallet, history>>
vars == <<guardianVars, agentVars, handlers, net, registry, faults>>

Key == {"boot", "network", "rotated", "zero"}
Session == [guardian : Guardian, contact : ContactId]
Message == [type : {"ready", "readyOk", "confirm", "confirmOk", "confirmErr"},
            guardian : Guardian, agent : Agent, contact : ContactId]
Buffer == Session \cup {None, Service}
\* The await a /confirm handler is suspended at; key is what seal() is
\* writing ("zero" when it is not), old the buffer it captured to zero,
\* spoilt whether the buffer it received and has yet to decrypt with was
\* zeroed by another handler.
Handler == [agent : Agent, guardian : Guardian, contact : ContactId,
            step : {"derive", "seal", "write", "rotate", "rederive",
                    "reseal", "register"},
            key : Key, old : Buffer, spoilt : BOOLEAN]

TypeOK ==
  /\ phase \in [Guardian -> {"idle", "ready", "confirm", "standdown", "down"}]
  /\ remaining \in [Guardian -> SUBSET BackupRow]
  /\ target \in [Guardian -> Agent \cup {None}]
  /\ contact \in [Guardian -> ContactId \cup {None}]
  /\ pinged \in [Guardian -> BOOLEAN]
  /\ up \in [Agent -> BOOLEAN]
  /\ role \in [Agent -> {"primary", "backup"}]
  /\ session \in [Agent -> Session \cup {None}]
  /\ mgrKey \in [Agent -> Key]
  /\ sealedKey \in [Agent -> Key]
  /\ svcKey \in [Agent -> Key]
  /\ buffer \in [Agent -> Buffer]
  /\ db \in [Agent -> {"own", "network", "torn"}]
  /\ dbOpen \in [Agent -> BOOLEAN]
  /\ wallet \in [Agent -> {"none", "own", "network"}]
  /\ handlers \subseteq Handler
  /\ net \subseteq Message
  /\ registry \in Agent \cup {OldPrimary}
  /\ faults \in 0 .. MaxFaults
  /\ halted \subseteq Agent /\ overlapped \subseteq Agent

Init ==
  /\ phase = [g \in Guardian |-> "idle"]
  /\ remaining = [g \in Guardian |-> {}]
  /\ target = [g \in Guardian |-> None]
  /\ contact = [g \in Guardian |-> None]
  /\ pinged = [g \in Guardian |-> TRUE]
  /\ up = [a \in Agent |-> TRUE]
  /\ role = [a \in Agent |-> "backup"]
  /\ session = [a \in Agent |-> None]
  /\ mgrKey = [a \in Agent |-> "boot"]
  /\ sealedKey = [a \in Agent |-> "boot"]
  /\ svcKey = [a \in Agent |-> "boot"]
  /\ buffer = [a \in Agent |-> Service]
  /\ db = [a \in Agent |-> "own"]
  /\ dbOpen = [a \in Agent |-> TRUE]
  /\ wallet = [a \in Agent |-> "none"]
  /\ handlers = {}
  /\ net = {}
  /\ registry = OldPrimary
  /\ faults = 0
  /\ halted = {} /\ overlapped = {}

Fault(kind) ==
  kind \in FaultKinds /\ faults < MaxFaults /\ faults' = faults + 1

Msg(t, g, a, n) == [type |-> t, guardian |-> g, agent |-> a, contact |-> n]

-----------------------------------------------------------------------------
(* Guardians: the liveness monitor and the candidate loop.                 *)

\* Pings come from every running agent whose database lists the guardian.
Pingers == {a \in Agent : up[a] /\ db[a] = "network"}

\* livenessFailureThreshold intervals pass in which nobody pings g.
PrimarySilent(g) ==
  /\ phase[g] # "down" /\ pinged[g] /\ Pingers = {}
  /\ pinged' = [pinged EXCEPT ![g] = FALSE]
  /\ UNCHANGED <<phase, remaining, target, contact, agentVars,
                 handlers, net, registry, faults>>

\* A ping of any sender counts: a failed signature check is only logged.
PingReceived(g) ==
  /\ phase[g] # "down" /\ Pingers # {}
  /\ pinged' = [pinged EXCEPT ![g] = TRUE]
  /\ UNCHANGED <<phase, remaining, target, contact, agentVars,
                 handlers, net, registry, faults>>

\* Session names of g still held by a message, a handler or an agent's slot.
InUse(g) ==
  {m.contact : m \in {x \in net : x.guardian = g}}
    \cup {h.contact : h \in {x \in handlers : x.guardian = g}}
    \cup {h.old.contact : h \in {x \in handlers :
            x.old \notin {None, Service} /\ x.old.guardian = g}}
    \cup {session[a].contact : a \in {x \in Agent :
            session[x] # None /\ session[x].guardian = g}}

Fresh(g, n) ==
  /\ n \in ContactId \ InUse(g)
  /\ \A m \in ContactId \ InUse(g) : n <= m

\* The head of the candidate loop, with the rows R left and the messages
\* msgs in flight: post /ready to the best of R, or give up.
NextCandidate(g, R, msgs) ==
  \/ /\ R = {}
     /\ phase' = [phase EXCEPT ![g] = "idle"]
     /\ remaining' = [remaining EXCEPT ![g] = {}]
     /\ target' = [target EXCEPT ![g] = None]
     /\ contact' = [contact EXCEPT ![g] = None]
     /\ net' = msgs
  \/ \E r \in R, n \in ContactId :
       /\ IsBest(r, R) /\ Fresh(g, n)
       /\ phase' = [phase EXCEPT ![g] = "ready"]
       /\ remaining' = [remaining EXCEPT ![g] = R \ {r}]
       /\ target' = [target EXCEPT ![g] = r.agent]
       /\ contact' = [contact EXCEPT ![g] = n]
       /\ net' = IF up[r.agent] THEN msgs \cup {Msg("ready", g, r.agent, n)}
                 ELSE msgs          \* connection refused

\* The monitor polls: liveness failure, and no attempt in progress.
Initiate(g) ==
  /\ phase[g] = "idle" /\ ~pinged[g]
  /\ Standby(Roster[g]) # {}
  /\ NextCandidate(g, Standby(Roster[g]), net)
  /\ UNCHANGED <<pinged, agentVars, handlers, registry, faults>>

\* /ready answered: wrap the key, snapshot, /confirm.  The measurement is not
\* compared: nothing ever stores the agent_rtmr3 it would be compared with.
ReadyAnswered(g) ==
  LET a == target[g]
      m == Msg("readyOk", g, a, contact[g])
      sent == Msg("confirm", g, a, contact[g])
  IN
  /\ phase[g] = "ready" /\ m \in net
  /\ phase' = [phase EXCEPT ![g] = "confirm"]
  /\ net' = (net \ {m}) \cup (IF up[a] THEN {sent} ELSE {})
  /\ UNCHANGED <<remaining, target, contact, pinged, agentVars,
                 handlers, registry, faults>>

\* Mutant: the loop does not return after the first confirmation.
ConfirmAnsweredGoesOn(g) ==
  LET m == Msg("confirmOk", g, target[g], contact[g]) IN
  /\ phase[g] = "confirm" /\ m \in net
  /\ NextCandidate(g, remaining[g], net \ {m})
  /\ UNCHANGED <<pinged, agentVars, handlers, registry, faults>>

\* ok: true ends the loop; pollForStandDown starts.
ConfirmAnswered(g) ==
  LET m == Msg("confirmOk", g, target[g], contact[g]) IN
  /\ phase[g] = "confirm" /\ m \in net
  /\ net' = net \ {m}
  /\ phase' = [phase EXCEPT ![g] = "standdown"]
  /\ remaining' = [remaining EXCEPT ![g] = {}]
  /\ UNCHANGED <<target, contact, pinged, agentVars, handlers,
                 registry, faults>>

ConfirmRejected(g) ==
  LET m == Msg("confirmErr", g, target[g], contact[g]) IN
  /\ phase[g] = "confirm" /\ m \in net
  /\ NextCandidate(g, remaining[g], net \ {m})
  /\ UNCHANGED <<pinged, agentVars, handlers, registry, faults>>

\* Anything that can still lead to an answer of g's current request.
AnswerPending(g) ==
  \/ \E m \in net : m.guardian = g /\ m.contact = contact[g]
  \/ \E h \in handlers : h.guardian = g /\ h.contact = contact[g]

\* The requests of g under way besides the current one.
Overtaken(g) ==
  ({m.contact : m \in {x \in net : x.guardian = g}}
     \cup {h.contact : h \in {x \in handlers : x.guardian = g}}) \ {contact[g]}

Late(g) == Fault("late") /\ Cardinality(Overtaken(g)) < MaxOvertaken

\* Mutant: /confirm has no timer of its own.
RequestAbortedReadyOnly(g) ==
  /\ phase[g] = "ready"
  /\ IF AnswerPending(g) THEN Late(g) ELSE UNCHANGED faults
  /\ NextCandidate(g, remaining[g],
       {m \in net : m.guardian = g => m.type \in {"ready", "confirm"}})
  /\ UNCHANGED <<pinged, agentVars, handlers, registry>>

\* 10 s for /ready, 15 s for /confirm, or the connection broke: the next
\* candidate.  A timer that fires although the answer is coming is a fault;
\* the socket is closed, so the answer is never read, but a request already
\* sent is still served.
RequestAborted(g) ==
  /\ phase[g] \in {"ready", "confirm"}
  /\ IF AnswerPending(g) THEN Late(g) ELSE UNCHANGED faults
  /\ NextCandidate(g, remaining[g],
       {m \in net : m.guardian = g => m.type \in {"ready", "confirm"}})
  /\ UNCHANGED <<pinged, agentVars, handlers, registry>>

\* Mutant: the registered address is kept as the candidate.
StandDownAddress(g) ==
  /\ phase[g] = "standdown"
  /\ phase' = [phase EXCEPT ![g] = "idle"]
  /\ target' = [target EXCEPT ![g] = registry]
  /\ contact' = [contact EXCEPT ![g] = None]
  /\ UNCHANGED <<remaining, pinged, agentVars, handlers, net, registry, faults>>

\* checkAndStandDown compares the registry's endpoint URL with this
\* guardian's teeInstanceId, so any registered endpoint will do.
StandDown(g) ==
  /\ phase[g] = "standdown"
  /\ phase' = [phase EXCEPT ![g] = "idle"]
  /\ target' = [target EXCEPT ![g] = None]
  /\ contact' = [contact EXCEPT ![g] = None]
  /\ UNCHANGED <<remaining, pinged, agentVars, handlers, net, registry, faults>>

\* The registry could not be read for 120 s.
StandDownTimeout(g) ==
  /\ phase[g] = "standdown" /\ Fault("registry")
  /\ phase' = [phase EXCEPT ![g] = "idle"]
  /\ target' = [target EXCEPT ![g] = None]
  /\ contact' = [contact EXCEPT ![g] = None]
  /\ UNCHANGED <<remaining, pinged, agentVars, handlers, net, registry>>

\* A restarted guardian has no vault key and the dummy succession handler.
GuardianRestart(g) ==
  /\ phase[g] # "down" /\ Fault("restart")
  /\ phase' = [phase EXCEPT ![g] = "down"]
  /\ remaining' = [remaining EXCEPT ![g] = {}]
  /\ target' = [target EXCEPT ![g] = None]
  /\ contact' = [contact EXCEPT ![g] = None]
  /\ net' = {m \in net : m.guardian = g => m.type \in {"ready", "confirm"}}
  /\ UNCHANGED <<pinged, agentVars, handlers, registry>>

-----------------------------------------------------------------------------
(* Agents: the two request handlers.                                       *)

\* The answer reaches g only while it still waits for this very contact.
Answer(t, g, a, n) ==
  IF contact[g] = n /\ target[g] = a THEN {Msg(t, g, a, n)} ELSE {}

\* A second /ready overwrites the slot of the first.
BackupReady(m) ==
  /\ m.type = "ready" /\ up[m.agent]
  /\ session' = [session EXCEPT ![m.agent] =
                   [guardian |-> m.guardian, contact |-> m.contact]]
  /\ net' = (net \ {m}) \cup Answer("readyOk", m.guardian, m.agent, m.contact)
  /\ UNCHANGED <<guardianVars, up, role, keyVars, db, dbOpen, wallet,
                 handlers, registry, faults, history>>

NewHandler(m, s, o) ==
  [agent |-> m.agent, guardian |-> m.guardian, contact |-> m.contact,
   step |-> s, key |-> "zero", old |-> o, spoilt |-> FALSE]

SessionOf(x) == [guardian |-> x.guardian, contact |-> x.contact]

\* Mutant: the slot is cleared before the awaits instead of after them.
ConfirmUnwrapClears(m) ==
  LET a == m.agent IN
  /\ m.type = "confirm" /\ up[a]
  /\ session[a] = SessionOf(m)
  /\ mgrKey' = [mgrKey EXCEPT ![a] = "network"]
  /\ buffer' = [buffer EXCEPT ![a] = SessionOf(m)]
  /\ session' = [session EXCEPT ![a] = None]
  /\ net' = net \ {m}
  /\ handlers' = handlers \cup {NewHandler(m, "derive", None)}
  /\ UNCHANGED <<guardianVars, up, role, sealedKey, svcKey, db, dbOpen,
                 wallet, registry, faults, history>>

\* The payload opens with the stored session: the key is replaced first.
ConfirmUnwrap(m) ==
  LET a == m.agent IN
  /\ m.type = "confirm" /\ up[a]
  /\ session[a] = SessionOf(m)
  /\ mgrKey' = [mgrKey EXCEPT ![a] = "network"]
  /\ buffer' = [buffer EXCEPT ![a] = SessionOf(m)]
  /\ net' = net \ {m}
  /\ handlers' = handlers \cup {NewHandler(m, "derive", None)}
  /\ UNCHANGED <<guardianVars, up, role, session, sealedKey, svcKey, db,
                 dbOpen, wallet, registry, faults, history>>

\* No session is stored: key and snapshot are skipped, the rest runs.
ConfirmWithoutSession(m) ==
  LET a == m.agent IN
  /\ m.type = "confirm" /\ up[a] /\ session[a] = None /\ dbOpen[a]
  /\ net' = net \ {m}
  /\ wallet' = [wallet EXCEPT ![a] =
                  IF @ = "none" /\ db[a] = "network" THEN "network" ELSE @]
  /\ handlers' = handlers \cup {NewHandler(m, "rotate", buffer[a])}
  /\ UNCHANGED <<guardianVars, up, role, session, keyVars, db, dbOpen,
                 registry, faults, history>>

\* Made for another session, or the database is closed or unreadable: 500.
ConfirmFails(m) ==
  LET a == m.agent IN
  /\ m.type = "confirm" /\ up[a]
  /\ IF session[a] = None THEN ~dbOpen[a] \/ db[a] = "torn"
     ELSE session[a] # SessionOf(m)
  /\ net' = (net \ {m}) \cup Answer("confirmErr", m.guardian, a, m.contact)
  /\ UNCHANGED <<guardianVars, agentVars, handlers, registry, faults>>

\* A handler that throws: 500, and what it did so far stays.
Throws(h) ==
  /\ handlers' = handlers \ {h}
  /\ net' = net \cup Answer("confirmErr", h.guardian, h.agent, h.contact)

Resume(h, s) ==
  handlers' = (handlers \ {h}) \cup {[h EXCEPT !.step = s, !.key = "zero"]}

\* seal(): the sealing key is derived, then the current key is encrypted.
DeriveSealingKey(h) ==
  /\ h.step \in {"derive", "rederive"}
  /\ handlers' = (handlers \ {h}) \cup
       {[h EXCEPT !.key = mgrKey[h.agent],
                  !.step = IF h.step = "derive" THEN "seal" ELSE "reseal"]}
  /\ UNCHANGED <<guardianVars, agentVars, net, registry, faults>>

Writing(a) == \E h \in handlers : h.agent = a /\ h.step = "write"

\* Mutant: the received key is not sealed before the database is replaced.
SealSkipped(h) ==
  /\ h.step = "seal" /\ ~h.spoilt
  /\ dbOpen' = [dbOpen EXCEPT ![h.agent] = FALSE]
  /\ Resume(h, "write")
  /\ UNCHANGED <<guardianVars, up, role, session, keyVars, db, wallet, net,
                 registry, faults, history>>

\* seal(): the file is written.  On the way in, applySnapshot decrypts,
\* closes the database and starts to write its file.
SealReceived(h) ==
  LET a == h.agent IN
  /\ h.step = "seal" /\ ~h.spoilt
  /\ sealedKey' = [sealedKey EXCEPT ![a] = h.key]
  /\ buffer' = [buffer EXCEPT ![a] = IF @ = SessionOf(h) THEN None ELSE @]
  /\ dbOpen' = [dbOpen EXCEPT ![a] = FALSE]
  /\ overlapped' = IF Writing(a) THEN overlapped \cup {a} ELSE overlapped
  /\ Resume(h, "write")
  /\ UNCHANGED <<guardianVars, up, role, session, mgrKey, svcKey, db, wallet,
                 net, registry, faults, halted>>

\* The same, but another handler's rotation has zeroed the received key: the
\* decryption throws before the database is closed.
DecryptFails(h) ==
  /\ h.step = "seal" /\ h.spoilt
  /\ sealedKey' = [sealedKey EXCEPT ![h.agent] = h.key]
  /\ Throws(h)
  /\ UNCHANGED <<guardianVars, up, role, session, mgrKey, svcKey, buffer, db,
                 dbOpen, wallet, registry, faults, history>>

\* Another writer is still at the file, or has come to its end before h.
Raced(h) ==
  \/ dbOpen[h.agent]
  \/ \E k \in handlers \ {h} : k.agent = h.agent /\ k.step = "write"

\* The file is written and reopened; raced, it may be torn, and passes for an
\* empty database.  The slot is cleared, whoever's session it holds by now;
\* the wallet is restored, the buffer to rotate away from is captured.  (The
\* imports awaited on the way are of modules agent.ts has loaded.)
SnapshotApplied(h) ==
  LET a == h.agent IN
  /\ h.step = "write"
  /\ \E d \in (IF Raced(h) THEN {"network", "torn"} ELSE {"network"}) :
       /\ db' = [db EXCEPT ![a] = d]
       /\ wallet' = [wallet EXCEPT ![a] =
                       IF @ = "none" /\ d = "network" THEN "network" ELSE @]
  /\ dbOpen' = [dbOpen EXCEPT ![a] = TRUE]
  /\ session' = [session EXCEPT ![a] = None]
  /\ handlers' = (handlers \ {h}) \cup
       {[h EXCEPT !.step = "rotate", !.old = buffer[a]]}
  /\ UNCHANGED <<guardianVars, up, role, keyVars, net, registry, faults,
                 history>>

\* The file is torn and reinitialize() throws on it, or, past the clearing of
\* the slot, the first query does.
SnapshotUnreadable(h) ==
  LET a == h.agent IN
  /\ h.step = "write" /\ Raced(h)
  /\ db' = [db EXCEPT ![a] = "torn"]
  /\ dbOpen' = [dbOpen EXCEPT ![a] = TRUE]
  /\ \E s \in {session[a], None} : session' = [session EXCEPT ![a] = s]
  /\ Throws(h)
  /\ UNCHANGED <<guardianVars, up, role, keyVars, wallet, registry, faults,
                 history>>

\* The buffer h captured is zeroed: a key k received and has yet to use.
Spoils(h, k) ==
  k.agent = h.agent /\ k.step \in {"derive", "seal"} /\ h.old = SessionOf(k)

\* rotateVaultKey, after the guardians were offered the new key (none takes
\* it): the captured buffer is zeroed, the key replaced, seal() called.
RotateVaultKey(h) ==
  LET a == h.agent IN
  /\ h.step = "rotate"
  /\ svcKey' = [svcKey EXCEPT ![a] = IF h.old = Service THEN "zero" ELSE @]
  /\ mgrKey' = [mgrKey EXCEPT ![a] = "rotated"]
  /\ buffer' = [buffer EXCEPT ![a] = None]
  /\ handlers' =
       {IF Spoils(h, k) THEN [k EXCEPT !.spoilt = TRUE] ELSE k :
          k \in handlers \ {h}}
       \cup {[h EXCEPT !.step = "rederive", !.old = None]}
  /\ UNCHANGED <<guardianVars, up, role, session, sealedKey, db, dbOpen,
                 wallet, net, registry, faults, history>>

SealRotated(h) ==
  /\ h.step = "reseal"
  /\ sealedKey' = [sealedKey EXCEPT ![h.agent] = h.key]
  /\ Resume(h, "register")
  /\ UNCHANGED <<guardianVars, up, role, session, mgrKey, svcKey, buffer, db,
                 dbOpen, wallet, net, registry, faults, history>>

\* Mutant: a failing registry transaction fails the request.
BecomePrimaryFatal(h) ==
  LET a == h.agent IN
  /\ h.step = "register"
  /\ \/ /\ registry' = (IF wallet[a] = "network" THEN a ELSE registry)
        /\ role' = [role EXCEPT ![a] = "primary"]
        /\ handlers' = handlers \ {h}
        /\ net' = net \cup Answer("confirmOk", h.guardian, a, h.contact)
        /\ UNCHANGED faults
     \/ /\ wallet[a] = "network" /\ Fault("registry")
        /\ Throws(h) /\ UNCHANGED <<registry, role>>
  /\ UNCHANGED <<guardianVars, up, session, keyVars, db, dbOpen, wallet,
                 history>>

\* Mutant: the registry is updated whoever's wallet is loaded.
BecomePrimaryAnyWallet(h) ==
  LET a == h.agent IN
  /\ h.step = "register"
  /\ registry' = a
  /\ role' = [role EXCEPT ![a] = "primary"]
  /\ handlers' = handlers \ {h}
  /\ net' = net \cup Answer("confirmOk", h.guardian, a, h.contact)
  /\ UNCHANGED <<guardianVars, up, session, keyVars, db, dbOpen, wallet,
                 faults, history>>

\* The registry transaction, which may fail without consequence and which
\* needs the network's wallet to touch the network's token; then the role,
\* and ok: true to the guardian.
BecomePrimary(h) ==
  LET a == h.agent IN
  /\ h.step = "register"
  /\ \/ registry' = (IF wallet[a] = "network" THEN a ELSE registry)
        /\ UNCHANGED faults
     \/ wallet[a] = "network" /\ Fault("registry") /\ UNCHANGED registry
  /\ role' = [role EXCEPT ![a] = "primary"]
  /\ handlers' = handlers \ {h}
  /\ net' = net \cup Answer("confirmOk", h.guardian, a, h.contact)
  /\ UNCHANGED <<guardianVars, up, session, keyVars, db, dbOpen, wallet,
                 history>>

-----------------------------------------------------------------------------
(* Agents: crash and reboot.                                               *)

\* The process of a is gone: requests and handlers are lost, the database file
\* is torn if applySnapshot was writing it.
Halt(a) ==
  /\ up' = [up EXCEPT ![a] = FALSE]
  /\ session' = [session EXCEPT ![a] = None]
  /\ db' = [db EXCEPT ![a] = IF Writing(a) THEN "torn" ELSE @]
  /\ handlers' = {h \in handlers : h.agent # a}
  /\ net' = {m \in net : m.agent = a => m.type \notin {"ready", "confirm"}}
  /\ halted' = halted \cup {a}
  /\ UNCHANGED <<guardianVars, role, keyVars, dbOpen, wallet, registry,
                 overlapped>>

Crash(a) == up[a] /\ Fault("crash") /\ Halt(a)

\* The heartbeat timer fires while applySnapshot has the database closed, or
\* finds it torn: the query throws, nobody handles the rejection, and Node
\* ends the process.
PingOnClosedDb(a) ==
  up[a] /\ (~dbOpen[a] \/ db[a] = "torn") /\ Fault("heartbeat") /\ Halt(a)

\* resolveRole: backup only if the registry names another agent that answers;
\* a registry that cannot be read, or a live primary that does not answer the
\* probe in time, makes a primary too.
Resolved(a, r) ==
  LET live == registry \in Agent \ {a} /\ up[registry] IN
  \/ r = (IF live THEN "backup" ELSE "primary") /\ UNCHANGED faults
  \/ live /\ r = "primary" /\ Fault("registry")

\* Mutant: a reboot that comes up as primary seals a key generated afresh.
RebootRekeyed(a) ==
  /\ ~up[a]
  /\ \E r \in {"primary", "backup"} :
       LET k == IF r = "primary" THEN "boot" ELSE sealedKey[a] IN
       /\ Resolved(a, r)
       /\ role' = [role EXCEPT ![a] = r]
       /\ mgrKey' = [mgrKey EXCEPT ![a] = k]
       /\ svcKey' = [svcKey EXCEPT ![a] = k]
       /\ sealedKey' = [sealedKey EXCEPT ![a] = k]
       /\ wallet' = [wallet EXCEPT ![a] = IF r = "backup" THEN "none" ELSE "own"]
  /\ up' = [up EXCEPT ![a] = TRUE]
  /\ buffer' = [buffer EXCEPT ![a] = Service]
  /\ dbOpen' = [dbOpen EXCEPT ![a] = TRUE]
  /\ UNCHANGED <<guardianVars, session, db, handlers, net, registry, history>>

\* The sealed key is loaded and handed to every service.  A torn database, if
\* it opens at all, passes for an empty one, so a primary makes a new wallet.
Reboot(a) ==
  /\ ~up[a]
  /\ \E r \in {"primary", "backup"} :
       /\ Resolved(a, r)
       /\ role' = [role EXCEPT ![a] = r]
       /\ wallet' = [wallet EXCEPT ![a] =
                       IF r = "backup" THEN "none"
                       ELSE IF db[a] = "network" THEN "network" ELSE "own"]
  /\ up' = [up EXCEPT ![a] = TRUE]
  /\ mgrKey' = [mgrKey EXCEPT ![a] = sealedKey[a]]
  /\ svcKey' = [svcKey EXCEPT ![a] = sealedKey[a]]
  /\ buffer' = [buffer EXCEPT ![a] = Service]
  /\ dbOpen' = [dbOpen EXCEPT ![a] = TRUE]
  /\ UNCHANGED <<guardianVars, session, sealedKey, db, handlers, net,
                 registry, history>>

-----------------------------------------------------------------------------
GuardianStep(g) ==
  \/ PrimarySilent(g) \/ PingReceived(g)
  \/ Initiate(g) \/ ReadyAnswered(g)
  \/ ConfirmAnswered(g) \/ ConfirmRejected(g) \/ RequestAborted(g)
  \/ StandDown(g)

Serve(m) ==
  BackupReady(m) \/ ConfirmUnwrap(m) \/ ConfirmWithoutSession(m) \/ ConfirmFails(m)

Continue(h) ==
  \/ DeriveSealingKey(h) \/ SealReceived(h) \/ DecryptFails(h)
  \/ SnapshotApplied(h) \/ SnapshotUnreadable(h)
  \/ RotateVaultKey(h) \/ SealRotated(h) \/ BecomePrimary(h)

Next ==
  \/ \E g \in Guardian :
       GuardianStep(g) \/ StandDownTimeout(g) \/ GuardianRestart(g)
  \/ \E m \in net : Serve(m)
  \/ \E h \in handlers : Continue(h)
  \/ \E a \in Agent : Crash(a) \/ PingOnClosedDb(a) \/ Reboot(a)

Spec == Init /\ [][Next]_vars

\* The timers and sockets of every guardian progress, its requests are served
\* and their awaits resolve, pings keep coming, machines come back (if their
\* database can be opened).
Fairness ==
  /\ \A g \in Guardian :
       /\ WF_vars(GuardianStep(g))
       /\ WF_vars(PingReceived(g))
       /\ \A n \in ContactId :
            /\ WF_vars(\E m \in net : m.guardian = g /\ m.contact = n /\ Serve(m))
            /\ WF_vars(\E h \in handlers :
                         h.guardian = g /\ h.contact = n /\ Continue(h))
  /\ \A a \in Agent : WF_vars(db[a] # "torn" /\ Reboot(a))

FairSpec == Spec /\ Fairness

-----------------------------------------------------------------------------
(* Properties.                                                             *)

\* An agent whose own database was replaced has sealed a key of the
\* succession, received or rotated: a crash right after the file is written,
\* or while it is, never leaves the network's data beside a key that has
\* nothing to do with it (handleBackupConfirm: "Update vault key FIRST"), and
\* whatever buffer an overlapping rotation zeroes, zeros are never sealed.
KeyBeforeData ==
  \A a \in Agent : db[a] # "own" => sealedKey[a] \in {"network", "rotated"}

\* The registry entry moves only to an agent that applied the network's
\* database, also when a handler skipped the snapshot or the agent rebooted
\* with a wallet of its own: the token answers to the network's wallet only.
RegistryNamesHolder ==
  \A a \in Agent : registry = a => db[a] # "own" /\ sealedKey[a] # "boot"

\* A guardian that was told ok: true left a primary with the network's
\* database and a sealed key of the network behind (the whitepaper's step 6).
ConfirmedIsReady ==
  \A g \in Guardian : phase[g] = "standdown" =>
    /\ role[target[g]] = "primary"
    /\ db[target[g]] = "network"
    /\ sealedKey[target[g]] # "boot"

\* What is left of that promise however many guardians race, time out and
\* try again: the agent a guardian was told ok: true about, unless its
\* process ended meanwhile, is a primary that skipped neither key nor
\* snapshot.  Its database is the network's, whole; only where two handlers
\* wrote it at once may it be torn.
ConfirmedSkippedNothing ==
  \A g \in Guardian : phase[g] = "standdown" /\ target[g] \notin halted =>
    /\ role[target[g]] = "primary"
    /\ sealedKey[target[g]] \in {"network", "rotated"}
    /\ \/ db[target[g]] = "network"
       \/ db[target[g]] = "torn" /\ target[g] \in overlapped

Primaries == {a \in Agent : up[a] /\ role[a] = "primary"}

\* All guardians converge on the same target: there are never two primaries.
AtMostOnePrimary == \A a, b \in Primaries : a = b

\* One guardian, and nothing went wrong so far: it produces one primary, also
\* when it starts over before the new primary's first ping arrives.
OnePrimaryWithoutFaults ==
  (faults = 0 /\ \A g, k \in Guardian : g = k) => AtMostOnePrimary

\* The key an agent with the rotated key hands to the guardians it admits is
\* the rotated key (Decision 6, step 4).
AdmitsWithRotatedKey ==
  \A a \in Agent : up[a] /\ role[a] = "primary" /\ mgrKey[a] = "rotated"
                     => svcKey[a] = "rotated"

\* Unless a guardian restarted (and so lost its key), no agent is left with a
\* readable database, or two handlers tore one between them, somebody ends up
\* primary with the network's database: crashes, reboots, late answers and
\* failed attempts are made up for by the monitor polling again.
SomeoneTakesOver ==
  \/ <>(\E g \in Guardian : phase[g] = "down")
  \/ <>(\A a \in Agent : db[a] = "torn")
  \/ <>(\E a \in overlapped : db[a] = "torn")
  \/ <>(\E a \in Primaries : db[a] = "network")

\* An attempt always ends: no error path, crash of the candidate or unread
\* answer leaves inProgress set, which would disable the guardian for good.
AttemptEnds ==
  \A g \in Guardian :
    phase[g] \in {"ready", "confirm", "standdown"} ~> phase[g] \in {"idle", "down"}

\* The agent's place in a hand-over, told from its disk.
Stage ==
  [a \in Agent |->
     IF db[a] # "own" THEN "equipped"
     ELSE IF sealedKey[a] # "boot" THEN "keyed" ELSE "outside"]

Promise == INSTANCE Handover WITH stage <- Stage, named <- registry

\* The two-request exchange implements Handover: whatever guardians race, time
\* out and start over, whatever handlers interleave in one agent, and wherever
\* an agent crashes and reboots, agents go through key, database and registry
\* entry one at a time and in this order, and never back.
HandedOver == Promise!Spec
=============================================================================
