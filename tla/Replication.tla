---------------------------- MODULE Replication ----------------------------
(***************************************************************************)
(* Replication of the protocol database from the primary to the guardians: *)
(* snapshots numbered by createSnapshot, handed out with an admission and  *)
(* pushed to every active guardian, applied by /recovery, and inherited by *)
(* a successor.                                                            *)
(*                                                                         *)
(* A Database is what the properties tell apart: the guardians table, how  *)
(* many other rows were written, and config.snapshot_sequence_num (0 when  *)
(* unset).  createSnapshot serializes before it stores the new number, so  *)
(* the content of snapshot n carries the number n - 1.                     *)
(*                                                                         *)
(* primary   the acting primary, 1 for the first one; it names the signer  *)
(*           and the vault key snapshots are encrypted with                *)
(* db        the database of the acting primary                            *)
(* old       the primary before it, while its process still runs: a        *)
(*           succession finds out that it is silent, not that it is dead.  *)
(*           upTo is the last number it took as the acting primary         *)
(* tasks     asynchronous functions of the primary between two awaits      *)
(* net       /recovery requests and admission answers in flight            *)
(* asking    guardians whose admission request was sent and not answered   *)
(* vaultKey  whose key a guardian holds, None before its admission         *)
(* copy      the guardian.db file: None, Torn or a Database                *)
(* applying  messages whose snapshot a guardian is writing over that file  *)
(***************************************************************************)
EXTENDS Naturals, FiniteSets

CONSTANTS
  Guardian,
  MaxWrites,      \* bound on the rows written besides admissions
  MaxSeq,         \* bounds on the snapshot numbers each primary takes
  MaxPrimary,     \* bound on successions
  MaxFaults,      \* bound on timers that fire, guardians that restart and
                  \* primaries that were only unreachable
  None, Torn

Database == [guardians : SUBSET Guardian, writes : Nat, seq : Nat]
Snapshot == [content : Database, seq : Nat, signedBy : Nat]

ASSUME ReplicationAssumption ==
  /\ MaxWrites \in Nat /\ MaxSeq \in [1 .. MaxPrimary -> Nat]
  /\ MaxPrimary \in Nat \ {0} /\ MaxFaults \in Nat
  /\ None \notin Guardian /\ None \notin Nat
  /\ None \notin Database /\ Torn \notin Database

VARIABLES primary, db, old, tasks, net, asking, vaultKey, copy, applying, faults

primaryVars == <<primary, db, old, tasks>>
guardianVars == <<asking, vaultKey, copy, applying>>
vars == <<primaryVars, net, guardianVars, faults>>

\* A push is signing its snapshot or sending it, to the guardians in todo
\* one after the other; an admission answers its guardian once signed, or
\* nobody when that guardian gave up waiting.
Task == [kind : {"push", "admission"}, snapshot : Snapshot, step : {"sign", "send"},
         current : Guardian \cup {None}, todo : SUBSET Guardian]
Message == [kind : {"push", "admission"}, guardian : Guardian, snapshot : Snapshot]

Msg(k, g, s) == [kind |-> k, guardian |-> g, snapshot |-> s]

TypeOK ==
  /\ primary \in 1 .. MaxPrimary
  /\ db \in Database
  /\ old \in {None} \cup
             [db : Database, primary : 1 .. primary - 1, upTo : Nat]
  /\ tasks \subseteq Task
  /\ net \subseteq Message
  /\ asking \subseteq Guardian
  /\ vaultKey \in [Guardian -> (1 .. MaxPrimary) \cup {None}]
  /\ copy \in [Guardian -> Database \cup {None, Torn}]
  /\ applying \subseteq Message
  /\ faults \in 0 .. MaxFaults

Init ==
  /\ primary = 1
  /\ db = [guardians |-> {}, writes |-> 0, seq |-> 0]
  /\ old = None
  /\ tasks = {}
  /\ net = {}
  /\ asking = {}
  /\ vaultKey = [g \in Guardian |-> None]
  /\ copy = [g \in Guardian |-> None]
  /\ applying = {}
  /\ faults = 0

Fault == faults < MaxFaults /\ faults' = faults + 1

-----------------------------------------------------------------------------
(* The primary.                                                            *)

\* A backup is admitted, a streak counted, an event logged.
WriteRow ==
  /\ db.writes < MaxWrites
  /\ db' = [db EXCEPT !.writes = @ + 1]
  /\ UNCHANGED <<primary, old, tasks, net, guardianVars, faults>>

\* The half of createSnapshot before the signer is awaited: serialize d,
\* take the next number.
NextSnapshot(d, p) == [content |-> d, seq |-> d.seq + 1, signedBy |-> p]

\* Mutant: the number is taken and not stored.
NumberedUnsaved(d) == d

Numbered(d) == [d EXCEPT !.seq = @ + 1]

NewTask(k, d, g, G) ==
  [kind |-> k, snapshot |-> NextSnapshot(d, primary), step |-> "sign",
   current |-> g, todo |-> G]

\* pushSnapshotToGuardians up to the signer: the list of guardians and the
\* content are read at one instant.
StartPush(d, ts) ==
  /\ d.guardians # {} /\ d.seq < MaxSeq[primary]
  /\ tasks' = ts \cup {NewTask("push", d, None, d.guardians)}
  /\ db' = Numbered(d)

\* Every five minutes.
PushTimer ==
  /\ StartPush(db, tasks)
  /\ UNCHANGED <<primary, old, net, guardianVars, faults>>

\* The request g waits on is being served, or its answer is on the way.
Served(g) ==
  \/ \E t \in tasks : t.kind = "admission" /\ t.current = g
  \/ \E m \in net : m.kind = "admission" /\ m.guardian = g

\* Mutant: the guardian is registered after the snapshot was taken.
AdmitLate(g) ==
  /\ g \in asking /\ db.seq < MaxSeq[primary]
  /\ ~Served(g)
  /\ tasks' = tasks \cup {NewTask("admission", db, g, {})}
  /\ db' = [Numbered(db) EXCEPT !.guardians = @ \cup {g}]
  /\ UNCHANGED <<primary, old, net, guardianVars, faults>>

\* handleAdmissionRequest after its last check: upsertGuardian, then the
\* snapshot for the answer.
Admit(g) ==
  LET d == [db EXCEPT !.guardians = @ \cup {g}] IN
  /\ g \in asking /\ db.seq < MaxSeq[primary]
  /\ ~Served(g)
  /\ tasks' = tasks \cup {NewTask("admission", d, g, {})}
  /\ db' = Numbered(d)
  /\ UNCHANGED <<primary, old, net, guardianVars, faults>>

\* The signer returned.  An admission is answered, and onAdmissionComplete
\* starts a push; a push turns to its first guardian.
AdmissionSigned(t) ==
  /\ t.kind = "admission"
  /\ StartPush(db, tasks \ {t})
  /\ net' = net \cup (IF t.current = None THEN {}
                     ELSE {Msg("admission", t.current, t.snapshot)})
  /\ UNCHANGED <<primary, old, guardianVars, faults>>

PushSigned(t) ==
  /\ t.kind = "push" /\ t.step = "sign"
  /\ tasks' = (tasks \ {t}) \cup {[t EXCEPT !.step = "send"]}
  /\ UNCHANGED <<primary, db, old, net, guardianVars, faults>>

PushTo(t, g) ==
  /\ t.step = "send" /\ t.current = None /\ g \in t.todo
  /\ net' = net \cup {Msg("push", g, t.snapshot)}
  /\ tasks' = (tasks \ {t}) \cup {[t EXCEPT !.current = g, !.todo = @ \ {g}]}
  /\ UNCHANGED <<primary, db, old, guardianVars, faults>>

\* The await on the current guardian ends: answered, or after 10 s, when the
\* request may still be on its way and is served all the same.
AwaitingAnswer(t) ==
  Msg("push", t.current, t.snapshot) \in net \cup applying

PushAnswered(t) ==
  /\ t.step = "send" /\ t.current # None
  /\ IF AwaitingAnswer(t) THEN Fault ELSE UNCHANGED faults
  /\ tasks' = (tasks \ {t}) \cup
       (IF t.todo = {} THEN {} ELSE {[t EXCEPT !.current = None]})
  /\ UNCHANGED <<primary, db, old, net, guardianVars>>

-----------------------------------------------------------------------------
(* A guardian.                                                             *)

\* startGuardian asks the primary for admission.
AskAdmission(g) ==
  /\ vaultKey[g] = None /\ g \notin asking
  /\ ~\E m \in net : m.kind = "admission" /\ m.guardian = g
  /\ asking' = asking \cup {g}
  /\ UNCHANGED <<primaryVars, net, vaultKey, copy, applying, faults>>

\* After 10 s the guardian gives up; the primary may be serving the request.
AdmissionTimeout(g) ==
  /\ g \in asking /\ Fault
  /\ asking' = asking \ {g}
  /\ tasks' = {IF t.kind = "admission" /\ t.current = g
               THEN [t EXCEPT !.current = None] ELSE t : t \in tasks}
  /\ net' = {m \in net : ~(m.kind = "admission" /\ m.guardian = g)}
  /\ UNCHANGED <<primary, db, old, vaultKey, copy, applying>>

\* The answer: the file is opened and the snapshot applied.  A torn file
\* from before cannot be opened and the process exits.
AdmissionReceived(m) ==
  LET g == m.guardian IN
  /\ m.kind = "admission"
  /\ net' = net \ {m}
  /\ asking' = asking \ {g}
  /\ IF copy[g] = Torn THEN UNCHANGED <<vaultKey, applying>>
     ELSE /\ vaultKey' = [vaultKey EXCEPT ![g] = m.snapshot.signedBy]
          /\ applying' = applying \cup {m}
  /\ UNCHANGED <<primaryVars, copy, faults>>

\* /recovery.  Before its admission a guardian drops the snapshot and says
\* ok; what its key cannot decrypt is refused with 500.  Neither the number
\* nor the signature is looked at.
RecoveryReceived(m) ==
  /\ m.kind = "push"
  /\ net' = net \ {m}
  /\ applying' = IF vaultKey[m.guardian] = m.snapshot.signedBy
                 THEN applying \cup {m} ELSE applying
  /\ UNCHANGED <<primaryVars, asking, vaultKey, copy, faults>>

Overwritten(m) == \E k \in applying \ {m} : k.guardian = m.guardian

\* applySnapshot wrote and reopened the file.
SnapshotApplied(m) ==
  /\ copy' = [copy EXCEPT ![m.guardian] = m.snapshot.content]
  /\ applying' = applying \ {m}
  /\ UNCHANGED <<primaryVars, net, asking, vaultKey, faults>>

\* Or it found the file torn, because another write of it is unfinished:
\* /recovery answers 500, and at startup the process exits.
SnapshotTorn(m) ==
  LET g == m.guardian IN
  /\ Overwritten(m)
  /\ copy' = [copy EXCEPT ![g] = Torn]
  /\ IF m.kind = "push" THEN applying' = applying \ {m} /\ UNCHANGED vaultKey
     ELSE /\ applying' = {k \in applying : k.guardian # g}
          /\ vaultKey' = [vaultKey EXCEPT ![g] = None]
  /\ UNCHANGED <<primaryVars, net, asking, faults>>

\* The key in memory is lost (vault-key.json is never read back); a file
\* that was being written is torn.
GuardianRestart(g) ==
  LET mine == {m \in applying : m.guardian = g} IN
  /\ vaultKey[g] # None /\ Fault
  /\ vaultKey' = [vaultKey EXCEPT ![g] = None]
  /\ applying' = applying \ mine
  /\ copy' = [copy EXCEPT ![g] = IF mine # {} THEN Torn ELSE @]
  /\ net' = {m \in net : m.guardian # g}
  /\ UNCHANGED <<primaryVars, asking>>

\* Mutant: a copy that is missing or unreadable is handed over as well.
SucceedUnreadable(g) ==
  /\ vaultKey[g] = primary /\ primary < MaxPrimary
  /\ primary' = primary + 1
  /\ db' = copy[g]
  /\ old' = None
  /\ tasks' = {}
  /\ asking' = {}
  /\ UNCHANGED <<net, vaultKey, copy, applying, faults>>

\* Guardian g hands its copy to a successor, with a snapshot of its own: the
\* number it takes is stored in g's copy only.  The successor encrypts with
\* the key it booted with; what the old primary had sent may still arrive.
\* If that one was only unreachable it goes on, its requests having timed out
\* long before it was missed.
Succeed(g) ==
  /\ vaultKey[g] = primary /\ primary < MaxPrimary
  /\ ~\E m \in applying : m.guardian = g
  /\ copy[g] \in Database
  /\ primary' = primary + 1
  /\ db' = copy[g]
  /\ \/ old' = None /\ UNCHANGED faults
     \/ old' = [db |-> db, primary |-> primary, upTo |-> db.seq] /\ Fault
  /\ copy' = [copy EXCEPT ![g] = Numbered(@)]
  /\ tasks' = {}
  /\ asking' = {}
  /\ UNCHANGED <<net, vaultKey, applying>>

\* The old primary can be reached again.  Its timer still pushes to the
\* guardians it knows; until it restarts nothing makes it look at the registry.
OldPrimaryPushes ==
  /\ old # None /\ old.db.seq < MaxSeq[old.primary]
  /\ net' = net \cup {Msg("push", g, NextSnapshot(old.db, old.primary)) :
                        g \in old.db.guardians}
  /\ old' = [old EXCEPT !.db = Numbered(@)]
  /\ UNCHANGED <<primary, db, tasks, guardianVars, faults>>

-----------------------------------------------------------------------------
Next ==
  \/ WriteRow \/ PushTimer \/ OldPrimaryPushes
  \/ \E g \in Guardian :
       \/ AskAdmission(g) \/ Admit(g) \/ AdmissionTimeout(g)
       \/ GuardianRestart(g) \/ Succeed(g)
  \/ \E t \in tasks :
       \/ AdmissionSigned(t) \/ PushSigned(t) \/ PushAnswered(t)
       \/ \E g \in t.todo : PushTo(t, g)
  \/ \E m \in net : AdmissionReceived(m) \/ RecoveryReceived(m)
  \/ \E m \in applying : SnapshotApplied(m) \/ SnapshotTorn(m)

Spec == Init /\ [][Next]_vars

-----------------------------------------------------------------------------
(* Properties.                                                             *)

Issued == {t.snapshot : t \in tasks} \cup {m.snapshot : m \in net \cup applying}

\* Two snapshots of one signer bear different numbers, and the one with the
\* higher number has the later content: a receiver that compared numbers, as
\* validateSequenceNum does, would order them correctly although pushes and
\* admissions take and sign snapshots concurrently.
SeqOrdersContent ==
  \A s, t \in Issued : s.signedBy = t.signedBy =>
    /\ s.seq = t.seq => s = t
    /\ s.seq < t.seq => /\ s.content.guardians \subseteq t.content.guardians
                        /\ s.content.writes <= t.content.writes

\* A guardian's copy lists that guardian, so that the successor it hands the
\* copy to pings it and pushes to it: through re-admissions, lost answers,
\* late pushes and a change of primary.
CopyListsHolder ==
  \A g \in Guardian : copy[g] \in Database => g \in copy[g].guardians

\* No guardian takes a snapshot that a primary made after it was succeeded:
\* "Old primary, if it recovers, holds stale key and cannot re-enter without
\* fresh admission."
OldPrimaryStaysOut ==
  old # None =>
    \A m \in applying :
      m.snapshot.signedBy = old.primary => m.snapshot.seq <= old.upTo

=============================================================================
