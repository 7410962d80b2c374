----------------------------- MODULE Admission -----------------------------
(***************************************************************************)
(* Admission of guardians and backup agents by the primary: the client's   *)
(* retry loop, and handleAdmissionRequest, which awaits the client's       *)
(* quote, the services that verify it one after the other, the key session *)
(* and the snapshot's signer while other admissions run.                   *)
(*                                                                         *)
(* Clients                                                                 *)
(*   state     where the retry loop is; "refused" is a hard rejection      *)
(*   attempt   attempts made so far; with the client it names the nonce    *)
(*   holdsKey  clients that received the vault key                         *)
(* Primary                                                                 *)
(*   nonces    used_nonces                                                 *)
(*   lock      config.guardian_rtmr3 and config.backup_rtmr3               *)
(*   row       the client's row in guardians or backup_agents: the image   *)
(*             it was registered with and the attempt whose keys it holds  *)
(*   handlers  requests being served, by the await they are suspended at   *)
(*             and the PCCS endpoint that is asked next                      *)
(* net         requests and answers in flight                              *)
(***************************************************************************)
EXTENDS Naturals, FiniteSets

CONSTANTS
  Guardian, Backup,
  Image,             \* RTMR3 measurements
  ImageOf,           \* what the attestation service says of a client
  Approved,          \* config.guardianApprovedRtmr3
  Endpoints,         \* how many endpoints config.pccsEndpoints lists
  Hanging,           \* those of them that accept a request and never answer
  MaxAttempts,       \* bound on attempts (10 per run of a client in the code)
  MaxFaults,         \* bound on timeouts, failures, duplicates, restarts
  None

Client == Guardian \cup Backup
RoleOf(c) == IF c \in Guardian THEN "guardian" ELSE "backup"

ASSUME AdmissionAssumption ==
  /\ Guardian \cap Backup = {}
  /\ ImageOf \in [Client -> Image]
  /\ Approved \subseteq Image
  /\ Endpoints \in Nat \ {0} /\ Hanging \subseteq 1 .. Endpoints
  /\ MaxAttempts \in Nat /\ MaxFaults \in Nat
  /\ None \notin Image \cup [image : Image, attempt : Nat]

VARIABLES state, attempt, holdsKey, nonces, lock, row, handlers, net, faults

clientVars == <<state, attempt, holdsKey>>
primaryVars == <<nonces, lock, row, handlers>>
vars == <<clientVars, primaryVars, net, faults>>

Nonce == [client : Client, attempt : Nat]
Handler == [nonce : Nonce, step : {"quote", "verify", "session", "sign"},
            endpoint : 1 .. Endpoints]
Message == [type : {"request", "accepted", "key", "rejected", "mismatch"}, nonce : Nonce]
Row == [image : Image, attempt : Nat]

TypeOK ==
  /\ state \in [Client -> {"idle", "waiting", "admitted", "refused"}]
  /\ attempt \in [Client -> 0 .. MaxAttempts]
  /\ holdsKey \subseteq Client
  /\ nonces \subseteq Nonce
  /\ lock \in [{"guardian", "backup"} -> Image \cup {None}]
  /\ row \in [Client -> Row \cup {None}]
  /\ handlers \subseteq Handler
  /\ net \subseteq Message
  /\ faults \in 0 .. MaxFaults

\* A primary that has a list may keep an image it locked before it had one.
Init ==
  /\ state = [c \in Client |-> "idle"]
  /\ attempt = [c \in Client |-> 0]
  /\ holdsKey = {}
  /\ nonces = {}
  /\ \E i \in IF Approved = {} THEN {None} ELSE Image \cup {None} :
       lock = [r \in {"guardian", "backup"} |-> IF r = "guardian" THEN i ELSE None]
  /\ row = [c \in Client |-> None]
  /\ handlers = {}
  /\ net = {}
  /\ faults = 0

Fault == faults < MaxFaults /\ faults' = faults + 1

Msg(t, n) == [type |-> t, nonce |-> n]
\* The nonce of the attempt c is at.
Current(c) == [client |-> c, attempt |-> attempt[c]]

-----------------------------------------------------------------------------
(* A client: initiateAdmission, initiateBackupAdmission.                   *)

\* Mutant: the loop counts its retries from one too few.
RequestOnceMore(c) ==
  /\ state[c] = "idle" /\ attempt[c] <= MaxAttempts
  /\ state' = [state EXCEPT ![c] = "waiting"]
  /\ attempt' = [attempt EXCEPT ![c] = @ + 1]
  /\ net' = net \cup {Msg("request", [client |-> c, attempt |-> attempt[c] + 1])}
  /\ UNCHANGED <<holdsKey, primaryVars, faults>>

\* Every attempt has a new key pair, nonce and timestamp.
Request(c) ==
  /\ state[c] = "idle" /\ attempt[c] < MaxAttempts
  /\ state' = [state EXCEPT ![c] = "waiting"]
  /\ attempt' = [attempt EXCEPT ![c] = @ + 1]
  /\ net' = net \cup {Msg("request", [client |-> c, attempt |-> attempt[c] + 1])}
  /\ UNCHANGED <<holdsKey, primaryVars, faults>>

\* Mutant: every refusal is a hard one.
AnsweredForGood(m) ==
  LET c == m.nonce.client IN
  /\ state[c] = "waiting" /\ m.nonce = Current(c) /\ m.type # "request"
  /\ net' = net \ {m}
  /\ state' = [state EXCEPT ![c] =
       IF m.type \in {"accepted", "key"} THEN "admitted" ELSE "refused"]
  /\ holdsKey' = IF m.type = "key" THEN holdsKey \cup {c} ELSE holdsKey
  /\ UNCHANGED <<attempt, primaryVars, faults>>

\* "rtmr3_mismatch" is final; every other refusal is retried.
Answered(m) ==
  LET c == m.nonce.client IN
  /\ state[c] = "waiting" /\ m.nonce = Current(c) /\ m.type # "request"
  /\ net' = net \ {m}
  /\ state' = [state EXCEPT ![c] =
       CASE m.type \in {"accepted", "key"} -> "admitted"
         [] m.type = "mismatch" -> "refused"
         [] OTHER -> "idle"]
  /\ holdsKey' = IF m.type = "key" THEN holdsKey \cup {c} ELSE holdsKey
  /\ UNCHANGED <<attempt, primaryVars, faults>>

\* 10 s passed.  The request may still be served; its answer is not read.
RequestTimeout(c) ==
  /\ state[c] = "waiting" /\ Fault
  /\ state' = [state EXCEPT ![c] = "idle"]
  /\ net' = {m \in net : m.nonce = Current(c) => m.type = "request"}
  /\ UNCHANGED <<attempt, holdsKey, primaryVars>>

\* A restarted client asks again, from the beginning.
ClientRestart(c) ==
  /\ state[c] \in {"admitted", "refused"} /\ Fault
  /\ state' = [state EXCEPT ![c] = "idle"]
  /\ holdsKey' = holdsKey \ {c}
  /\ UNCHANGED <<attempt, primaryVars, net>>

-----------------------------------------------------------------------------
(* The primary: handleAdmissionRequest.                                    *)

\* The answer is written to a connection that only the current attempt of a
\* waiting client keeps open.
Answer(t, n) ==
  IF state[n.client] = "waiting" /\ n = Current(n.client) THEN {Msg(t, n)} ELSE {}

\* A request may be delivered twice.
Taken(m) ==
  \/ net' = net \ {m} /\ UNCHANGED faults
  \/ UNCHANGED net /\ Fault

NewHandler(n) == [nonce |-> n, step |-> "quote", endpoint |-> 1]

\* Mutant: the nonce is looked up now and stored with the row.
ReceivedUnstored(m) ==
  /\ m.type = "request" /\ m.nonce \notin nonces
  /\ Taken(m)
  /\ handlers' = handlers \cup {NewHandler(m.nonce)}
  /\ UNCHANGED <<clientVars, nonces, lock, row>>

\* A new nonce is stored at once; then the client's quote is fetched.
Received(m) ==
  /\ m.type = "request" /\ m.nonce \notin nonces
  /\ Taken(m)
  /\ nonces' = nonces \cup {m.nonce}
  /\ handlers' = handlers \cup {NewHandler(m.nonce)}
  /\ UNCHANGED <<clientVars, lock, row>>

\* "replay", or "stale_timestamp" for a request that was 60 s on its way.
ReceivedRejected(m) ==
  /\ m.type = "request"
  /\ m.nonce \in nonces \/ m.nonce # Current(m.nonce.client)
  /\ nonces' = nonces \cup {m.nonce}
  /\ net' = (net \ {m}) \cup Answer("rejected", m.nonce)
  /\ UNCHANGED <<clientVars, lock, row, handlers, faults>>

\* The images a client of this role may have; the first one sets the lock.
Allowed(r) ==
  IF r = "guardian" /\ Approved # {} THEN Approved \cup ({lock[r]} \ {None})
  ELSE IF lock[r] = None THEN Image ELSE {lock[r]}

Resume(h, s) == handlers' = (handlers \ {h}) \cup {[h EXCEPT !.step = s]}

QuoteFetched(h) ==
  /\ h.step = "quote"
  /\ Resume(h, "verify")
  /\ UNCHANGED <<clientVars, nonces, lock, row, net, faults>>

\* The client does not serve its quote.
QuoteFails(h) ==
  /\ h.step = "quote" /\ Fault
  /\ handlers' = handlers \ {h}
  /\ net' = net \cup Answer("rejected", h.nonce)
  /\ UNCHANGED <<clientVars, nonces, lock, row>>

\* verifyWithPccs goes on to the next endpoint.
GoesOn(h) ==
  /\ h.endpoint < Endpoints
  /\ handlers' = (handlers \ {h}) \cup {[h EXCEPT !.endpoint = @ + 1]}

\* It was the last one.
Exhausted(h) == h.endpoint = Endpoints /\ handlers' = handlers \ {h}

\* An endpoint is down or its answer is of no use.
EndpointFails(h) ==
  /\ h.step = "verify" /\ h.endpoint \notin Hanging /\ Fault
  /\ \/ GoesOn(h) /\ UNCHANGED net
     \/ Exhausted(h) /\ net' = net \cup Answer("rejected", h.nonce)
  /\ UNCHANGED <<clientVars, nonces, lock, row>>

\* It is given up after 10 s; the client, whose 10 s began earlier, has given
\* up the attempt by then.
EndpointHangs(h) ==
  /\ h.step = "verify" /\ h.endpoint \in Hanging
  /\ GoesOn(h) \/ Exhausted(h)
  /\ state' = IF h.nonce = Current(h.nonce.client) /\ state[h.nonce.client] = "waiting"
              THEN [state EXCEPT ![h.nonce.client] = "idle"] ELSE state
  /\ net' = {m \in net : m.nonce = h.nonce => m.type = "request"}
  /\ UNCHANGED <<attempt, holdsKey, nonces, lock, row, faults>>

\* The endpoint that is asked answers.
Verified(h) == h.step = "verify" /\ h.endpoint \notin Hanging

\* Mutant: the first client of a role does not set the lock.
AttestedUnlocked(h) ==
  /\ Verified(h)
  /\ ImageOf[h.nonce.client] \in Allowed(RoleOf(h.nonce.client))
  /\ Resume(h, "session")
  /\ UNCHANGED <<clientVars, nonces, lock, row, net, faults>>

\* The quote is valid and the image passes: the lock is read and set at one
\* instant, after the await.
Attested(h) ==
  LET c == h.nonce.client
      r == RoleOf(c)
  IN
  /\ Verified(h) /\ ImageOf[c] \in Allowed(r)
  /\ lock' = IF lock[r] = None /\ (r = "guardian" => Approved = {})
             THEN [lock EXCEPT ![r] = ImageOf[c]] ELSE lock
  /\ Resume(h, "session")
  /\ UNCHANGED <<clientVars, nonces, row, net, faults>>

AttestedMismatch(h) ==
  LET c == h.nonce.client IN
  /\ Verified(h) /\ ImageOf[c] \notin Allowed(RoleOf(c))
  /\ handlers' = handlers \ {h}
  /\ net' = net \cup Answer("mismatch", h.nonce)
  /\ UNCHANGED <<clientVars, nonces, lock, row, faults>>

\* Mutant: the key is wrapped before the row is written.
RegisteredLate(h) ==
  /\ h.step = "session"
  /\ handlers' = handlers \ {h}
  /\ net' = net \cup Answer("key", h.nonce)
  /\ UNCHANGED <<clientVars, nonces, lock, row, faults>>

\* The key session is there: the row is written, whatever attempt it was
\* written by before.  A backup is answered; for a guardian the key is
\* wrapped and the snapshot signed.
Registered(h) ==
  LET c == h.nonce.client IN
  /\ h.step = "session"
  /\ row' = [row EXCEPT ![c] = [image |-> ImageOf[c], attempt |-> h.nonce.attempt]]
  /\ IF c \in Guardian THEN Resume(h, "sign") /\ UNCHANGED net
     ELSE /\ handlers' = handlers \ {h}
          /\ net' = net \cup Answer("accepted", h.nonce)
  /\ UNCHANGED <<clientVars, nonces, lock, faults>>

SnapshotSigned(h) ==
  /\ h.step = "sign"
  /\ handlers' = handlers \ {h}
  /\ net' = net \cup Answer("key", h.nonce)
  /\ UNCHANGED <<clientVars, nonces, lock, row, faults>>

\* The primary's process ends and is started again: its requests end with
\* their connections, the database stays.
PrimaryRestart ==
  /\ handlers # {} /\ Fault
  /\ handlers' = {}
  /\ state' = [c \in Client |-> IF state[c] = "waiting" THEN "idle" ELSE state[c]]
  /\ net' = {}
  /\ UNCHANGED <<attempt, holdsKey, nonces, lock, row>>

-----------------------------------------------------------------------------
Serve(h) ==
  \/ QuoteFetched(h) \/ EndpointHangs(h) \/ Attested(h) \/ AttestedMismatch(h)
  \/ Registered(h) \/ SnapshotSigned(h)

Next ==
  \/ \E c \in Client : Request(c) \/ RequestTimeout(c) \/ ClientRestart(c)
  \/ \E m \in net : Answered(m) \/ Received(m) \/ ReceivedRejected(m)
  \/ \E h \in handlers : Serve(h) \/ QuoteFails(h) \/ EndpointFails(h)
  \/ PrimaryRestart

Spec == Init /\ [][Next]_vars

Fairness ==
  /\ \A c \in Client :
       /\ WF_vars(Request(c))
       /\ WF_vars(\E m \in net : m.nonce = Current(c) /\ Answered(m))
       /\ WF_vars(\E m \in net : m.nonce.client = c /\ (Received(m) \/ ReceivedRejected(m)))
       /\ WF_vars(\E h \in handlers : h.nonce.client = c /\ Serve(h))

FairSpec == Spec /\ Fairness

-----------------------------------------------------------------------------
(* Properties.                                                             *)

\* All rows of a role carry images the operator approved, or the one locked
\* before there was such a list; without a list they carry one and the same
\* image, though admissions of different images are served at the same time
\* and each decides after its own attestation.
OneImagePerRole ==
  \A c \in Client : row[c] # None =>
    IF c \in Guardian /\ Approved # {} THEN row[c].image \in Approved \cup {lock["guardian"]}
    ELSE row[c].image = lock[RoleOf(c)]

\* Whoever holds the vault key, or is about to be sent it, is a guardian the
\* database lists, so it is pinged and pushed to: also when the answer it
\* gets belongs to another attempt than the row does.
KeyHoldersAreListed ==
  /\ \A c \in holdsKey : c \in Guardian /\ row[c] # None
  /\ \A m \in net : m.type = "key" =>
       m.nonce.client \in Guardian /\ row[m.nonce.client] # None

\* One nonce registers at most once, however often its request is delivered
\* while the first delivery is suspended at an await.
NonceServedOnce ==
  /\ \A h, k \in handlers : h.nonce = k.nonce => h = k
  /\ \A h \in handlers : h.step # "sign" =>
       row[h.nonce.client] = None \/ row[h.nonce.client].attempt # h.nonce.attempt

\* A client of the image its role is locked to, or of an approved image, is
\* in the end admitted as long as it has attempts left: lost answers, rejected
\* replays and restarts of the primary are retried, and nothing refuses it for
\* good.
RightImageGetsIn ==
  \A c \in Client :
    <>[](\/ state[c] = "admitted"
         \/ state[c] = "idle" /\ attempt[c] = MaxAttempts
         \/ ImageOf[c] \notin Allowed(RoleOf(c)))

\* Without faults nobody runs out of attempts as long as one endpoint works:
\* "Each endpoint tried in order on failure. Hard failure only if all
\* exhausted."
OneEndpointSuffices ==
  \A c \in Client : ~(state[c] = "idle" /\ attempt[c] = MaxAttempts)

=============================================================================
