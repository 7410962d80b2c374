--------------------------- MODULE AdmissionProofs ---------------------------
(***************************************************************************)
(* Proofs about Admission for any clients, images, endpoints and faults.   *)
(*                                                                         *)
(* None of the three invariants is inductive: each says what the rows and  *)
(* the answers are, and what makes them so was found out before the        *)
(* handler's last awaits.  Screened, Listed and Fresh say what a suspended *)
(* handler knows by the await it is at.                                    *)
(***************************************************************************)
EXTENDS Admission, TLAPS

\* The image of c is one its role may have.
Fits(c) ==
  IF c \in Guardian /\ Approved # {} THEN ImageOf[c] \in Approved \cup {lock["guardian"]}
  ELSE ImageOf[c] = lock[RoleOf(c)]

\* Who was attested fits, and still fits when its row is written: the lock is
\* set once, by the first of its role, and kept as it is beside a list.
Screened ==
  /\ \A h \in handlers : h.step \in {"session", "sign"} => Fits(h.nonce.client)
  /\ OneImagePerRole

\* The key is wrapped for guardians whose row was written.
Listed ==
  /\ \A h \in handlers : h.step = "sign" =>
       h.nonce.client \in Guardian /\ row[h.nonce.client] # None
  /\ KeyHoldersAreListed

\* The nonce of every request that is or was served is stored.
Fresh ==
  /\ \A h \in handlers : h.nonce \in nonces
  /\ \A c \in Client : row[c] # None =>
       [client |-> c, attempt |-> row[c].attempt] \in nonces
  /\ NonceServedOnce

IInv == TypeOK /\ Screened /\ Listed /\ Fresh

-----------------------------------------------------------------------------
(* Helpers of the handler.                                                 *)

\* An answer is at most one message, to the client of the nonce.
LEMMA AnswerIs ==
  ASSUME NEW t, NEW n
  PROVE  \A m \in Answer(t, n) : m = Msg(t, n)
BY DEF Answer

LEMMA AnswerTypes ==
  ASSUME NEW t \in {"accepted", "key", "rejected", "mismatch"}, NEW n \in Nonce
  PROVE  Answer(t, n) \subseteq Message
BY DEF Answer, Msg, Message

LEMMA CurrentTypes ==
  ASSUME TypeOK, NEW c \in Client
  PROVE  Current(c) \in Nonce
BY AdmissionAssumption DEF TypeOK, Current, Nonce

\* A handler moves to its next await and stays the same request.
LEMMA ResumeIs ==
  ASSUME TypeOK, NEW h \in handlers, NEW s \in {"verify", "session", "sign"},
         Resume(h, s)
  PROVE  \E k \in Handler :
           /\ k.nonce = h.nonce /\ k.step = s /\ k.endpoint = h.endpoint
           /\ handlers' = (handlers \ {h}) \cup {k}
<1> DEFINE k == [h EXCEPT !.step = s]
<1>1. k \in Handler /\ k.nonce = h.nonce /\ k.step = s /\ k.endpoint = h.endpoint
  BY DEF TypeOK, Handler
<1> QED BY <1>1 DEF Resume

LEMMA GoesOnIs ==
  ASSUME TypeOK, NEW h \in handlers, GoesOn(h)
  PROVE  \E k \in Handler :
           /\ k.nonce = h.nonce /\ k.step = h.step
           /\ handlers' = (handlers \ {h}) \cup {k}
<1> DEFINE k == [h EXCEPT !.endpoint = @ + 1]
<1>1. h.endpoint + 1 \in 1 .. Endpoints
  BY AdmissionAssumption DEF TypeOK, Handler, GoesOn
<1>2. k \in Handler /\ k.nonce = h.nonce /\ k.step = h.step
  BY <1>1 DEF TypeOK, Handler
<1> QED BY <1>2 DEF GoesOn

-----------------------------------------------------------------------------
(* Types.                                                                  *)

LEMMA ClientTypes ==
  ASSUME TypeOK, NEW c \in Client,
         Request(c) \/ RequestTimeout(c) \/ ClientRestart(c)
  PROVE  TypeOK'
<1>1. CASE Request(c)
  <2>1. attempt[c] + 1 \in 0 .. MaxAttempts
    BY <1>1, AdmissionAssumption DEF TypeOK, Request
  <2>2. Msg("request", [client |-> c, attempt |-> attempt[c] + 1]) \in Message
    BY <2>1 DEF Msg, Message, Nonce
  <2> QED BY <1>1, <2>1, <2>2 DEF TypeOK, Request, primaryVars
<1>2. CASE RequestTimeout(c)
  <2>1. faults' \in 0 .. MaxFaults /\ net' \subseteq Message
    BY <1>2, AdmissionAssumption DEF TypeOK, RequestTimeout, Fault
  <2> QED BY <1>2, <2>1 DEF TypeOK, RequestTimeout, primaryVars
<1>3. CASE ClientRestart(c)
  <2>1. faults' \in 0 .. MaxFaults
    BY <1>3, AdmissionAssumption DEF TypeOK, ClientRestart, Fault
  <2> QED BY <1>3, <2>1 DEF TypeOK, ClientRestart, primaryVars
<1> QED BY <1>1, <1>2, <1>3

LEMMA ReceiptTypes ==
  ASSUME TypeOK, NEW m \in net, Answered(m) \/ Received(m) \/ ReceivedRejected(m)
  PROVE  TypeOK'
<1>1. m.nonce \in Nonce /\ m.nonce.client \in Client
  BY DEF TypeOK, Message, Nonce
<1>2. CASE Answered(m)
  <2>1. state' \in [Client -> {"idle", "waiting", "admitted", "refused"}]
    BY <1>2 DEF TypeOK, Answered
  <2>2. holdsKey' \subseteq Client
    BY <1>1, <1>2 DEF TypeOK, Answered
  <2> QED BY <1>2, <2>1, <2>2 DEF TypeOK, Answered, primaryVars
<1>3. CASE Received(m)
  <2>1. NewHandler(m.nonce) \in Handler
    BY <1>1, AdmissionAssumption DEF NewHandler, Handler
  <2>2. net' \subseteq Message /\ faults' \in 0 .. MaxFaults
    BY <1>3, AdmissionAssumption DEF TypeOK, Received, Taken, Fault
  <2> QED BY <1>1, <1>3, <2>1, <2>2 DEF TypeOK, Received, clientVars
<1>4. CASE ReceivedRejected(m)
  <2>1. Answer("rejected", m.nonce) \subseteq Message
    BY <1>1, AnswerTypes
  <2> QED BY <1>1, <1>4, <2>1 DEF TypeOK, ReceivedRejected, clientVars
<1> QED BY <1>2, <1>3, <1>4

LEMMA ServeTypes ==
  ASSUME TypeOK, NEW h \in handlers,
         Serve(h) \/ QuoteFails(h) \/ EndpointFails(h)
  PROVE  TypeOK'
<1>1. /\ h \in Handler /\ h.nonce \in Nonce
      /\ h.nonce.client \in Client /\ h.nonce.attempt \in Nat
  BY DEF TypeOK, Handler, Nonce
<1>2. \A t \in {"accepted", "key", "rejected", "mismatch"} :
        Answer(t, h.nonce) \subseteq Message
  BY <1>1, AnswerTypes
<1>3. ImageOf[h.nonce.client] \in Image
  BY <1>1, AdmissionAssumption
<1>4. RoleOf(h.nonce.client) \in {"guardian", "backup"}
  BY DEF RoleOf
<1>5. CASE QuoteFetched(h)
  <2>1. Resume(h, "verify")
    BY <1>5 DEF QuoteFetched
  <2>2. handlers' \subseteq Handler
    BY <2>1, ResumeIs DEF TypeOK
  <2> QED BY <1>5, <2>2 DEF TypeOK, QuoteFetched, clientVars
<1>6. CASE QuoteFails(h)
  <2>1. faults' \in 0 .. MaxFaults
    BY <1>6, AdmissionAssumption DEF TypeOK, QuoteFails, Fault
  <2> QED BY <1>2, <1>6, <2>1 DEF TypeOK, QuoteFails, clientVars
<1>7. CASE EndpointFails(h)
  <2>1. faults' \in 0 .. MaxFaults
    BY <1>7, AdmissionAssumption DEF TypeOK, EndpointFails, Fault
  <2>2. handlers' \subseteq Handler /\ net' \subseteq Message
    BY <1>2, <1>7, GoesOnIs DEF TypeOK, EndpointFails, Exhausted
  <2> QED BY <1>7, <2>1, <2>2 DEF TypeOK, EndpointFails, clientVars
<1>8. CASE EndpointHangs(h)
  <2>1. handlers' \subseteq Handler
    BY <1>8, GoesOnIs DEF TypeOK, EndpointHangs, Exhausted
  <2>2. state' \in [Client -> {"idle", "waiting", "admitted", "refused"}]
    BY <1>1, <1>8 DEF TypeOK, EndpointHangs
  <2> QED BY <1>8, <2>1, <2>2 DEF TypeOK, EndpointHangs
<1>9. CASE Attested(h)
  <2>1. Resume(h, "session")
    BY <1>9 DEF Attested
  <2>2. handlers' \subseteq Handler
    BY <2>1, ResumeIs DEF TypeOK
  <2>3. lock' \in [{"guardian", "backup"} -> Image \cup {None}]
    BY <1>3, <1>9 DEF TypeOK, Attested
  <2> QED BY <1>9, <2>2, <2>3 DEF TypeOK, Attested, clientVars
<1>10. CASE AttestedMismatch(h)
  BY <1>2, <1>10 DEF TypeOK, AttestedMismatch, clientVars
<1>11. CASE Registered(h)
  <2>1. handlers' \subseteq Handler /\ net' \subseteq Message
    BY <1>2, <1>11, ResumeIs DEF TypeOK, Registered
  <2>2. row' \in [Client -> Row \cup {None}]
    BY <1>1, <1>3, <1>11 DEF TypeOK, Registered, Row
  <2> QED BY <1>11, <2>1, <2>2 DEF TypeOK, Registered, clientVars
<1>12. CASE SnapshotSigned(h)
  BY <1>2, <1>12 DEF TypeOK, SnapshotSigned, clientVars
<1> QED BY <1>5, <1>6, <1>7, <1>8, <1>9, <1>10, <1>11, <1>12 DEF Serve

LEMMA TypesKept == TypeOK /\ [Next]_vars => TypeOK'
<1> SUFFICES ASSUME TypeOK, [Next]_vars PROVE TypeOK'
  OBVIOUS
<1>1. CASE \E c \in Client : Request(c) \/ RequestTimeout(c) \/ ClientRestart(c)
  BY <1>1, ClientTypes
<1>2. CASE \E m \in net : Answered(m) \/ Received(m) \/ ReceivedRejected(m)
  BY <1>2, ReceiptTypes
<1>3. CASE \E h \in handlers : Serve(h) \/ QuoteFails(h) \/ EndpointFails(h)
  BY <1>3, ServeTypes
<1>4. CASE PrimaryRestart
  <2>1. faults' \in 0 .. MaxFaults
    BY <1>4, AdmissionAssumption DEF TypeOK, PrimaryRestart, Fault
  <2>2. state' \in [Client -> {"idle", "waiting", "admitted", "refused"}]
    BY <1>4 DEF TypeOK, PrimaryRestart
  <2> QED BY <1>4, <2>1, <2>2 DEF TypeOK, PrimaryRestart
<1>5. CASE UNCHANGED vars
  BY <1>5 DEF TypeOK, vars, clientVars, primaryVars
<1> QED BY <1>1, <1>2, <1>3, <1>4, <1>5 DEF Next

-----------------------------------------------------------------------------
(* What a step leaves alone, and what it does to the handlers.             *)

\* h ends, or goes on as k, the same request.
Becomes(h, k) ==
  /\ k \in Handler /\ k.nonce = h.nonce
  /\ handlers' = handlers \ {h} \/ handlers' = (handlers \ {h}) \cup {k}

\* No key is sent and none is received.
NoKeySent ==
  /\ \A c \in holdsKey' : c \in holdsKey
  /\ \A m \in net' : m.type = "key" => m \in net

\* Before the image is known nothing but nonces is recorded.
LEMMA EarlyIs ==
  ASSUME TypeOK, NEW h \in handlers,
         \/ QuoteFetched(h) \/ QuoteFails(h) \/ EndpointFails(h)
         \/ EndpointHangs(h) \/ AttestedMismatch(h)
  PROVE  /\ UNCHANGED <<nonces, lock, row>>
         /\ NoKeySent
         /\ \E k : Becomes(h, k) /\ k.step = "verify"
<1>1. UNCHANGED <<nonces, lock, row>>
  BY DEF QuoteFetched, QuoteFails, EndpointFails, EndpointHangs, AttestedMismatch
<1>2. NoKeySent
  <2>1. holdsKey' = holdsKey
    BY DEF QuoteFetched, QuoteFails, EndpointFails, EndpointHangs,
       AttestedMismatch, clientVars
  <2>2. \A m \in net' : m \in net \/ m.type \in {"rejected", "mismatch"}
    <3>1. \A t : \A m \in Answer(t, h.nonce) : m.type = t
      BY AnswerIs DEF Msg
    <3>2. CASE QuoteFetched(h) \/ EndpointHangs(h)
      BY <3>2 DEF QuoteFetched, EndpointHangs
    <3>3. CASE QuoteFails(h) \/ EndpointFails(h) \/ AttestedMismatch(h)
      BY <3>1, <3>3 DEF QuoteFails, EndpointFails, AttestedMismatch
    <3> QED BY <3>2, <3>3
  <2> QED BY <2>1, <2>2 DEF NoKeySent
<1>3. \E k : Becomes(h, k) /\ k.step = "verify"
  <2>1. PICK e \in Handler : e.nonce = h.nonce /\ e.step = "verify"
    <3>1. [nonce |-> h.nonce, step |-> "verify", endpoint |-> h.endpoint] \in Handler
      BY DEF TypeOK, Handler
    <3> QED BY <3>1
  <2>2. CASE QuoteFetched(h)
    <3>1. Resume(h, "verify")
      BY <2>2 DEF QuoteFetched
    <3> QED BY <3>1, ResumeIs DEF Becomes
  <2>3. CASE QuoteFails(h) \/ AttestedMismatch(h)
    BY <2>1, <2>3 DEF QuoteFails, AttestedMismatch, Becomes
  <2>4. CASE EndpointFails(h) \/ EndpointHangs(h)
    <3>1. h.step = "verify" /\ (GoesOn(h) \/ Exhausted(h))
      BY <2>4 DEF EndpointFails, EndpointHangs
    <3>2. CASE GoesOn(h)
      BY <3>1, <3>2, GoesOnIs DEF Becomes
    <3>3. CASE Exhausted(h)
      BY <2>1, <3>3 DEF Exhausted, Becomes
    <3> QED BY <3>1, <3>2, <3>3
  <2> QED BY <2>2, <2>3, <2>4
<1> QED BY <1>1, <1>2, <1>3

LEMMA AttestedIs ==
  ASSUME TypeOK, NEW h \in handlers, Attested(h)
  PROVE  /\ UNCHANGED <<nonces, row>>
         /\ NoKeySent
         /\ \E k : Becomes(h, k) /\ k.step = "session"
<1>1. Resume(h, "session")
  BY DEF Attested
<1>2. \E k : Becomes(h, k) /\ k.step = "session"
  BY <1>1, ResumeIs DEF Becomes
<1> QED BY <1>2 DEF Attested, NoKeySent, clientVars

LEMMA RegisteredIs ==
  ASSUME TypeOK, NEW h \in handlers, Registered(h)
  PROVE  /\ UNCHANGED <<nonces, lock>>
         /\ NoKeySent
         /\ \E k : Becomes(h, k) /\ k.step = "sign"
         /\ h.nonce.client \notin Guardian => handlers' \subseteq handlers
<1>1. NoKeySent
  BY AnswerIs DEF Registered, NoKeySent, Msg, clientVars
<1>2. CASE h.nonce.client \in Guardian
  <2>1. Resume(h, "sign")
    BY <1>2 DEF Registered
  <2> QED BY <1>1, <1>2, <2>1, ResumeIs DEF Becomes, Registered
<1>3. CASE h.nonce.client \notin Guardian
  <2>1. PICK k \in Handler : k.nonce = h.nonce /\ k.step = "sign"
    <3>1. [nonce |-> h.nonce, step |-> "sign", endpoint |-> h.endpoint] \in Handler
      BY DEF TypeOK, Handler
    <3> QED BY <3>1
  <2>2. handlers' = handlers \ {h}
    BY <1>3 DEF Registered
  <2> QED BY <1>1, <2>1, <2>2 DEF Becomes, Registered
<1> QED BY <1>2, <1>3

\* Every other step: at most a new request is taken, with a new nonce.
Outside ==
  \/ \E c \in Client : Request(c) \/ RequestTimeout(c) \/ ClientRestart(c)
  \/ \E m \in net : Answered(m) \/ Received(m) \/ ReceivedRejected(m)
  \/ PrimaryRestart \/ UNCHANGED vars

LEMMA OutsideIs ==
  ASSUME TypeOK, Outside
  PROVE  /\ UNCHANGED <<lock, row>>
         /\ nonces \subseteq nonces'
         /\ \/ handlers' \subseteq handlers
            \/ \E k : /\ k.step = "quote" /\ k.nonce \in nonces' \ nonces
                      /\ handlers' = handlers \cup {k}
<1>1. CASE \E c \in Client : Request(c) \/ RequestTimeout(c) \/ ClientRestart(c)
  BY <1>1 DEF Request, RequestTimeout, ClientRestart, primaryVars
<1>2. CASE \E m \in net : Answered(m) \/ ReceivedRejected(m)
  BY <1>2 DEF Answered, ReceivedRejected, primaryVars
<1>3. CASE \E m \in net : Received(m)
  BY <1>3 DEF Received, NewHandler
<1>4. CASE PrimaryRestart \/ UNCHANGED vars
  BY <1>4 DEF PrimaryRestart, vars, primaryVars
<1> QED BY <1>1, <1>2, <1>3, <1>4 DEF Outside

\* The key is only received where it was sent.
LEMMA OutsideKeys ==
  ASSUME TypeOK, Outside
  PROVE  /\ \A c \in holdsKey' :
              c \in holdsKey
              \/ \E m \in net : m.type = "key" /\ m.nonce.client = c
         /\ \A m \in net' : m.type = "key" => m \in net
<1>1. CASE \E c \in Client : Request(c) \/ RequestTimeout(c) \/ ClientRestart(c)
  BY <1>1 DEF Request, RequestTimeout, ClientRestart, Msg
<1>2. CASE \E m \in net : Answered(m) \/ Received(m) \/ ReceivedRejected(m)
  BY <1>2, AnswerIs
     DEF Answered, Received, ReceivedRejected, Taken, Msg, clientVars
<1>3. CASE PrimaryRestart \/ UNCHANGED vars
  BY <1>3 DEF PrimaryRestart, vars, clientVars
<1> QED BY <1>1, <1>2, <1>3 DEF Outside

LEMMA NextIs ==
  [Next]_vars =>
    Outside \/ \E h \in handlers :
      \/ QuoteFetched(h) \/ QuoteFails(h) \/ EndpointFails(h)
         \/ EndpointHangs(h) \/ AttestedMismatch(h)
      \/ Attested(h) \/ Registered(h) \/ SnapshotSigned(h)
BY DEF Next, Outside, Serve

-----------------------------------------------------------------------------
(* One image per role.                                                     *)

\* Nothing changes for who fits when the lock is not touched.
LEMMA ScreenedStays ==
  ASSUME Screened, UNCHANGED <<lock, row>>,
         \A k \in handlers' : k.step \in {"session", "sign"} => k \in handlers
  PROVE  Screened'
BY DEF Screened, OneImagePerRole, Fits

LEMMA ScreenedKept ==
  ASSUME TypeOK, Screened, [Next]_vars
  PROVE  Screened'
<1>1. CASE Outside
  <2>1. \A k \in handlers' : k.step \in {"session", "sign"} => k \in handlers
    BY <1>1, OutsideIs
  <2> QED BY <1>1, <2>1, OutsideIs, ScreenedStays
<1>2. ASSUME NEW h \in handlers,
             \/ QuoteFetched(h) \/ QuoteFails(h) \/ EndpointFails(h)
             \/ EndpointHangs(h) \/ AttestedMismatch(h)
      PROVE  Screened'
  <2>1. \A k \in handlers' : k.step \in {"session", "sign"} => k \in handlers
    BY <1>2, EarlyIs DEF Becomes
  <2> QED BY <1>2, <2>1, EarlyIs, ScreenedStays
<1>3. ASSUME NEW h \in handlers, Attested(h)
      PROVE  Screened'
  <2> DEFINE c == h.nonce.client
             r == RoleOf(c)
  <2>1. /\ c \in Client /\ ImageOf[c] \in Image /\ None \notin Image
        /\ r \in {"guardian", "backup"}
    BY AdmissionAssumption DEF TypeOK, Handler, Nonce, RoleOf
  <2>2. ImageOf[c] \in Allowed(r)
    BY <1>3 DEF Attested
  <2>3. Approved # {} => lock'["guardian"] = lock["guardian"]
    BY <1>3 DEF Attested, Screened, TypeOK
  <2>4. Fits(c)'
    BY <1>3, <2>1, <2>2 DEF Attested, Allowed, Fits, RoleOf, TypeOK, Screened
  \* A lock that was set stays, and one that was not had no rows or handlers.
  <2>5. \A d \in Client : Fits(d) => Fits(d)'
    <3>1. SUFFICES ASSUME NEW d \in Client, Fits(d) PROVE Fits(d)'
      OBVIOUS
    <3>2. RoleOf(d) \in {"guardian", "backup"} /\ ImageOf[d] # None
      BY AdmissionAssumption DEF RoleOf
    <3>3. lock[RoleOf(d)] # None => lock'[RoleOf(d)] = lock[RoleOf(d)]
      BY <1>3, <3>2 DEF Attested, TypeOK
    <3> QED BY <2>3, <3>1, <3>2, <3>3 DEF Fits
  <2>6. \A k \in handlers' :
          k.step \in {"session", "sign"} => Fits(k.nonce.client)'
    <3>1. \A k \in handlers' : k \in handlers \/ k.nonce = h.nonce
      BY <1>3, AttestedIs DEF Becomes
    <3>2. \A k \in handlers : k.nonce.client \in Client
      BY DEF TypeOK, Handler, Nonce
    <3> QED BY <2>4, <2>5, <3>1, <3>2 DEF Screened
  <2>7. OneImagePerRole'
    <3>1. SUFFICES ASSUME NEW d \in Client, row[d] # None,
                          ~(d \in Guardian /\ Approved # {})
                   PROVE  row[d].image = lock'[RoleOf(d)]
      BY <1>3, <2>3, AttestedIs DEF OneImagePerRole, Screened
    <3>2. row[d].image = lock[RoleOf(d)] /\ row[d].image # None
      BY <3>1, AdmissionAssumption DEF OneImagePerRole, Screened, TypeOK, Row
    <3>3. RoleOf(d) \in {"guardian", "backup"}
      BY DEF RoleOf
    <3> QED BY <1>3, <3>2, <3>3 DEF Attested, TypeOK
  <2> QED BY <2>6, <2>7 DEF Screened
<1>4. ASSUME NEW h \in handlers, Registered(h)
      PROVE  Screened'
  <2> DEFINE c == h.nonce.client
  <2>1. Fits(c) /\ c \in Client
    BY <1>4 DEF Registered, Screened, TypeOK, Handler, Nonce
  <2>2. \A k \in handlers' : k \in handlers \/ k.nonce = h.nonce
    BY <1>4, RegisteredIs DEF Becomes
  <2>3. lock' = lock
    BY <1>4, RegisteredIs
  <2>4. \A k \in handlers' :
          k.step \in {"session", "sign"} => Fits(k.nonce.client)'
    BY <2>1, <2>2, <2>3 DEF Screened, Fits
  <2>5. OneImagePerRole'
    BY <1>4, <2>1, <2>3 DEF Registered, OneImagePerRole, Screened, Fits, TypeOK
  <2> QED BY <2>4, <2>5 DEF Screened
<1>5. ASSUME NEW h \in handlers, SnapshotSigned(h)
      PROVE  Screened'
  BY <1>5, ScreenedStays DEF SnapshotSigned
<1> QED BY <1>1, <1>2, <1>3, <1>4, <1>5, NextIs

-----------------------------------------------------------------------------
(* Whoever holds the key is listed.                                        *)

LEMMA ListedStays ==
  ASSUME Listed, NoKeySent, UNCHANGED row,
         \A k \in handlers' : k.step = "sign" => k \in handlers
  PROVE  Listed'
BY DEF Listed, KeyHoldersAreListed, NoKeySent

LEMMA ListedKept ==
  ASSUME TypeOK, Listed, [Next]_vars
  PROVE  Listed'
<1>1. CASE Outside
  <2>1. \A k \in handlers' : k.step = "sign" => k \in handlers
    BY <1>1, OutsideIs
  <2> QED BY <1>1, <2>1, OutsideIs, OutsideKeys DEF Listed, KeyHoldersAreListed
<1>2. ASSUME NEW h \in handlers,
             \/ QuoteFetched(h) \/ QuoteFails(h) \/ EndpointFails(h)
             \/ EndpointHangs(h) \/ AttestedMismatch(h)
      PROVE  Listed'
  <2>1. \A k \in handlers' : k.step = "sign" => k \in handlers
    BY <1>2, EarlyIs DEF Becomes
  <2> QED BY <1>2, <2>1, EarlyIs, ListedStays
<1>3. ASSUME NEW h \in handlers, Attested(h)
      PROVE  Listed'
  <2>1. \A k \in handlers' : k.step = "sign" => k \in handlers
    BY <1>3, AttestedIs DEF Becomes
  <2> QED BY <1>3, <2>1, AttestedIs, ListedStays
<1>4. ASSUME NEW h \in handlers, Registered(h)
      PROVE  Listed'
  <2>1. h.nonce.client \in Client /\ row'[h.nonce.client] # None
    <3>1. /\ h.nonce.client \in Client /\ h.nonce.attempt \in Nat
          /\ ImageOf[h.nonce.client] \in Image
      BY AdmissionAssumption DEF TypeOK, Handler, Nonce
    <3>2. row'[h.nonce.client] =
            [image |-> ImageOf[h.nonce.client], attempt |-> h.nonce.attempt]
      BY <1>4, <3>1 DEF Registered, TypeOK
    <3> QED BY <3>1, <3>2, AdmissionAssumption
  <2>2. \A d \in Client : row[d] # None => row'[d] # None
    BY <1>4, <2>1 DEF Registered, TypeOK
  <2>3. \A k \in handlers' : k.step = "sign" =>
          k \in handlers \/ (k.nonce = h.nonce /\ h.nonce.client \in Guardian)
    BY <1>4, RegisteredIs DEF Becomes
  <2>4. \A k \in handlers : k.nonce.client \in Client
    BY DEF TypeOK, Handler, Nonce
  <2>5. \A m \in net : m.nonce.client \in Client
    BY DEF TypeOK, Message, Nonce
  <2>6. NoKeySent
    BY <1>4, RegisteredIs
  <2> QED BY <2>1, <2>2, <2>3, <2>4, <2>5, <2>6
          DEF Listed, KeyHoldersAreListed, NoKeySent, TypeOK, Client
<1>5. ASSUME NEW h \in handlers, SnapshotSigned(h)
      PROVE  Listed'
  <2>1. h.nonce.client \in Guardian /\ row[h.nonce.client] # None
    BY <1>5 DEF SnapshotSigned, Listed
  <2>2. \A m \in net' : m \in net \/ m.nonce = h.nonce
    BY <1>5, AnswerIs DEF SnapshotSigned, Msg
  <2>3. holdsKey' = holdsKey /\ row' = row /\ handlers' \subseteq handlers
    BY <1>5 DEF SnapshotSigned, clientVars
  <2> QED BY <2>1, <2>2, <2>3 DEF Listed, KeyHoldersAreListed
<1> QED BY <1>1, <1>2, <1>3, <1>4, <1>5, NextIs

-----------------------------------------------------------------------------
(* One nonce registers at most once.                                       *)

LEMMA FreshStays ==
  ASSUME TypeOK, Fresh, NEW h \in handlers, NEW k, Becomes(h, k),
         h.step # "sign", UNCHANGED <<nonces, row>>
  PROVE  Fresh'
<1>1. \A j \in handlers' : j \in handlers \ {h} \/ j = k
  BY DEF Becomes
<1>2. \A j \in handlers' : j.nonce \in nonces'
  BY <1>1 DEF Fresh, Becomes
<1>3. \A i, j \in handlers' : i.nonce = j.nonce => i = j
  BY <1>1 DEF Fresh, NonceServedOnce, Becomes
<1>4. \A j \in handlers' : j.step # "sign" =>
        row[j.nonce.client] = None \/ row[j.nonce.client].attempt # j.nonce.attempt
  BY <1>1 DEF Fresh, NonceServedOnce, Becomes
<1> QED BY <1>2, <1>3, <1>4 DEF Fresh, NonceServedOnce

LEMMA FreshKept ==
  ASSUME TypeOK, Fresh, [Next]_vars
  PROVE  Fresh'
<1>1. CASE Outside
  <2>1. CASE handlers' \subseteq handlers
    BY <1>1, <2>1, OutsideIs DEF Fresh, NonceServedOnce
  <2>2. ASSUME NEW k, k.step = "quote", k.nonce \in nonces' \ nonces,
               handlers' = handlers \cup {k}
        PROVE  Fresh'
    <3>1. UNCHANGED row /\ nonces \subseteq nonces'
      BY <1>1, OutsideIs
    <3>2. k \in Handler /\ k.nonce.client \in Client
          /\ k.nonce = [client |-> k.nonce.client, attempt |-> k.nonce.attempt]
      <4>1. TypeOK'
        BY TypesKept
      <4> QED BY <2>2, <4>1 DEF TypeOK, Handler, Nonce
    <3>3. row[k.nonce.client] = None
          \/ row[k.nonce.client].attempt # k.nonce.attempt
      BY <2>2, <3>2 DEF Fresh
    <3> QED BY <2>2, <3>1, <3>3 DEF Fresh, NonceServedOnce
  <2> QED BY <1>1, <2>1, <2>2, OutsideIs
<1>2. ASSUME NEW h \in handlers,
             \/ QuoteFetched(h) \/ QuoteFails(h) \/ EndpointFails(h)
             \/ EndpointHangs(h) \/ AttestedMismatch(h)
      PROVE  Fresh'
  <2>1. h.step # "sign"
    BY <1>2 DEF QuoteFetched, QuoteFails, EndpointFails, EndpointHangs,
       AttestedMismatch, Verified
  <2> QED BY <1>2, <2>1, EarlyIs, FreshStays
<1>3. ASSUME NEW h \in handlers, Attested(h)
      PROVE  Fresh'
  <2>1. h.step # "sign"
    BY <1>3 DEF Attested, Verified
  <2> QED BY <1>3, <2>1, AttestedIs, FreshStays
<1>4. ASSUME NEW h \in handlers, Registered(h)
      PROVE  Fresh'
  <2> DEFINE c == h.nonce.client
  <2>1. /\ c \in Client
        /\ h.nonce = [client |-> c, attempt |-> h.nonce.attempt]
    BY DEF TypeOK, Handler, Nonce
  <2>2. /\ row'[c] = [image |-> ImageOf[c], attempt |-> h.nonce.attempt]
        /\ \A d \in Client : d # c => row'[d] = row[d]
    BY <1>4, <2>1 DEF Registered, TypeOK
  <2>3. PICK k : Becomes(h, k) /\ k.step = "sign"
    BY <1>4, RegisteredIs
  <2>4. nonces' = nonces
    BY <1>4, RegisteredIs
  <2>5. \A j \in handlers' : (j \in handlers /\ j # h) \/ j = k
    BY <2>3 DEF Becomes
  <2>6. \A j \in handlers' : j.nonce \in nonces'
    BY <2>3, <2>4, <2>5 DEF Fresh, Becomes
  <2>7. \A d \in Client : row'[d] # None =>
          [client |-> d, attempt |-> row'[d].attempt] \in nonces'
    BY <2>1, <2>2, <2>4 DEF Fresh
  <2>8. \A i, j \in handlers' : i.nonce = j.nonce => i = j
    BY <2>3, <2>5 DEF Fresh, NonceServedOnce, Becomes
  <2>9. ASSUME NEW j \in handlers', j.step # "sign",
               row'[j.nonce.client] # None,
               row'[j.nonce.client].attempt = j.nonce.attempt
        PROVE  FALSE
    <3>1. j \in handlers /\ j # h
      BY <2>3, <2>5, <2>9
    <3>2. j.nonce.client \in Client
          /\ j.nonce = [client |-> j.nonce.client, attempt |-> j.nonce.attempt]
      BY <3>1 DEF TypeOK, Handler, Nonce
    <3>3. j.nonce # h.nonce
      BY <3>1 DEF Fresh, NonceServedOnce
    <3>4. CASE j.nonce.client = c
      BY <2>1, <2>2, <2>9, <3>2, <3>3, <3>4
    <3>5. CASE j.nonce.client # c
      BY <2>2, <2>9, <3>1, <3>2, <3>5 DEF Fresh, NonceServedOnce
    <3> QED BY <3>4, <3>5
  <2> QED BY <2>6, <2>7, <2>8, <2>9 DEF Fresh, NonceServedOnce
<1>5. ASSUME NEW h \in handlers, SnapshotSigned(h)
      PROVE  Fresh'
  BY <1>5 DEF SnapshotSigned, Fresh, NonceServedOnce
<1> QED BY <1>1, <1>2, <1>3, <1>4, <1>5, NextIs

-----------------------------------------------------------------------------
(* The specification.                                                      *)

LEMMA InvHolds == Spec => []IInv
<1>1. Init => IInv
  BY AdmissionAssumption
     DEF Init, IInv, TypeOK, Screened, OneImagePerRole, Listed,
         KeyHoldersAreListed, Fresh, NonceServedOnce
<1>2. IInv /\ [Next]_vars => IInv'
  BY TypesKept, ScreenedKept, ListedKept, FreshKept DEF IInv
<1> QED BY <1>1, <1>2, PTL DEF Spec

\* Every variable of the admission service and its clients keeps its type.
THEOREM TypeCorrect == Spec => []TypeOK
<1>1. IInv => TypeOK
  BY DEF IInv
<1> QED BY <1>1, InvHolds, PTL

\* OneImagePerRole: handlers that decide after their own await, however many
\* run at once, never register two images for a role.
THEOREM OneImagePerRoleHolds == Spec => []OneImagePerRole
<1>1. IInv => OneImagePerRole
  BY DEF IInv, Screened
<1> QED BY <1>1, InvHolds, PTL

\* KeyHoldersAreListed: the key never goes to who is no guardian with a row.
THEOREM KeyHoldersAreListedHolds == Spec => []KeyHoldersAreListed
<1>1. IInv => KeyHoldersAreListed
  BY DEF IInv, Listed
<1> QED BY <1>1, InvHolds, PTL

\* NonceServedOnce: a request delivered again registers nothing again.
THEOREM NonceServedOnceHolds == Spec => []NonceServedOnce
<1>1. IInv => NonceServedOnce
  BY DEF IInv, Fresh
<1> QED BY <1>1, InvHolds, PTL

=============================================================================
