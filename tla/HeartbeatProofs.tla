--------------------------- MODULE HeartbeatProofs ---------------------------
(***************************************************************************)
(* Proofs about Heartbeat for any backups, guardians, intervals and        *)
(* thresholds.                                                             *)
(*                                                                         *)
(* Timeout < Interval makes the rounds follow one another (OneRound); each *)
(* property then needs what it compares while a round is under way:        *)
(* Backed for the streaks, Overdue for a living primary and Silent for a   *)
(* dead one.                                                               *)
(***************************************************************************)
EXTENDS Heartbeat, TLAPS

\* A round is over when the next one starts, and pings the registered only.
OneRound ==
  /\ \A q, r \in rounds : q = r
  /\ \A r \in rounds : \A p \in Participant :
       r.result[p] = "wait" => p \in registered
  /\ alive => \A r \in rounds : r.age + pingIn = Interval

\* What the round will leave as a streak is backed already.
Backed ==
  alive => \A b \in Backup :
    /\ rounds = {} => streak[b] <= inARow[b]
    /\ \A r \in rounds : Counted(r, b) <= inARow[b]

Waits(g) == \E r \in rounds : r.result[g] = "wait"

\* The pings g missed or may still miss, since the last it received.
Owed(g) == IF Waits(g) THEN missed[g] + 1 ELSE missed[g]

\* A ping is received per Interval, or owed.
Overdue ==
  \A g \in Guardian : age[g] # None =>
    /\ g \in registered
    /\ alive /\ missed[g] < Threshold
         => age[g] <= Owed(g) * Interval + (Interval - pingIn)

\* From then on a poll finds the failure.
Certain == Threshold * Interval + Timeout + 1

\* No ping outlives the primary by more than Timeout; a monitor that has no
\* alarm after Certain is yet to poll, within one Interval.
Silent ==
  /\ alive => deadFor = 0
  /\ ~alive => \A r \in rounds : deadFor <= r.age
  /\ \A g \in Guardian : ~alive /\ age[g] # None =>
       /\ deadFor <= age[g] + Timeout \/ age[g] = MaxAge
       /\ deadFor >= Certain =>
            alarm[g] \/ pollIn[g] + (deadFor - Certain) < Interval

IInv == TypeOK /\ OneRound /\ Backed /\ Overdue /\ Silent

-----------------------------------------------------------------------------
(* Helpers.                                                                *)

LEMMA CutOffIs ==
  ASSUME NEW n \in Nat, NEW m \in Nat
  PROVE  CutOff(n, m) \in 0 .. m /\ CutOff(n, m) <= n
         /\ (CutOff(n, m) = n \/ CutOff(n, m) = m)
BY DEF CutOff

LEMMA CutOffNextIs ==
  ASSUME NEW m \in Nat, NEW n \in 0 .. m
  PROVE  CutOff(n + 1, m) \in 0 .. m /\ n <= CutOff(n + 1, m)
BY DEF CutOff

LEMMA CutOffKeepsOrder ==
  ASSUME NEW n \in Nat, NEW k \in Nat, NEW m \in Nat, n <= k
  PROVE  CutOff(n, m) <= CutOff(k, m)
BY DEF CutOff

LEMMA IntervalTypes ==
  /\ Interval \in Nat /\ Timeout \in Nat /\ Timeout < Interval
  /\ Threshold \in Nat /\ Threshold > 0
  /\ Threshold * Interval \in Nat
  /\ MaxAge \in Nat /\ MaxAge = Threshold * Interval + 1
  /\ DetectionBound \in Nat
  /\ DetectionBound = Threshold * Interval + Interval + Timeout
<1>1. /\ Interval \in Nat /\ Timeout \in Nat /\ Timeout < Interval
      /\ Threshold \in Nat /\ Threshold > 0
  BY HeartbeatAssumption
<1>2. Threshold * Interval \in Nat
  BY <1>1
<1>3. (Threshold + 1) * Interval = Threshold * Interval + Interval
  BY <1>1
<1> QED BY <1>1, <1>2, <1>3 DEF MaxAge, DetectionBound

\* Fewer intervals are a shorter time.
LEMMA FewerIntervals ==
  ASSUME NEW m \in Nat, NEW n \in Nat, m <= n
  PROVE  /\ m * Interval \in Nat /\ m * Interval <= n * Interval
         /\ (m + 1) * Interval = m * Interval + Interval
<1>1. Interval \in Nat
  BY IntervalTypes
<1>2. PICK d \in Nat : n = m + d
  <2>1. n - m \in Nat /\ n = m + (n - m)
    OBVIOUS
  <2> QED BY <2>1
<1>3. n * Interval = m * Interval + d * Interval
  BY <1>1, <1>2
<1>4. d * Interval \in Nat /\ m * Interval \in Nat
  BY <1>1
<1>5. (m + 1) * Interval = m * Interval + Interval
  BY <1>1
<1> QED BY <1>3, <1>4, <1>5

\* One participant's result is known.
LEMMA SettleIs ==
  ASSUME NEW r \in Round, NEW p \in Participant, NEW res \in Result
  PROVE  LET s == [r EXCEPT !.result[p] = res] IN
           /\ s \in Round /\ s.age = r.age /\ s.result[p] = res
           /\ \A q \in Participant : q # p => s.result[q] = r.result[q]
BY DEF Round

-----------------------------------------------------------------------------
(* Types.                                                                  *)

LEMMA PingTypes ==
  ASSUME TypeOK, NEW r \in rounds, NEW p \in Participant,
         PingAnswered(r, p) \/ PingMissed(r, p)
  PROVE  TypeOK'
<1>1. MaxStreak \in Nat /\ Threshold \in Nat /\ MaxAge \in Nat
  BY IntervalTypes, HeartbeatAssumption
<1>2. rounds' \subseteq Round
  <2>1. /\ [r EXCEPT !.result[p] = "ok"] \in Round
        /\ [r EXCEPT !.result[p] = "miss"] \in Round
    <3>1. r \in Round /\ "ok" \in Result /\ "miss" \in Result
      BY DEF TypeOK, Result
    <3> QED BY <3>1, SettleIs
  <2> QED BY <2>1 DEF PingAnswered, PingMissed, Settle, TypeOK
<1>3. CASE PingAnswered(r, p)
  <2>1. inARow' \in [Backup -> 0 .. MaxStreak]
    <3>1. CASE p \in Backup
      <4>1. CutOff(inARow[p] + 1, MaxStreak) \in 0 .. MaxStreak
        BY <1>1, <3>1, CutOffNextIs DEF TypeOK
      <4> QED BY <1>3, <3>1, <4>1 DEF PingAnswered, TypeOK
    <3>2. CASE p \notin Backup
      BY <1>3, <3>2 DEF PingAnswered, TypeOK
    <3> QED BY <3>1, <3>2
  <2>2. /\ age' \in [Guardian -> (0 .. MaxAge) \cup {None}]
        /\ missed' \in [Guardian -> 0 .. Threshold]
    BY <1>1, <1>3 DEF PingAnswered, TypeOK
  <2> QED BY <1>2, <1>3, <2>1, <2>2 DEF PingAnswered, TypeOK, databaseVars
<1>4. CASE PingMissed(r, p)
  <2>1. inARow' \in [Backup -> 0 .. MaxStreak]
    BY <1>1, <1>4 DEF PingMissed, TypeOK
  <2>2. missed' \in [Guardian -> 0 .. Threshold]
    <3>1. CASE p \in Guardian /\ p \notin Backup
      <4>1. CutOff(missed[p] + 1, Threshold) \in 0 .. Threshold
        BY <1>1, <3>1, CutOffNextIs DEF TypeOK
      <4> QED BY <1>4, <3>1, <4>1 DEF PingMissed, TypeOK
    <3>2. CASE p \in Backup
      BY <1>4, <3>2 DEF PingMissed, TypeOK
    <3> QED BY <3>1, <3>2 DEF Participant
  <2> QED BY <1>2, <1>4, <2>1, <2>2 DEF PingMissed, TypeOK, databaseVars
<1> QED BY <1>3, <1>4

LEMMA CountedTypes ==
  ASSUME TypeOK, NEW r \in rounds, NEW b \in Backup
  PROVE  Counted(r, b) \in 0 .. MaxStreak
<1>1. streak[b] \in 0 .. MaxStreak /\ MaxStreak \in Nat
  BY HeartbeatAssumption DEF TypeOK
<1> QED BY <1>1, CutOffIs DEF Counted

LEMMA TickTypes ==
  ASSUME TypeOK, Tick
  PROVE  TypeOK'
<1>1. rounds' \subseteq Round
  <2>1. \A r \in rounds : r \in Round /\ r.age < Timeout
    BY DEF Tick, TypeOK
  <2>2. \A r \in rounds : [r EXCEPT !.age = @ + 1] \in Round
    BY <2>1, IntervalTypes DEF Round
  <2> QED BY <2>2 DEF Tick
<1>2. age' \in [Guardian -> (0 .. MaxAge) \cup {None}]
  <2>1. \A g \in Guardian : age[g] # None =>
          CutOff(age[g] + 1, MaxAge) \in 0 .. MaxAge
    <3>1. \A g \in Guardian : age[g] # None => age[g] \in 0 .. MaxAge
      BY DEF TypeOK
    <3> QED BY <3>1, IntervalTypes, CutOffNextIs
  <2> QED BY <2>1 DEF Tick
<1>3. deadFor' \in 0 .. DetectionBound + 1
  <2>1. CutOff(deadFor + 1, DetectionBound + 1) \in 0 .. DetectionBound + 1
    BY IntervalTypes, CutOffIs DEF TypeOK
  <2> QED BY <2>1, IntervalTypes DEF Tick
<1>4. pollIn' \in [Guardian -> 0 .. Interval]
  BY IntervalTypes DEF Tick, TypeOK
<1>5. pingIn' \in 0 .. Interval
  BY IntervalTypes DEF Tick, TypeOK
<1> QED BY <1>1, <1>2, <1>3, <1>4, <1>5 DEF Tick, TypeOK, databaseVars

LEMMA TypesKept ==
  ASSUME TypeOK, [Next]_vars
  PROVE  TypeOK'
<1>1. ASSUME NEW p \in Participant, Admit(p)
      PROVE  TypeOK'
  BY <1>1, HeartbeatAssumption DEF Admit, TypeOK, observed
<1>2. CASE PingAll
  <2>1. [age |-> 0, result |-> [p \in Participant |->
           IF p \in registered THEN "wait" ELSE "none"]] \in Round
    BY IntervalTypes DEF Round, Result
  <2> QED BY <1>2, <2>1, IntervalTypes
          DEF PingAll, TypeOK, databaseVars, observed
<1>3. ASSUME NEW r \in rounds, RoundFinished(r)
      PROVE  TypeOK'
  <2>1. streak' \in [Backup -> 0 .. MaxStreak]
    BY <1>3, CountedTypes DEF RoundFinished, TypeOK
  <2> QED BY <1>3, <2>1 DEF RoundFinished, TypeOK, observed
<1>4. CASE Die
  BY <1>4 DEF Die, TypeOK, databaseVars, observed
<1>5. ASSUME NEW g \in Guardian, Poll(g)
      PROVE  TypeOK'
  BY <1>5, IntervalTypes DEF Poll, TypeOK, LivenessFailure, databaseVars, observed
<1>6. CASE UNCHANGED vars
  BY <1>6 DEF TypeOK, vars, databaseVars, observed
<1> QED BY <1>1, <1>2, <1>3, <1>4, <1>5, <1>6, PingTypes, TickTypes DEF Next

-----------------------------------------------------------------------------
(* Rounds.                                                                 *)

\* A ping settles in the only round, which goes on otherwise as it was.
LEMMA SettledRound ==
  ASSUME TypeOK, OneRound, NEW r \in rounds, NEW p \in Participant,
         PingAnswered(r, p) \/ PingMissed(r, p)
  PROVE  \E s \in Round :
           /\ rounds = {r} /\ rounds' = {s} /\ r.result[p] = "wait"
           /\ s.age = r.age
           /\ s.result[p] = IF PingAnswered(r, p) THEN "ok" ELSE "miss"
           /\ \A q \in Participant : q # p => s.result[q] = r.result[q]
<1> DEFINE res == IF PingAnswered(r, p) THEN "ok" ELSE "miss"
           s == [r EXCEPT !.result[p] = res]
<1>1. r \in Round /\ res \in Result
  BY DEF TypeOK, Result
<1>2. /\ s \in Round /\ s.age = r.age /\ s.result[p] = res
      /\ \A q \in Participant : q # p => s.result[q] = r.result[q]
  BY <1>1, SettleIs
<1>3. rounds = {r}
  BY DEF OneRound
<1>4. rounds' = {s} /\ r.result[p] = "wait"
  BY <1>3 DEF PingAnswered, PingMissed, Settle
<1> QED BY <1>2, <1>3, <1>4

LEMMA NoRoundAtPingAll ==
  ASSUME TypeOK, OneRound, PingAll
  PROVE  rounds = {}
<1>1. \A r \in rounds : r.age \in 0 .. Timeout
  BY DEF TypeOK, Round
<1> QED BY <1>1, IntervalTypes DEF OneRound, PingAll

LEMMA TickRounds ==
  ASSUME TypeOK, Tick
  PROVE  /\ \A r \in rounds : r.age \in Nat /\ r.age < Timeout
         /\ \A s \in rounds' : \E r \in rounds :
              s.age = r.age + 1 /\ s.result = r.result
         /\ \A r \in rounds : \E s \in rounds' : s.result = r.result
<1>1. \A r \in rounds : r \in Round /\ r.age \in Nat /\ r.age < Timeout
  BY IntervalTypes DEF TypeOK, Round, Tick
<1>2. \A r \in rounds : [r EXCEPT !.age = @ + 1].age = r.age + 1
                        /\ [r EXCEPT !.age = @ + 1].result = r.result
  BY <1>1 DEF Round
<1>3. \A s \in rounds' : \E r \in rounds :
        s.age = r.age + 1 /\ s.result = r.result
  BY <1>2 DEF Tick
<1>4. \A r \in rounds : \E s \in rounds' : s.result = r.result
  BY <1>2 DEF Tick
<1> QED BY <1>1, <1>3, <1>4

LEMMA OneRoundKept ==
  ASSUME TypeOK, OneRound, [Next]_vars
  PROVE  OneRound'
<1>1. ASSUME NEW p \in Participant, Admit(p)
      PROVE  OneRound'
  BY <1>1 DEF Admit, OneRound
<1>2. CASE PingAll
  <2>1. rounds = {}
    BY <1>2, NoRoundAtPingAll
  <2> QED BY <1>2, <2>1, IntervalTypes DEF PingAll, OneRound, databaseVars
<1>3. ASSUME NEW r \in rounds, NEW p \in Participant,
             PingAnswered(r, p) \/ PingMissed(r, p)
      PROVE  OneRound'
  <2>1. UNCHANGED <<alive, registered, pingIn>>
    BY <1>3 DEF PingAnswered, PingMissed, databaseVars
  <2> QED BY <1>3, <2>1, SettledRound DEF OneRound
<1>4. ASSUME NEW r \in rounds, RoundFinished(r)
      PROVE  OneRound'
  BY <1>4 DEF RoundFinished, OneRound
<1>5. CASE Die \/ UNCHANGED vars
  BY <1>5 DEF Die, OneRound, vars, databaseVars
<1>6. ASSUME NEW g \in Guardian, Poll(g)
      PROVE  OneRound'
  BY <1>6 DEF Poll, OneRound, databaseVars
<1>7. CASE Tick
  <2>1. \A q, r \in rounds' : q = r
    BY <1>7 DEF Tick, OneRound
  <2>2. \A r \in rounds' : \A p \in Participant :
          r.result[p] = "wait" => p \in registered'
    BY <1>7, TickRounds DEF Tick, OneRound, databaseVars
  <2>3. alive' => \A r \in rounds' : r.age + pingIn' = Interval
    <3>1. alive => pingIn' = pingIn - 1 /\ pingIn \in Nat /\ alive
      BY <1>7, IntervalTypes DEF Tick, TypeOK
    <3>2. alive' = alive
      BY <1>7 DEF Tick
    <3> QED BY <1>7, TickRounds, <3>1, <3>2, IntervalTypes DEF OneRound
  <2> QED BY <2>1, <2>2, <2>3 DEF OneRound
<1> QED BY <1>1, <1>2, <1>3, <1>4, <1>5, <1>6, <1>7 DEF Next

-----------------------------------------------------------------------------
(* Streaks.                                                                *)

LEMMA BackedKept ==
  ASSUME TypeOK, OneRound, Backed, [Next]_vars
  PROVE  Backed'
<1>0. /\ MaxStreak \in Nat /\ MaxStreak > 0
      /\ \A b \in Backup : /\ streak[b] \in Nat /\ inARow[b] \in Nat
                           /\ streak[b] <= MaxStreak /\ inARow[b] <= MaxStreak
  BY HeartbeatAssumption DEF TypeOK
\* An admission starts the streak over, and an answered ping counts as one.
<1>1. ASSUME NEW p \in Participant, Admit(p)
      PROVE  Backed'
  <2>1. ASSUME NEW b \in Backup
        PROVE  streak'[b] = streak[b] \/ streak'[b] = 0
    BY <1>1 DEF Admit, TypeOK
  <2>2. ASSUME alive, NEW b \in Backup, NEW r \in rounds
        PROVE  Counted(r, b)' <= inARow[b]
    <3>1. Counted(r, b) <= inARow[b]
      BY <2>2 DEF Backed
    <3>2. CASE r.result[b] = "ok"
      BY <1>0, <2>1, <3>1, <3>2 DEF Counted, CutOff
    <3>3. CASE r.result[b] # "ok"
      BY <1>0, <2>1, <3>1, <3>3 DEF Counted
    <3> QED BY <3>2, <3>3
  <2>3. UNCHANGED <<alive, rounds, inARow>>
    BY <1>1 DEF Admit, observed
  <2>4. ASSUME alive, NEW b \in Backup, rounds = {}
        PROVE  streak'[b] <= inARow[b]
    BY <1>0, <2>1, <2>4 DEF Backed
  <2> QED BY <2>2, <2>3, <2>4 DEF Backed, Counted
<1>2. CASE PingAll
  <2> DEFINE s == [age |-> 0, result |-> [p \in Participant |->
                     IF p \in registered THEN "wait" ELSE "none"]]
  <2>1. rounds = {} /\ rounds' = {s}
    BY <1>2, NoRoundAtPingAll DEF PingAll
  <2>2. \A b \in Backup : s.result[b] \in {"wait", "none"}
    BY DEF Participant
  <2>3. UNCHANGED <<alive, streak, inARow>>
    BY <1>2 DEF PingAll, databaseVars, observed
  <2> HIDE DEF s
  <2> QED BY <2>1, <2>2, <2>3 DEF Backed, Counted
<1>3. ASSUME NEW r \in rounds, NEW p \in Participant,
             PingAnswered(r, p) \/ PingMissed(r, p)
      PROVE  Backed'
  <2>1. PICK s \in Round :
          /\ rounds = {r} /\ rounds' = {s} /\ r.result[p] = "wait"
          /\ s.result[p] = IF PingAnswered(r, p) THEN "ok" ELSE "miss"
          /\ \A q \in Participant : q # p => s.result[q] = r.result[q]
    BY <1>3, SettledRound
  <2>2. UNCHANGED <<alive, streak>>
    BY <1>3 DEF PingAnswered, PingMissed, databaseVars
  <2>3. ASSUME alive, NEW b \in Backup, b # p
        PROVE  Counted(s, b) <= inARow'[b]
    <3>1. inARow'[b] = inARow[b]
      BY <1>3, <2>3 DEF PingAnswered, PingMissed, TypeOK
    <3>2. s.result[b] = r.result[b]
      BY <2>1, <2>3 DEF Participant
    <3> QED BY <2>3, <3>1, <3>2 DEF Backed, Counted
  <2>4. ASSUME alive, p \in Backup
        PROVE  Counted(s, p) <= inARow'[p]
    <3>1. streak[p] <= inARow[p]
      BY <2>1, <2>4 DEF Backed, Counted
    <3>2. CASE PingAnswered(r, p)
      <4>1. inARow'[p] = CutOff(inARow[p] + 1, MaxStreak)
        BY <2>4, <3>2 DEF PingAnswered, TypeOK
      <4>2. Counted(s, p) = CutOff(streak[p] + 1, MaxStreak)
        BY <2>1, <3>2 DEF Counted
      <4> QED BY <1>0, <2>4, <3>1, <4>1, <4>2 DEF CutOff
    <3>3. CASE ~PingAnswered(r, p)
      <4>1. inARow'[p] = 0
        BY <1>3, <2>4, <3>3 DEF PingMissed, TypeOK
      <4>2. Counted(s, p) = 0
        BY <2>1, <3>3 DEF Counted
      <4> QED BY <4>1, <4>2
    <3> QED BY <3>2, <3>3
  <2>5. \A b \in Backup : Counted(s, b)' = Counted(s, b)
    BY <2>2 DEF Counted
  <2> QED BY <2>1, <2>2, <2>3, <2>4, <2>5 DEF Backed
<1>4. ASSUME NEW r \in rounds, RoundFinished(r)
      PROVE  Backed'
  <2>1. rounds' = {}
    BY <1>4 DEF RoundFinished, OneRound
  <2> QED BY <1>4, <2>1 DEF RoundFinished, Backed, observed
<1>5. CASE Die
  BY <1>5 DEF Die, Backed
<1>6. CASE UNCHANGED vars \/ \E g \in Guardian : Poll(g)
  BY <1>6 DEF Poll, Backed, Counted, vars, databaseVars, observed
<1>7. CASE Tick
  <2>1. \A s \in rounds' : \E r \in rounds : s.result = r.result
    BY <1>7, TickRounds
  <2>2. rounds' = {} => rounds = {}
    BY <1>7 DEF Tick
  <2>3. UNCHANGED <<alive, streak, inARow>>
    BY <1>7 DEF Tick, databaseVars
  <2> QED BY <2>1, <2>2, <2>3 DEF Backed, Counted
<1> QED BY <1>1, <1>2, <1>3, <1>4, <1>5, <1>6, <1>7 DEF Next

-----------------------------------------------------------------------------
(* Missed pings.                                                           *)

LEMMA OwedTypes ==
  ASSUME TypeOK, NEW g \in Guardian
  PROVE  /\ g \in Participant /\ g \notin Backup
         /\ pingIn \in 0 .. Interval
         /\ missed[g] \in Nat /\ missed[g] <= Threshold
         /\ Owed(g) \in {missed[g], missed[g] + 1}
         /\ Owed(g) \in Nat /\ Owed(g) * Interval \in Nat
         /\ age[g] # None => age[g] \in Nat /\ age[g] <= MaxAge
<1>1. g \in Participant /\ g \notin Backup
  BY HeartbeatAssumption DEF Participant
<1>2. missed[g] \in Nat /\ missed[g] <= Threshold
  BY IntervalTypes DEF TypeOK
<1>3. Owed(g) \in {missed[g], missed[g] + 1} /\ Owed(g) \in Nat
  BY <1>2 DEF Owed
<1>4. Owed(g) * Interval \in Nat
  BY <1>3, FewerIntervals
<1>5. age[g] # None => age[g] \in Nat /\ age[g] <= MaxAge
  BY IntervalTypes DEF TypeOK
<1> QED BY <1>1, <1>2, <1>3, <1>4, <1>5 DEF TypeOK

LEMMA OverdueKept ==
  ASSUME TypeOK, OneRound, Overdue, [Next]_vars
  PROVE  Overdue'
<1> SUFFICES ASSUME NEW g \in Guardian, age'[g] # None
             PROVE  /\ g \in registered'
                    /\ alive' /\ missed'[g] < Threshold
                         => age'[g] <= Owed(g)' * Interval
                                         + (Interval - pingIn')
  BY DEF Overdue
<1> DEFINE Goal == /\ g \in registered'
                   /\ alive' /\ missed'[g] < Threshold
                        => age'[g] <= Owed(g)' * Interval
                                        + (Interval - pingIn')
<1>0. /\ g \in Participant /\ g \notin Backup
      /\ pingIn \in 0 .. Interval /\ Interval \in Nat
      /\ missed[g] \in Nat /\ Owed(g) \in Nat /\ Owed(g) * Interval \in Nat
      /\ age[g] # None => age[g] \in Nat /\ age[g] <= MaxAge
  BY OwedTypes, IntervalTypes
<1>1. ASSUME NEW p \in Participant, Admit(p)
      PROVE  Goal
  BY <1>1 DEF Admit, Overdue, Owed, Waits, observed
\* The next ping is due when the interval the last one left is used up.
<1>2. CASE PingAll
  <2>1. rounds = {} /\ pingIn = 0 /\ pingIn' = Interval
    BY <1>2, NoRoundAtPingAll DEF PingAll
  <2>2. UNCHANGED <<alive, registered, age, missed>>
    BY <1>2 DEF PingAll, databaseVars, observed
  <2>3. g \in registered
    BY <2>2 DEF Overdue
  <2>4. Owed(g) = missed[g] /\ Owed(g)' = missed[g] + 1
    BY <1>0, <1>2, <2>1, <2>2, <2>3 DEF PingAll, Owed, Waits
  <2>5. (missed[g] + 1) * Interval = missed[g] * Interval + Interval
    BY <1>0
  <2>6. alive /\ missed[g] < Threshold
          => age[g] <= missed[g] * Interval + Interval
    BY <1>0, <2>1, <2>2, <2>4 DEF Overdue
  <2> QED BY <1>0, <2>1, <2>2, <2>3, <2>4, <2>5, <2>6
<1>3. ASSUME NEW r \in rounds, NEW p \in Participant,
             PingAnswered(r, p) \/ PingMissed(r, p)
      PROVE  Goal
  <2>1. PICK s \in Round :
          /\ rounds = {r} /\ rounds' = {s} /\ r.result[p] = "wait"
          /\ s.result[p] = IF PingAnswered(r, p) THEN "ok" ELSE "miss"
          /\ \A q \in Participant : q # p => s.result[q] = r.result[q]
    BY <1>3, SettledRound
  <2>2. UNCHANGED <<alive, registered, pingIn>>
    BY <1>3 DEF PingAnswered, PingMissed, databaseVars
  <2>3. CASE p # g
    <3>1. age'[g] = age[g] /\ missed'[g] = missed[g]
      BY <1>3, <2>3 DEF PingAnswered, PingMissed, TypeOK
    <3>2. Owed(g)' = Owed(g)
      BY <1>0, <2>1, <2>3, <3>1 DEF Owed, Waits
    <3> QED BY <2>2, <3>1, <3>2 DEF Overdue
  <2>4. CASE p = g
    <3>1. g \in registered /\ ~Waits(g)' /\ Waits(g)
      BY <1>0, <2>1, <2>4 DEF OneRound, Waits
    <3>2. CASE PingAnswered(r, p)
      <4>1. age'[g] = 0 /\ missed'[g] = 0
        BY <1>0, <2>4, <3>2 DEF PingAnswered, TypeOK
      <4>2. Owed(g)' = 0
        BY <3>1, <4>1 DEF Owed
      <4> QED BY <1>0, <2>2, <3>1, <4>1, <4>2
    <3>3. CASE PingMissed(r, p)
      <4>1. age'[g] = age[g] /\ missed'[g] = CutOff(missed[g] + 1, Threshold)
        BY <1>0, <2>4, <3>3 DEF PingMissed, TypeOK
      <4>2. missed'[g] < Threshold => missed[g] < Threshold
                                      /\ missed'[g] = missed[g] + 1
        BY <1>0, <4>1, IntervalTypes DEF CutOff
      <4>3. missed'[g] < Threshold => Owed(g)' = Owed(g)
        BY <3>1, <4>2 DEF Owed
      <4> QED BY <2>2, <3>1, <4>1, <4>2, <4>3 DEF Overdue
    <3> QED BY <1>3, <3>2, <3>3
  <2> QED BY <2>3, <2>4
<1>4. ASSUME NEW r \in rounds, RoundFinished(r)
      PROVE  Goal
  <2>1. ~Waits(g) /\ ~Waits(g)'
    BY <1>0, <1>4 DEF RoundFinished, OneRound, Settled, Waits
  <2>2. UNCHANGED <<alive, registered, pingIn, age, missed>>
    BY <1>4 DEF RoundFinished, observed
  <2> QED BY <2>1, <2>2 DEF Overdue, Owed
<1>5. CASE Die
  BY <1>5 DEF Die, Overdue, databaseVars
<1>6. CASE UNCHANGED vars \/ \E h \in Guardian : Poll(h)
  BY <1>6 DEF Poll, Overdue, Owed, Waits, vars, databaseVars, observed
<1>7. CASE Tick
  <2>1. Waits(g)' <=> Waits(g)
    BY <1>7, TickRounds DEF Waits
  <2>2. UNCHANGED <<alive, registered, missed>>
    BY <1>7 DEF Tick, databaseVars
  <2>3. alive => pingIn' = pingIn - 1
    BY <1>7 DEF Tick
  <2>4. age[g] # None /\ age'[g] = CutOff(age[g] + 1, MaxAge)
    BY <1>7 DEF Tick
  <2>5. age'[g] \in Nat /\ age'[g] <= age[g] + 1
    BY <1>0, <2>4, IntervalTypes DEF CutOff
  <2>6. Owed(g)' = Owed(g)
    BY <2>1, <2>2 DEF Owed
  <2> QED BY <1>0, <2>2, <2>3, <2>4, <2>5, <2>6 DEF Overdue
<1> QED BY <1>1, <1>2, <1>3, <1>4, <1>5, <1>6, <1>7 DEF Next

\* A poll that declares a failure of a living primary was owed the pings.
LEMMA AlarmIsOwed ==
  ASSUME TypeOK, Overdue, NEW g \in Guardian, alive, LivenessFailure(g)
  PROVE  missed[g] >= Threshold - 1
<1>0. missed[g] \in Nat /\ Threshold \in Nat
  BY OwedTypes, IntervalTypes
<1> SUFFICES ASSUME missed[g] < Threshold - 1 PROVE FALSE
  BY <1>0
<1>1. /\ pingIn \in 0 .. Interval /\ Interval \in Nat /\ Threshold \in Nat
      /\ missed[g] \in Nat /\ Owed(g) \in Nat /\ Owed(g) * Interval \in Nat
      /\ Owed(g) + 1 <= Threshold /\ age[g] \in Nat
  BY OwedTypes, IntervalTypes DEF LivenessFailure
<1>2. age[g] <= Owed(g) * Interval + (Interval - pingIn)
  BY <1>1 DEF Overdue, LivenessFailure
<1>3. Owed(g) * Interval + Interval <= Threshold * Interval
  <2>1. (Owed(g) + 1) * Interval <= Threshold * Interval
    BY <1>1, FewerIntervals
  <2>2. (Owed(g) + 1) * Interval = Owed(g) * Interval + Interval
    BY <1>1, FewerIntervals
  <2> QED BY <2>1, <2>2
<1>4. age[g] > Threshold * Interval
  BY DEF LivenessFailure
<1> QED BY <1>1, <1>2, <1>3, <1>4, IntervalTypes

-----------------------------------------------------------------------------
(* The death of the primary.                                               *)

LEMMA SilentKept ==
  ASSUME TypeOK, OneRound, Silent, [Next]_vars
  PROVE  Silent'
<1> DEFINE Old(g) == deadFor <= age[g] + Timeout \/ age[g] = MaxAge
           Late(g) == deadFor >= Certain =>
                        alarm[g] \/ pollIn[g] + (deadFor - Certain) < Interval
<1>0. /\ Certain \in Nat /\ Certain > Timeout
      /\ Certain + Interval = DetectionBound + 1
      /\ MaxAge + Timeout = Certain
      /\ deadFor \in 0 .. DetectionBound + 1
      /\ \A r \in rounds : r.age \in 0 .. Timeout
      /\ \A g \in Guardian : pollIn[g] \in 0 .. Interval
      /\ \A g \in Guardian : age[g] # None => age[g] \in 0 .. MaxAge
  BY IntervalTypes DEF Certain, TypeOK, Round
<1>1. CASE PingAll \/ \E p \in Participant : Admit(p)
  BY <1>1 DEF PingAll, Admit, Silent, observed
<1>2. ASSUME NEW r \in rounds, NEW p \in Participant,
             PingAnswered(r, p) \/ PingMissed(r, p)
      PROVE  Silent'
  <2>1. PICK s \in Round : rounds = {r} /\ rounds' = {s} /\ s.age = r.age
    BY <1>2, SettledRound
  <2>2. UNCHANGED <<alive, deadFor, alarm, pollIn>>
    BY <1>2 DEF PingAnswered, PingMissed
  <2>3. \A g \in Guardian : age'[g] = age[g] \/ age'[g] = 0
    BY <1>2 DEF PingAnswered, PingMissed, TypeOK
  \* What is still answered was sent before the primary died.
  <2>4. ~alive => deadFor <= Timeout
    BY <1>0, <2>1, IntervalTypes DEF Silent
  <2>5. \A g \in Guardian : ~alive /\ age'[g] # None => Old(g)' /\ Late(g)'
    BY <1>0, <2>2, <2>3, <2>4, IntervalTypes
  <2> QED BY <2>1, <2>2, <2>5 DEF Silent
<1>3. CASE \E r \in rounds : RoundFinished(r)
  BY <1>3 DEF RoundFinished, Silent, observed
<1>4. CASE Die
  <2>1. deadFor' = 0 /\ UNCHANGED <<rounds, age, alarm, pollIn>>
    BY <1>4 DEF Die, Silent, observed
  <2>2. \A g \in Guardian : age'[g] # None => Old(g)' /\ Late(g)'
    BY <1>0, <2>1, IntervalTypes
  <2> QED BY <1>0, <1>4, <2>1, <2>2, IntervalTypes DEF Die, Silent
<1>5. ASSUME NEW h \in Guardian, Poll(h)
      PROVE  Silent'
  <2>1. UNCHANGED <<alive, deadFor, age, rounds>>
    BY <1>5 DEF Poll, observed
  <2>2. ASSUME NEW g \in Guardian, ~alive, age[g] # None
        PROVE  Old(g)' /\ Late(g)'
    <3>1. Old(g) /\ Late(g)
      BY <2>2 DEF Silent
    <3>2. CASE g # h
      BY <1>5, <2>1, <3>1, <3>2 DEF Poll, TypeOK
    <3>3. CASE g = h
      <4>1. deadFor >= Certain => age[g] > Threshold * Interval
        BY <1>0, <2>2, <3>1, IntervalTypes
      <4>2. alarm'[g] = LivenessFailure(g)
        BY <1>5, <3>3 DEF Poll, TypeOK
      <4> QED BY <2>1, <2>2, <3>1, <4>1, <4>2 DEF LivenessFailure
    <3> QED BY <3>2, <3>3
  <2> QED BY <2>1, <2>2 DEF Silent
<1>6. CASE Tick
  <2>1. UNCHANGED <<alive, alarm>>
    BY <1>6 DEF Tick
  <2>2. alive => deadFor' = 0
    BY <1>6 DEF Tick
  <2>3. ~alive => /\ deadFor' \in Nat /\ deadFor' <= deadFor + 1
                  /\ deadFor' <= DetectionBound + 1
    BY <1>0, <1>6, IntervalTypes DEF Tick, CutOff
  <2>4. ~alive => \A s \in rounds' : deadFor' <= s.age
    <3>1. ASSUME ~alive, NEW s \in rounds'
          PROVE  deadFor' <= s.age
      <4>1. PICK r \in rounds : s.age = r.age + 1
        BY <1>6, TickRounds
      <4> QED BY <1>0, <2>3, <3>1, <4>1 DEF Silent
    <3> QED BY <3>1
  <2>5. ASSUME NEW g \in Guardian, ~alive, age'[g] # None
        PROVE  Old(g)' /\ Late(g)'
    <3>1. age[g] # None /\ age'[g] = CutOff(age[g] + 1, MaxAge)
      BY <1>6, <2>5 DEF Tick
    <3>2. Old(g) /\ Late(g)
      BY <2>5, <3>1 DEF Silent
    <3>3. pollIn'[g] = pollIn[g] - 1 /\ pollIn[g] > 0
      BY <1>6 DEF Tick
    <3>4. Old(g)'
      BY <1>0, <2>3, <2>5, <3>1, <3>2, IntervalTypes DEF CutOff
    <3>5. Late(g)'
      BY <1>0, <2>1, <2>3, <2>5, <3>2, <3>3, IntervalTypes
    <3> QED BY <3>4, <3>5
  <2> QED BY <2>1, <2>2, <2>4, <2>5 DEF Silent
<1>7. CASE UNCHANGED vars
  BY <1>7 DEF vars, observed, Silent
<1> QED BY <1>1, <1>2, <1>3, <1>4, <1>5, <1>6, <1>7 DEF Next

-----------------------------------------------------------------------------
(* The specification.                                                      *)

LEMMA InvHolds == Spec => []IInv
<1>1. Init => IInv
  <2> SUFFICES ASSUME Init PROVE IInv
    OBVIOUS
  <2>1. TypeOK
    BY HeartbeatAssumption, IntervalTypes DEF Init, TypeOK
  <2>2. OneRound /\ Backed /\ Overdue
    BY DEF Init, OneRound, Backed, Overdue
  <2>3. Silent
    BY DEF Init, Silent
  <2> QED BY <2>1, <2>2, <2>3 DEF IInv
<1>2. IInv /\ [Next]_vars => IInv'
  BY TypesKept, OneRoundKept, BackedKept, OverdueKept, SilentKept DEF IInv
<1> QED BY <1>1, <1>2, PTL DEF Spec

\* Every variable keeps its type; the ages of rounds and pings stay bounded.
THEOREM TypeCorrect == Spec => []TypeOK
<1>1. IInv => TypeOK
  BY DEF IInv
<1> QED BY <1>1, InvHolds, PTL

\* StreakIsUninterrupted: between rounds a streak is backed by that many
\* answered pings in a row, though pingAll applies a round's results after
\* its last ping settled, to rows that may be new by then.
THEOREM StreakIsUninterruptedHolds == Spec => []StreakIsUninterrupted
<1>1. IInv => StreakIsUninterrupted
  BY DEF IInv, Backed, StreakIsUninterrupted
<1> QED BY <1>1, InvHolds, PTL

\* NoAlarmWithoutMisses: a monitor suspects a living primary only when all but
\* one of the pings the threshold allows were missed, wherever poll and ping
\* timers stand to each other and however long pings take.
THEOREM NoAlarmWithoutMissesHolds == Spec => NoAlarmWithoutMisses
<1> DEFINE Suspects == \A g \in Guardian :
             alive /\ pollIn[g] = 0 /\ pollIn'[g] # 0 /\ alarm'[g]
               => missed[g] >= Threshold - 1
<1>1. IInv /\ [Next]_vars => [Suspects]_vars
  <2> SUFFICES ASSUME TypeOK, Overdue, Next, NEW g \in Guardian, alive,
                      pollIn[g] = 0, pollIn'[g] # 0, alarm'[g]
               PROVE  missed[g] >= Threshold - 1
    BY DEF IInv
  <2>1. Poll(g)
    <3>1. ASSUME NEW h \in Guardian, Poll(h)
          PROVE  Poll(g)
      <4>1. g = h
        BY <3>1 DEF Poll, TypeOK
      <4> QED BY <3>1, <4>1
    <3>2. ~Tick
      <4>1. Tick => pollIn[g] > 0
        BY DEF Tick
      <4>2. ~(0 > 0)
        OBVIOUS
      <4> QED BY <4>1, <4>2
    <3>3. pollIn' # pollIn
      OBVIOUS
    <3> QED BY <3>1, <3>2, <3>3
            DEF Next, Admit, PingAll, PingAnswered, PingMissed, RoundFinished, Die
  <2>2. LivenessFailure(g)
    BY <2>1 DEF Poll, TypeOK
  <2> QED BY <2>2, AlarmIsOwed
<1> QED BY <1>1, InvHolds, PTL DEF Spec, NoAlarmWithoutMisses

\* DeathIsNoticed: DetectionBound ticks after the primary died every guardian
\* it ever reached has its alarm up.
THEOREM DeathIsNoticedHolds == Spec => []DeathIsNoticed
<1>1. IInv => DeathIsNoticed
  <2> SUFFICES ASSUME TypeOK, Silent, deadFor > DetectionBound,
                      NEW g \in Guardian, age[g] # None
               PROVE  alarm[g]
    BY DEF IInv, DeathIsNoticed
  <2>1. /\ deadFor \in Nat /\ pollIn[g] \in Nat
        /\ Certain + Interval = DetectionBound + 1 /\ Certain \in Nat
    BY IntervalTypes DEF TypeOK, Certain
  <2>2. ~alive
    BY <2>1, IntervalTypes DEF Silent
  <2> QED BY <2>1, <2>2, IntervalTypes DEF Silent
<1> QED BY <1>1, InvHolds, PTL

=============================================================================
