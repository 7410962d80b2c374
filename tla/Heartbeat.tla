----------------------------- MODULE Heartbeat -----------------------------
(***************************************************************************)
(* Heartbeats in discrete time: the primary pings every registered backup  *)
(* and guardian each Interval and keeps the backups' streaks; a guardian   *)
(* polls each Interval whether its last ping is too old.  The primary may  *)
(* die; what it sent before still arrives.                                 *)
(*                                                                         *)
(* alive       the primary process runs                                    *)
(* registered  backups on standby and active guardians in its database     *)
(* streak      backup_agents.heartbeat_streak                              *)
(* pingIn      ticks until setInterval fires pingAll                       *)
(* rounds      pingAll calls suspended in Promise.allSettled: their age    *)
(*             and, per participant pinged, how its ping went              *)
(* age         ticks since a guardian's lastPingAt (None: null), cut off   *)
(*             just above the threshold                                    *)
(* pollIn      ticks until a guardian's monitor polls                      *)
(* alarm       the last poll found a liveness failure and called initiate  *)
(*                                                                         *)
(* Only the properties read the following three.                           *)
(* inARow      pings a backup answered since the last one it missed        *)
(* missed      pings a guardian missed since the last one it received      *)
(* deadFor     ticks since the primary died, cut off                       *)
(***************************************************************************)
EXTENDS Integers, FiniteSets

CONSTANTS
  Backup, Guardian,
  Interval,      \* heartbeatIntervalMs, in ticks
  Threshold,     \* livenessFailureThreshold
  Timeout,       \* a ping is signed and answered or given up in that time
  MaxStreak,     \* streaks are cut off here
  None

Participant == Backup \cup Guardian

\* A round is over before the next one starts: 5 s to sign and 10 s to send
\* against the default interval of 30 s.
ASSUME HeartbeatAssumption ==
  /\ Interval \in Nat /\ Timeout \in Nat /\ Timeout < Interval
  /\ Threshold \in Nat \ {0} /\ MaxStreak \in Nat \ {0}
  /\ Backup \cap Guardian = {}
  /\ None \notin Nat

VARIABLES alive, registered, streak, pingIn, rounds, age, pollIn, alarm,
          inARow, missed, deadFor

databaseVars == <<registered, streak>>
observed == <<inARow, missed, deadFor>>
vars == <<alive, databaseVars, pingIn, rounds, age, pollIn, alarm, observed>>

Result == {"none", "wait", "ok", "miss"}
Round == [age : 0 .. Timeout, result : [Participant -> Result]]
MaxAge == Threshold * Interval + 1
\* When the last poll that can still be without an alarm has happened.
DetectionBound == (Threshold + 1) * Interval + Timeout

CutOff(n, m) == IF n < m THEN n ELSE m

TypeOK ==
  /\ alive \in BOOLEAN
  /\ registered \subseteq Participant
  /\ streak \in [Backup -> 0 .. MaxStreak]
  /\ pingIn \in 0 .. Interval
  /\ rounds \subseteq Round
  /\ age \in [Guardian -> (0 .. MaxAge) \cup {None}]
  /\ pollIn \in [Guardian -> 0 .. Interval]
  /\ alarm \in [Guardian -> BOOLEAN]
  /\ inARow \in [Backup -> 0 .. MaxStreak]
  /\ missed \in [Guardian -> 0 .. Threshold]
  /\ deadFor \in 0 .. DetectionBound + 1

Init ==
  /\ alive = TRUE
  /\ registered = {}
  /\ streak = [b \in Backup |-> 0]
  /\ pingIn = 0
  /\ rounds = {}
  /\ age = [g \in Guardian |-> None]
  /\ pollIn \in [Guardian -> 1 .. Interval]
  /\ alarm = [g \in Guardian |-> FALSE]
  /\ inARow = [b \in Backup |-> 0]
  /\ missed = [g \in Guardian |-> 0]
  /\ deadFor = 0

-----------------------------------------------------------------------------
(* The primary.                                                            *)

\* Admission, or re-admission: the streak starts over.
Admit(p) ==
  /\ alive
  /\ registered' = registered \cup {p}
  /\ streak' = IF p \in Backup THEN [streak EXCEPT ![p] = 0] ELSE streak
  /\ UNCHANGED <<alive, pingIn, rounds, age, pollIn, alarm, observed>>

\* The participants are read once, all pings leave in parallel.
PingAll ==
  /\ alive /\ pingIn = 0
  /\ pingIn' = Interval
  /\ rounds' = rounds \cup
       {[age |-> 0,
         result |-> [p \in Participant |->
                       IF p \in registered THEN "wait" ELSE "none"]]}
  /\ UNCHANGED <<alive, databaseVars, age, pollIn, alarm, observed>>

Settle(r, p, res) ==
  rounds' = (rounds \ {r}) \cup {[r EXCEPT !.result[p] = res]}

PingAnswered(r, p) ==
  /\ r.result[p] = "wait"
  /\ Settle(r, p, "ok")
  /\ IF p \in Backup
       THEN /\ inARow' = [inARow EXCEPT ![p] = CutOff(@ + 1, MaxStreak)]
            /\ UNCHANGED <<age, missed>>
       ELSE /\ age' = [age EXCEPT ![p] = 0]
            /\ missed' = [missed EXCEPT ![p] = 0]
            /\ UNCHANGED inARow
  /\ UNCHANGED <<alive, databaseVars, pingIn, pollIn, alarm, deadFor>>

\* Refused, answered with an error, or not answered in time.  (A ping whose
\* promise is rejected is skipped, and the streak kept; the transport answers
\* every error with false.)
PingMissed(r, p) ==
  /\ r.result[p] = "wait"
  /\ Settle(r, p, "miss")
  /\ IF p \in Backup
       THEN inARow' = [inARow EXCEPT ![p] = 0] /\ UNCHANGED missed
       ELSE /\ missed' = [missed EXCEPT ![p] = CutOff(@ + 1, Threshold)]
            /\ UNCHANGED inARow
  /\ UNCHANGED <<alive, databaseVars, pingIn, age, pollIn, alarm, deadFor>>

Settled(r) == \A p \in Participant : r.result[p] # "wait"

\* Mutant: a failed ping is skipped like a rejected promise.
CountedSkipsMisses(r, b) ==
  IF r.result[b] = "ok" THEN CutOff(streak[b] + 1, MaxStreak) ELSE streak[b]

\* Mutant: resetStreak clears the column.
CountedNull(r, b) ==
  CASE r.result[b] = "ok" -> CutOff(streak[b] + 1, MaxStreak)
    [] r.result[b] = "miss" -> None
    [] OTHER -> streak[b]

\* incrementStreak, resetStreak, or not a participant of the round.
Counted(r, b) ==
  CASE r.result[b] = "ok" -> CutOff(streak[b] + 1, MaxStreak)
    [] r.result[b] = "miss" -> 0
    [] OTHER -> streak[b]

\* Promise.allSettled returned.
RoundFinished(r) ==
  /\ Settled(r)
  /\ rounds' = rounds \ {r}
  /\ streak' = IF alive THEN [b \in Backup |-> Counted(r, b)] ELSE streak
  /\ UNCHANGED <<alive, registered, pingIn, age, pollIn, alarm, observed>>

Die ==
  /\ alive /\ alive' = FALSE
  /\ UNCHANGED <<databaseVars, pingIn, rounds, age, pollIn, alarm, observed>>

-----------------------------------------------------------------------------
(* A guardian's monitor.                                                   *)

\* Mutant: the failure is declared one interval early.
LivenessFailureEarly(g) ==
  age[g] # None /\ age[g] > (Threshold - 1) * Interval

\* Mutant: the failure is declared one interval late.
LivenessFailureLate(g) ==
  age[g] # None /\ age[g] > (Threshold + 1) * Interval

\* False as long as no ping was ever received.
LivenessFailure(g) == age[g] # None /\ age[g] > Threshold * Interval

Poll(g) ==
  /\ pollIn[g] = 0
  /\ pollIn' = [pollIn EXCEPT ![g] = Interval]
  /\ alarm' = [alarm EXCEPT ![g] = LivenessFailure(g)]
  /\ UNCHANGED <<alive, databaseVars, pingIn, rounds, age, observed>>

-----------------------------------------------------------------------------
(* Time passes when nothing is due.                                        *)

Tick ==
  /\ alive => pingIn > 0
  /\ \A g \in Guardian : pollIn[g] > 0
  /\ \A r \in rounds : ~Settled(r) /\ r.age < Timeout
  /\ pingIn' = IF alive THEN pingIn - 1 ELSE pingIn
  /\ rounds' = {[r EXCEPT !.age = @ + 1] : r \in rounds}
  /\ age' = [g \in Guardian |->
               IF age[g] = None THEN None ELSE CutOff(age[g] + 1, MaxAge)]
  /\ pollIn' = [g \in Guardian |-> pollIn[g] - 1]
  /\ deadFor' = IF alive THEN 0 ELSE CutOff(deadFor + 1, DetectionBound + 1)
  /\ UNCHANGED <<alive, databaseVars, alarm, inARow, missed>>

Next ==
  \/ \E p \in Participant : Admit(p)
  \/ PingAll
  \/ \E r \in rounds :
       \/ \E p \in Participant : PingAnswered(r, p) \/ PingMissed(r, p)
       \/ RoundFinished(r)
  \/ Die
  \/ \E g \in Guardian : Poll(g)
  \/ Tick

Spec == Init /\ [][Next]_vars

-----------------------------------------------------------------------------
(* Properties.                                                             *)

\* Between two rounds the streak the successor is chosen by is backed by
\* that many answered pings in a row: a missed ping is never survived, and
\* a re-admission while a round is running never adds to it (pingAll applies
\* results after the last ping settled, to whatever row is there then).
StreakIsUninterrupted ==
  alive /\ rounds = {} => \A b \in Backup : streak[b] <= inARow[b]

\* While the primary runs, a poll declares a failure only if all of
\* Threshold - 1 pings since the last one received were missed, whatever the
\* latencies and however poll and ping timers are shifted.  (One less than
\* the threshold: the next ping may just come later than the last one did.)
NoAlarmWithoutMisses ==
  [][\A g \in Guardian :
       alive /\ pollIn[g] = 0 /\ pollIn'[g] # 0 /\ alarm'[g]
         => missed[g] >= Threshold - 1]_vars

\* A guardian that was ever pinged notices the primary's death at the latest
\* with the first poll after the threshold, counted from the last ping that
\* was still under way.
DeathIsNoticed ==
  deadFor > DetectionBound =>
    \A g \in Guardian : age[g] # None => alarm[g]

=============================================================================
