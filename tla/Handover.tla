------------------------------ MODULE Handover ------------------------------
(***************************************************************************)
(* What a succession promises about the agents of a network, without       *)
(* guardians, messages, handlers, crashes or reboots.  An agent starts     *)
(* outside, is given a key of its own to keep, then the network's database *)
(* and then, perhaps, the registry entry.  No stage is skipped, and none   *)
(* is ever left again: a key that was kept is not lost and a database that *)
(* was replaced does not come back.                                        *)
(*                                                                         *)
(* stage   how far an agent has come                                       *)
(* named   whom the registry names                                         *)
(***************************************************************************)
CONSTANTS Agent, OldPrimary

VARIABLES stage, named

vars == <<stage, named>>

Init ==
  /\ stage = [a \in Agent |-> "outside"]
  /\ named = OldPrimary

Advance(a, from, to) ==
  /\ stage[a] = from
  /\ stage' = [stage EXCEPT ![a] = to]
  /\ UNCHANGED named

\* A key of the succession is on the agent's disk.
Entrust(a) == Advance(a, "outside", "keyed")

\* The agent's database was replaced, or is being replaced.
Equip(a) == Advance(a, "keyed", "equipped")

\* The registry entry moves to the agent.
Appoint(a) ==
  /\ stage[a] = "equipped"
  /\ named' = a
  /\ UNCHANGED stage

Next == \E a \in Agent : Entrust(a) \/ Equip(a) \/ Appoint(a)

Spec == Init /\ [][Next]_vars
=============================================================================
