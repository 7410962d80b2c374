------------------------------ MODULE SecretVm ------------------------------
(***************************************************************************)
(* SecretVmClient and the service behind it.  createVm is answered 402     *)
(* while the agent's balance at the service is below the price of a        *)
(* machine; the client then signs a payment of one USDC, which is settled  *)
(* on chain, and calls itself again.  (It signs whatever amount the terms  *)
(* name; the service is taken to name the one it was asked for.)  Calls of *)
(* createVm share the wallet and the balance, and nothing keeps them       *)
(* apart.                                                                  *)
(*                                                                         *)
(* call     the request a caller of createVm is suspended at               *)
(* credit   the balance at the service                                     *)
(* usdc     what is left in the wallet                                     *)
(***************************************************************************)
EXTENDS Naturals, FiniteSets

CONSTANTS
  Evaluation,   \* evaluations of the network manager, which call createVm
  Price,        \* of a machine, in USDC
  Funds         \* what an operator puts into the empty wallet

ASSUME SecretVmAssumption ==
  /\ IsFiniteSet(Evaluation)
  /\ Price \in Nat \ {0} /\ Funds \in Nat \ {0}

VARIABLES call, credit, usdc

serviceVars == <<call, credit, usdc>>

\* "create" and "topUp" are the first POST of createVm and of addFunds, "pay"
\* the one that carries the signed payment, "payAgain" its repetition.
Call == {"idle", "create", "topUp", "pay", "payAgain"}

ServiceTypeOK ==
  /\ call \in [Evaluation -> Call]
  /\ credit \in Nat
  /\ usdc \in 0 .. Funds

ServiceInit ==
  /\ call = [c \in Evaluation |-> "idle"]
  /\ credit = 0
  /\ usdc = Funds

Goes(c, to) == call' = [call EXCEPT ![c] = to]

CreateVm(c) ==
  /\ call[c] = "idle" /\ Goes(c, "create")
  /\ UNCHANGED <<credit, usdc>>

\* The service starts a machine and takes its price.
Charged == credit >= Price /\ credit' = credit - Price /\ UNCHANGED usdc

\* createVm returns; its caller asks for another machine, or for none.
VmCreated(c, again) ==
  /\ call[c] = "create" /\ Charged
  /\ Goes(c, IF again THEN "create" ELSE "idle")

\* 402: createVm awaits addFunds(1).
Refused(c) ==
  /\ call[c] = "create" /\ credit < Price
  /\ Goes(c, "topUp")
  /\ UNCHANGED <<credit, usdc>>

\* 402 with the terms: they are signed.
TermsSigned(c) ==
  /\ call[c] = "topUp" /\ Goes(c, "pay")
  /\ UNCHANGED <<credit, usdc>>

Settled == usdc > 0 /\ usdc' = usdc - 1 /\ credit' = credit + 1

\* addFunds returns and createVm calls itself.
Paid(c) ==
  /\ call[c] \in {"pay", "payAgain"} /\ Settled
  /\ Goes(c, "create")

\* 429: the same payment is sent again, once.
Limited(c) ==
  /\ call[c] = "pay" /\ Goes(c, "payAgain")
  /\ UNCHANGED <<credit, usdc>>

\* Mutant: a payment that was settled is signed and sent a second time.
LimitedLate(c) ==
  /\ call[c] = "pay" /\ Settled
  /\ Goes(c, "payAgain")

\* addFunds is answered without terms: nothing is paid, and createVm calls
\* itself all the same.
Waived(c) ==
  /\ call[c] = "topUp" /\ Goes(c, "create")
  /\ UNCHANGED <<credit, usdc>>

Throws(c) == call[c] # "idle" /\ Goes(c, "idle")

\* The empty wallet: the payment is refused.
Unpaid(c) ==
  /\ call[c] \in {"pay", "payAgain"} /\ usdc = 0
  /\ Throws(c) /\ UNCHANGED <<credit, usdc>>

\* Any other answer, or none; the request may have been carried out.
Failed(c) == Throws(c) /\ UNCHANGED <<credit, usdc>>
CreatedUnheard(c) == call[c] = "create" /\ Throws(c) /\ Charged
PaidUnheard(c) == call[c] \in {"pay", "payAgain"} /\ Throws(c) /\ Settled

\* An operator refills the wallet.
Refill ==
  /\ usdc = 0 /\ usdc' = Funds
  /\ UNCHANGED <<call, credit>>

Paying == {c \in Evaluation : call[c] \in {"topUp", "pay", "payAgain"}}

\* createVm tops up as often as it is refused, without a limit of its own, and
\* callers that are refused together all pay.  Even so the money that is at
\* the service or on its way never exceeds what no machine costs yet by more
\* than one payment per caller, however calls overlap, repeat and fail.
SurplusIsBounded ==
  credit + Cardinality(Paying) <= Price - 1 + Cardinality(Evaluation)

=============================================================================
