----------------------------- MODULE AlpacaBroker -----------------------------
(***************************************************************************)
(* An investor who trades for real: the order workflow and the transfers   *)
(* of broker-ctrl against broker-alpaca-adpt and its breaker.              *)
(***************************************************************************)
EXTENDS OrderLifecycle, Funding, AlpacaAdapter

CONSTANT Scenarios

ASSUME ScenariosAssumption == Scenarios \subseteq SUBSET (Executions \union Transfers)

vars == <<orderVars, fundingVars, adapterVars, breakerVars, busVars>>

Init ==
  /\ BusInit /\ AdapterInit /\ BreakerInit
  /\ \E submitted \in Scenarios : OrderInit(submitted) /\ FundingInit(submitted)

OrderStep == UNCHANGED <<fundingVars, adapterVars, breakerVars>>
FundingStep == UNCHANGED <<orderVars, adapterVars, breakerVars>>
AdapterStep == UNCHANGED <<orderVars, fundingVars>>
BreakerStep == UNCHANGED <<orderVars, fundingVars, adapterVars>>

Next ==
  \/ OrderNext /\ OrderStep
  \/ FundingNext /\ FundingStep
  \/ AdapterNext /\ AdapterStep
  \/ BreakerNext /\ BreakerStep

Spec == Init /\ [][Next]_vars

(* As in SimBroker; EventBridge delivers each announcement at least once.  *)
(* No step can be repeated for ever: a healing has MaxAttempts checks.     *)
Progress ==
  \/ OrderStep /\ \/ \E x \in Executions : Workflow(x)
                  \/ \E o \in Orders : Resolve(o)
  \/ FundingStep /\ \E t \in Transfers : Route(t) \/ Normalize(t) \/ Show(t)
  \/ AdapterStep /\ \/ \E r \in Requests : HandleLive(r)
                    \/ \E t \in Transfers : PollTransfer(t)
  \/ BreakerStep /\ \E h \in Heals :
                      Heal(h) \/ (h[2] = 1 /\ StartHeal(h))

FairSpec == Spec /\ WF_vars(Progress)

-----------------------------------------------------------------------------
(* Properties                                                              *)

(* Every variable stays in its type.                                       *)
TypeOK ==
  /\ BusTypeOK /\ OrderTypeOK /\ FundingTypeOK /\ AdapterTypeOK /\ BreakerTypeOK

(* A row that says an order or a transfer is at Alpaca is right, whatever  *)
(* was refused, failed or sent again before.                               *)
PlacedIsAccepted == \A s \in Subjects : mapping[s] = Placed(s) => s \in accepted

Announced(event) == {n \in DOMAIN stream : stream[n] = event}

(* Healings started by duplicates, or late, collapse to one announcement   *)
(* of the closing for each opening.                                        *)
OneClosePerOpening == Cardinality(Announced("BROKER_CIRCUIT_CLOSED")) <= openings

(* When the breaker is closed, both its changes are announced and the last *)
(* announcement is shown, the investor's features are on: announcements    *)
(* that overtake each other do not leave them off.  Two healings of one    *)
(* opening can.                                                            *)
FlagsComeBack ==
  /\ breaker = "CLOSED"
  /\ openings = Cardinality(Announced("BROKER_CIRCUIT_OPEN"))
  /\ closings = Cardinality(Announced("BROKER_CIRCUIT_CLOSED"))
  /\ shown = Len(stream)
  /\ \A h \in Heals : h[2] = 2 => heals[h].pc = "none"
  => flag.enabled

(* The breaker stays open only if a healing has escalated or has died, if  *)
(* one has read the breaker row as it was before the opening, or if a      *)
(* crash has kept the opening from being announced.                        *)
OpenIsAnswered ==
  <>[](breaker = "OPEN" =>
         \/ \E h \in Heals : heals[h].pc \in {"escalated", "dead", "misled"}
         \/ Cardinality(Announced("BROKER_CIRCUIT_OPEN")) < openings)

(* The investor is told of each transfer that failed, whether Alpaca, the  *)
(* breaker or the polling found it.                                        *)
FailureIsShown == <>[](\A t \in Transfers : mapping[t] = "FAILED" => row[t] = 3)

=============================================================================
