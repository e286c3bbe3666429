------------------------------ MODULE SimBroker ------------------------------
(***************************************************************************)
(* An investor in simulation: the order workflow and the transfers of      *)
(* broker-ctrl against the virtual ledger of broker-sim-adpt.  What was    *)
(* submitted is chosen at the start and told apart by scenarios, sets of   *)
(* executions and transfers that run together.                             *)
(***************************************************************************)
EXTENDS OrderLifecycle, VirtualLedger, Funding

CONSTANT Scenarios

ASSUME ScenariosAssumption == Scenarios \subseteq SUBSET (Executions \union Transfers)

vars == <<orderVars, virtualVars, fundingVars, busVars>>

Init ==
  /\ BusInit
  /\ VirtualInit
  /\ \E submitted \in Scenarios : OrderInit(submitted) /\ FundingInit(submitted)

OrderStep == UNCHANGED <<virtualVars, fundingVars>>
VirtualStep == UNCHANGED <<orderVars, fundingVars>>
FundingStep == UNCHANGED <<orderVars, virtualVars>>

Next ==
  \/ OrderNext /\ OrderStep
  \/ VirtualNext /\ VirtualStep
  \/ FundingNext /\ FundingStep

Spec == Init /\ [][Next]_vars

(* Step Functions goes on with an execution, its timeouts included; SQS    *)
(* hands a message out until its handler has finished; the streams deliver.*)
(* Faults and conflicts need not happen.  No step can be repeated for ever,*)
(* so that it is enough that some step is taken while there is one.        *)
Progress ==
  \/ /\ \/ \E x \in Executions : Workflow(x)
        \/ \E o \in Orders : Resolve(o)
     /\ OrderStep
  \/ (\E r \in requests : Handle(r)) /\ Replicate /\ VirtualStep
  \/ (\E t \in Transfers : Route(t) \/ Normalize(t) \/ Show(t)) /\ FundingStep

FairSpec == Spec /\ WF_vars(Progress)

-----------------------------------------------------------------------------
(* Properties                                                              *)

(* Every variable stays in its type.                                       *)
TypeOK ==
  /\ BusTypeOK /\ OrderTypeOK /\ FundingTypeOK
  /\ cash \in [balance : Int, version : Nat]
  /\ position \in Int
  /\ trades \subseteq Orders
  /\ markers \subseteq Requests /\ recorded \subseteq Requests
  /\ failed \subseteq Requests
  /\ work \in [Requests ->
       [pc : {"new", "init", "load", "validate", "version", "shares", "commit",
              "add", "record", "done"},
        balance : Int, version : Nat, shares : Int]]
  /\ inits \in Nat
  /\ misread \subseteq Orders
  /\ cashes \subseteq [balance : Int, version : Nat]
  /\ positions \subseteq Int

(* The investor is told of a fill only when the virtual ledger holds the   *)
(* trade, across two result hops, dead tokens and second executions.       *)
FilledIsTraded ==
  \A x \in Executions : <<x, "ORDER_FILLED">> \in reported => OrderOf[x] \in trades

(* The version read before the position makes concurrent trades add up,    *)
(* even when the version, the balance or the position that was validated   *)
(* was an old one.  What loses shares is one of two: a late initialisation *)
(* that sets the version back, or an executeTrade that read an old         *)
(* position, under whatever version, and still committed.                  *)
PositionMatchesTrades ==
  inits <= 1 /\ misread \intersect trades = {} => position = Shares(trades)

(* Transfers alone add up: each request moves money once, however often it *)
(* is handed out and wherever its handler crashed, again as long as the    *)
(* account is initialised once at most.                                    *)
CashMatchesTransfers ==
  trades = {} /\ inits <= 1 /\ cash.version > 0 =>
    cash.balance = Initial
      + Cardinality({r \in markers : r[1] \in Deposits})
      - Cardinality({r \in markers : r[1] \notin Deposits})

(* A transfer is shown as settled only when its money has moved.           *)
SettledWasMoved ==
  \A t \in Transfers : row[t] > 1 => \E r \in markers : r[1] = t

(* Announcements out of order do not set the investor's view back.         *)
RowAdvances == [][\A t \in Transfers : row'[t] >= row[t]]_row

(* A deposit is shown as settled in the end and stays so, or an error      *)
(* event names its request: no crash between its six writes, in three      *)
(* services, loses it silently, and no late announcement sets it back.     *)
DepositAccounted ==
  \A t \in Deposits :
    (router[t] = "queued") ~> [](row[t] = 3 \/ \E r \in failed : r[1] = t)

-----------------------------------------------------------------------------
(* executeTrade reads the version "for optimistic locking", which the code *)
(* does not achieve: the balance was read before, without its version.     *)
CashMatchesTrades ==
  markers = {} /\ inits <= 1 /\ cash.version > 0 =>
    cash.balance = Initial - Shares(trades)
=============================================================================
