------------------------------ MODULE BrokerBus ------------------------------
(***************************************************************************)
(* What broker-ctrl and an adapter say to each other on the ExecutionBus:  *)
(* requests for orders and transfers one way, results the other.           *)
(*                                                                         *)
(* A request is the pair of what it is for, an execution of the order      *)
(* workflow or a transfer, and a number: each time one is sent it has a    *)
(* fresh event id.  An adapter keeps per request how far its handler has   *)
(* come, so requests stay in their set; a result leaves its set when it    *)
(* has been handled.                                                       *)
(***************************************************************************)
EXTENDS Integers, FiniteSets

CONSTANTS
  Executions,  \* executions of the order workflow
  Orders,      \* orders
  OrderOf,     \* the order an execution was started for
  Transfers,   \* deposits and withdrawals
  Deposits,    \* the transfers that are deposits
  MaxRounds,   \* bound on the requests of one execution or transfer
  MaxFaults    \* bound on crashes, duplicates and failed requests

ASSUME BusAssumption ==
  /\ OrderOf \in [Executions -> Orders]
  /\ Executions \intersect Transfers = {}
  /\ Orders \intersect Transfers = {}
  /\ Deposits \subseteq Transfers
  /\ MaxRounds \in Nat \ {0}
  /\ MaxFaults \in Nat

VARIABLES
  requests,    \* requests that were sent
  results,     \* results in flight
  faults

busVars == <<requests, results, faults>>

(* A transfer is sent once more by each redelivery: MaxRounds stops nobody *)
(* when it is MaxFaults + 1.  An execution sends one request.              *)
Rounds == 1 .. MaxRounds
Requests == (Executions \union Transfers) \X Rounds

OrderRequests == {r \in requests : r[1] \in Executions}
DepositRequests == {r \in requests : r[1] \in Deposits}
WithdrawalRequests == {r \in requests : r[1] \in Transfers \ Deposits}

(* What the adapters emit.  Of the other event types broker-ctrl knows,    *)
(* SIM_ORDER_REJECTED has no writer, ALPACA_ORDER_CANCEL_* no request, and *)
(* the polling fails before it writes any (AlpacaAdapter).                 *)
Results ==
  [of : Orders, by : {"sim"}, status : {"FILLED"}]
    \union [of : Orders, by : {"alpaca"}, status : {"REJECTED"}]
    \union [of : Transfers, by : {"sim"}, status : {"COMPLETED"}]
    \union [of : Transfers, by : {"alpaca"}, status : {"FAILED"}]

BusInit == requests = {} /\ results = {} /\ faults = 0

Fault == faults < MaxFaults /\ faults' = faults + 1

(* A result is handled, and with a fault it is delivered again.            *)
Consume(a) ==
  \/ results' = results \ {a} /\ UNCHANGED faults
  \/ results' = results /\ Fault

BusTypeOK ==
  /\ requests \subseteq Requests
  /\ results \subseteq Results
  /\ faults \in 0 .. MaxFaults
=============================================================================
