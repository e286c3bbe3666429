--------------------------- MODULE OrderLifecycle ---------------------------
(***************************************************************************)
(* broker-ctrl: the order workflow, a Step Functions execution per         *)
(* delivered ORDER_SUBMITTED.  An execution routes its order with a task   *)
(* token and waits; the callback resolver finds the token of an adapter's  *)
(* result in the BrokerOrder row, the row of the order and not of the      *)
(* execution.                                                              *)
(*                                                                         *)
(* The token of an execution's task is its request.  Two of ClassifyResult's*)
(* branches are left out, for no result leads there: MarkPartialFill and   *)
(* MarkRejected.                                                           *)
(***************************************************************************)
EXTENDS BrokerBus

CONSTANT NoToken

ASSUME TokenAssumption == NoToken \notin Requests

VARIABLES
  exec,         \* the executions
  brokerOrder,  \* the BrokerOrder rows
  reported      \* NormalizedEvent rows: the execution and its event

orderVars == <<exec, brokerOrder, reported>>

Running == {"routing", "emitting", "waiting", "answered"}
Ended == {"done", "dead"}

NotStarted(pc) == [pc |-> pc, status |-> "none"]

OrderInit(submitted) ==
  /\ exec = [x \in Executions |->
       NotStarted(IF x \in submitted THEN "submitted" ELSE "absent")]
  /\ brokerOrder = [o \in Orders |-> [state |-> "none", token |-> NoToken]]
  /\ reported = {}

Token(x) == <<x, 1>>
SetExec(x, pc) == exec' = [exec EXCEPT ![x].pc = pc]

(* The update of the row the execution's order has.                        *)
SetState(x, state) ==
  brokerOrder' = [brokerOrder EXCEPT ![OrderOf[x]].state = state]

-----------------------------------------------------------------------------
(* The trigger has no execution name, so a duplicate starts a second one.  *)
Start(x) ==
  /\ exec[x].pc = "submitted"
  /\ IF \E y \in Executions \ {x} :
          OrderOf[y] = OrderOf[x] /\ exec[y].pc \notin {"submitted", "absent"}
     THEN Fault ELSE UNCHANGED faults
  /\ SetExec(x, "routing")
  /\ UNCHANGED <<brokerOrder, reported, requests, results>>

(* route-order.ts: the put is unconditional; then the request is sent.     *)
CreateOrder(x) ==
  /\ exec[x].pc = "routing"
  /\ brokerOrder' = [brokerOrder EXCEPT ![OrderOf[x]] =
       [state |-> "AWAITING_FILL", token |-> Token(x)]]
  /\ SetExec(x, "emitting")
  /\ UNCHANGED <<reported, busVars>>

EmitRequest(x) ==
  /\ exec[x].pc = "emitting"
  /\ requests' = requests \union {Token(x)}
  /\ SetExec(x, "waiting")
  /\ UNCHANGED <<brokerOrder, reported, results, faults>>

(* The Lambda fails, before or after its request went out: nothing retries *)
(* or catches it.                                                          *)
RouteFails(x) ==
  /\ exec[x].pc \in {"routing", "emitting"}
  /\ Fault
  /\ \/ requests' = requests
     \/ exec[x].pc = "emitting" /\ requests' = requests \union {Token(x)}
  /\ SetExec(x, "dead")
  /\ UNCHANGED <<brokerOrder, reported, results>>

(* Mutant: the timeout goes with the token in the row.                     *)
TimeOutByRow(x) ==
  /\ exec[x].pc = "waiting"
  /\ brokerOrder[OrderOf[x]].token = Token(x)
  /\ exec' = [exec EXCEPT ![x] = [pc |-> "answered", status |-> "TIMEOUT"]]
  /\ UNCHANGED <<brokerOrder, reported, busVars>>

(* 300 s without a callback.                                               *)
TimeOut(x) ==
  /\ exec[x].pc = "waiting"
  /\ exec' = [exec EXCEPT ![x] = [pc |-> "answered", status |-> "TIMEOUT"]]
  /\ UNCHANGED <<brokerOrder, reported, busVars>>

-----------------------------------------------------------------------------
(* Mutant: the result goes to whichever execution waits.                   *)
AwaitingAny(a) == {x \in Executions : exec[x].pc \in {"emitting", "waiting"}}

(* The executions a result is for: they wait under the token in the row of *)
(* subject.orderId.  An Alpaca result has nestfolioOrderId instead; the    *)
(* event id, taken in its place, is no order's.                            *)
Awaiting(a) ==
  {x \in Executions : /\ exec[x].pc \in {"emitting", "waiting"}
                      /\ a.by = "sim"
                      /\ brokerOrder[a.of].token = Token(x)}

(* callback-resolver.ts: without a row the result is skipped; under a dead *)
(* token SendTaskSuccess fails for good and the result is dropped.  A task *)
(* may be answered while its Lambda is still about to send the request.    *)
ResolveCallback(a) ==
  /\ a \in results /\ a.of \in Orders
  /\ Consume(a)
  /\ exec' = [x \in Executions |->
       IF x \in Awaiting(a) THEN [pc |-> "answered", status |-> a.status] ELSE exec[x]]
  /\ requests' = requests \union
       {Token(x) : x \in {y \in Awaiting(a) : exec[y].pc = "emitting"}}
  /\ UNCHANGED <<brokerOrder, reported>>

-----------------------------------------------------------------------------
(* ClassifyResult.  The two branches of each Parallel are taken together,  *)
(* except when one of their writes fails.                                  *)
Report(x, event) == reported' = reported \union {<<x, event>>}

MarkFilled(x) ==
  /\ exec[x].pc = "answered" /\ exec[x].status = "FILLED"
  /\ SetState(x, "FILLED")
  /\ Report(x, "ORDER_FILLED")
  /\ SetExec(x, "done")
  /\ UNCHANGED busVars

(* Mutant: the row takes the name of the adapter's answer.                 *)
HandleTimeoutByStatus(x) ==
  /\ exec[x].pc = "answered" /\ exec[x].status = "TIMEOUT"
  /\ SetState(x, exec[x].status)
  /\ Report(x, "ORDER_ESCALATED")
  /\ SetExec(x, "done")
  /\ UNCHANGED busVars

HandleTimeout(x) ==
  /\ exec[x].pc = "answered" /\ exec[x].status = "TIMEOUT"
  /\ SetState(x, "ESCALATED")
  /\ Report(x, "ORDER_ESCALATED")
  /\ SetExec(x, "done")
  /\ UNCHANGED busVars

(* A write fails; of two branches the other may have done its write.       *)
MarkFails(x) ==
  /\ exec[x].pc = "answered"
  /\ Fault
  /\ \/ UNCHANGED <<brokerOrder, reported>>
     \/ /\ exec[x].status = "FILLED"
        /\ \/ SetState(x, "FILLED") /\ UNCHANGED reported
           \/ Report(x, "ORDER_FILLED") /\ UNCHANGED brokerOrder
     \/ /\ exec[x].status = "TIMEOUT"
        /\ \/ SetState(x, "ESCALATED") /\ UNCHANGED reported
           \/ Report(x, "ORDER_ESCALATED") /\ UNCHANGED brokerOrder
  /\ SetExec(x, "dead")
  /\ UNCHANGED <<requests, results>>

-----------------------------------------------------------------------------
Workflow(x) ==
  \/ Start(x) \/ CreateOrder(x) \/ EmitRequest(x) \/ TimeOut(x)
  \/ MarkFilled(x) \/ HandleTimeout(x)

Resolve(o) == \E a \in results : a.of = o /\ ResolveCallback(a)

OrderNext ==
  \/ \E x \in Executions : Workflow(x) \/ RouteFails(x) \/ MarkFails(x)
  \/ \E o \in Orders : Resolve(o)

-----------------------------------------------------------------------------
(* Every variable of the workflow stays in its type.                       *)
OrderTypeOK ==
  /\ exec \in [Executions ->
       [pc : {"absent", "submitted"} \union Running \union Ended,
        status : {"none", "FILLED", "TIMEOUT"}]]
  /\ brokerOrder \in [Orders ->
       [state : {"none", "AWAITING_FILL", "FILLED", "ESCALATED"},
        token : Requests \union {NoToken}]]
  /\ reported \subseteq Executions \X {"ORDER_FILLED", "ORDER_ESCALATED"}

(* Every execution comes to an end, whatever it waits for and whoever has  *)
(* overwritten its token.                                                  *)
EveryOrderEnds == <>[](\A x \in Executions : exec[x].pc \notin Running)
=============================================================================
