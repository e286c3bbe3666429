------------------------------- MODULE Funding -------------------------------
(***************************************************************************)
(* broker-ctrl's transfers and investor-bff's view of them.  The router    *)
(* sends a request to the adapter of the cached execution mode and records *)
(* the transfer as requested; the normalizer turns the adapter's result    *)
(* into detected, settled and failed.  Each status is a carrier row of its *)
(* own, whose first write is announced; investor-bff projects the          *)
(* announcements, in whatever order they come, by the status' ordinal.     *)
(***************************************************************************)
EXTENDS BrokerBus, Sequences

VARIABLES
  router,    \* the router's handler of each transfer
  carriers,  \* FundingEvent rows: the transfer and its status
  row        \* investor-bff: ordinal of the projected row, 0 while absent

fundingVars == <<router, carriers, row>>

STATUS_ORDINAL == [requested |-> 1, detected |-> 2, settled |-> 3, failed |-> 3]
Statuses == DOMAIN STATUS_ORDINAL

FundingInit(submitted) ==
  /\ router = [t \in Transfers |-> IF t \in submitted THEN "queued" ELSE "absent"]
  /\ carriers = {}
  /\ row = [t \in Transfers |-> 0]

-----------------------------------------------------------------------------
(* The request has a fresh event id, and is sent before the carrier is     *)
(* written: a crash in between sends it again under another id.            *)
RouteTransfer(t) ==
  /\ router[t] = "queued"
  /\ \E n \in Rounds :
       /\ <<t, n>> \notin requests
       /\ \A i \in 1 .. n - 1 : <<t, i>> \in requests
       /\ requests' = requests \union {<<t, n>>}
  /\ router' = [router EXCEPT ![t] = "sent"]
  /\ UNCHANGED <<carriers, row, results, faults>>

RecordRequested(t) ==
  /\ router[t] = "sent"
  /\ carriers' = carriers \union {<<t, "requested">>}
  /\ router' = [router EXCEPT ![t] = "done"]
  /\ UNCHANGED <<row, busVars>>

RedeliverTransfer(t) ==
  /\ router[t] \in {"sent", "done"}
  /\ Fault
  /\ router' = [router EXCEPT ![t] = "queued"]
  /\ UNCHANGED <<carriers, row, requests, results>>

-----------------------------------------------------------------------------
(* The statuses a result is normalized to, in the order of their writes.   *)
CarriersOf(a) ==
  IF a.status = "FAILED" THEN <<"failed">>
  ELSE IF a.of \in Deposits THEN <<"detected", "settled">>
  ELSE <<"settled">>

(* One write after the other; the result is done with the last.  A crash   *)
(* in between starts over, with the first writes already made.             *)
NormalizeFirst(a) ==
  /\ a \in results /\ a.of \in Transfers
  /\ Len(CarriersOf(a)) = 2
  /\ <<a.of, CarriersOf(a)[1]>> \notin carriers
  /\ carriers' = carriers \union {<<a.of, CarriersOf(a)[1]>>}
  /\ UNCHANGED <<router, row, busVars>>

NormalizeLast(a) ==
  /\ a \in results /\ a.of \in Transfers
  /\ LET list == CarriersOf(a) IN
       /\ Len(list) = 2 => <<a.of, list[1]>> \in carriers
       /\ carriers' = carriers \union {<<a.of, list[Len(list)]>>}
  /\ Consume(a)
  /\ UNCHANGED <<router, row, requests>>

-----------------------------------------------------------------------------
(* depositLifecycle, withdrawalLifecycle: an announcement is delivered at  *)
(* some time, perhaps again; an ordinal that is not higher changes nothing.*)
Project(t, status) ==
  /\ <<t, status>> \in carriers
  /\ row[t] < STATUS_ORDINAL[status]
  /\ row' = [row EXCEPT ![t] = STATUS_ORDINAL[status]]
  /\ UNCHANGED <<router, carriers, busVars>>

-----------------------------------------------------------------------------
Route(t) == RouteTransfer(t) \/ RecordRequested(t)
Normalize(t) == \E a \in results : a.of = t /\ (NormalizeFirst(a) \/ NormalizeLast(a))
Show(t) == \E status \in Statuses : Project(t, status)

FundingNext ==
  \E t \in Transfers :
    Route(t) \/ RedeliverTransfer(t) \/ Normalize(t) \/ Show(t)

-----------------------------------------------------------------------------
(* Every variable of the transfers stays in its type.                      *)
FundingTypeOK ==
  /\ router \in [Transfers -> {"absent", "queued", "sent", "done"}]
  /\ carriers \subseteq Transfers \X Statuses
  /\ row \in [Transfers -> 0 .. 3]
=============================================================================
