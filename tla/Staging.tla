------------------------------ MODULE Staging ------------------------------
(***************************************************************************)
(* execution-ctrl: the orders of one tenant.                               *)
(*                                                                         *)
(* The ingress expands an authorizing event into one order per trade: it   *)
(* first plans all its writes, reading the market hours once, and then     *)
(* performs them one by one, each a put that only succeeds on an absent    *)
(* row.  An order that waits for the market has two rows, the Order with   *)
(* status STAGED and a StagedOrder, here its ticket.                       *)
(*                                                                         *)
(* The scheduled processor lists the tickets, checks each again, updates   *)
(* the order and deletes the ticket.  Both read the tickets from secondary *)
(* indexes that lag behind the table.                                      *)
(***************************************************************************)
EXTENDS Integers, Sequences, FiniteSets

CONSTANTS
  Messages,   \* deliveries' events: DECISION_APPROVED and USER_CONFIRMED
  Orders,     \* order ids, authorizingEventId#index
  OrdersOf,   \* the orders of each message, in trade order
  SymbolOf,   \* the symbol an order trades
  Runs,       \* invocations of the processor that may overlap
  NoOrder,    \* no order in hand
  MaxFaults   \* bound on crashes, redeliveries and failed requests

ASSUME StagingAssumption ==
  /\ OrdersOf \in [Messages -> Seq(Orders)]
  /\ DOMAIN SymbolOf = Orders
  /\ NoOrder \notin Orders
  /\ MaxFaults \in Nat

VARIABLES
  open,       \* the US market is open
  exec,       \* the handler execution of each message
  order,      \* status of the Order row, "none" when it is absent
  tickets,    \* orders with a StagedOrder row
  byTenant,   \* tickets the tenantId-index shows
  byType,     \* tickets the typename-timestamp-index shows
  run,        \* the processor runs
  faults

indexes == <<byTenant, byType>>
vars == <<open, exec, order, tickets, indexes, run, faults>>

Trades(m) == DOMAIN OrdersOf[m]

Queued(m) == [pc |-> "queued", i |-> 1, plan |-> [i \in Trades(m) |-> "none"]]
Asleep == [pc |-> "idle", batch |-> {}, at |-> NoOrder, verdict |-> "none"]

Init ==
  /\ open \in BOOLEAN
  /\ exec = [m \in Messages |-> Queued(m)]
  /\ order = [o \in Orders |-> "none"]
  /\ tickets = {}
  /\ byTenant = {}
  /\ byType = {}
  /\ run = [r \in Runs |-> Asleep]
  /\ faults = 0

Fault == faults < MaxFaults /\ faults' = faults + 1

-----------------------------------------------------------------------------
(* market-hours.service.ts                                                 *)
MarketTurns ==
  /\ open' = ~open
  /\ UNCHANGED <<exec, order, tickets, indexes, run, faults>>

(* A secondary index catches up with the table.                            *)
ReplicateTenantIndex ==
  /\ byTenant # tickets
  /\ byTenant' = tickets
  /\ UNCHANGED <<open, exec, order, tickets, byType, run, faults>>

ReplicateTypeIndex ==
  /\ byType # tickets
  /\ byType' = tickets
  /\ UNCHANGED <<open, exec, order, tickets, byTenant, run, faults>>

-----------------------------------------------------------------------------
(* safety-checks.service.ts: any ticket of the same symbol conflicts, the  *)
(* order's own ticket included.                                            *)
Conflicting(o) == {p \in byTenant : SymbolOf[p] = SymbolOf[o]}

-----------------------------------------------------------------------------
(* The ingress: processApprovedDecision, then the intents in order.  The   *)
(* checks of one message's trades are taken together: none of its own      *)
(* tickets is written before the last check.                               *)

Decision(o) ==
  IF Conflicting(o) # {} THEN "REJECTED"
  ELSE IF open THEN "SUBMITTED"
  ELSE "STAGED"

At(m) == OrdersOf[m][exec[m].i]
Planned(m) == exec[m].plan[exec[m].i]

(* Mutant: the loop over the trades runs one too far.                      *)
AdvancePastEnd(m) ==
  IF exec[m].i > Len(OrdersOf[m])
  THEN [exec[m] EXCEPT !.pc = "done"]
  ELSE [exec[m] EXCEPT !.pc = "order", !.i = @ + 1]

(* The execution after its i-th trade.                                     *)
Advance(m) ==
  IF exec[m].i = Len(OrdersOf[m])
  THEN [exec[m] EXCEPT !.pc = "done"]
  ELSE [exec[m] EXCEPT !.pc = "order", !.i = @ + 1]

PlanOrders(m) ==
  /\ exec[m].pc = "queued"
  /\ exec' = [exec EXCEPT ![m] =
       [pc |-> IF OrdersOf[m] = <<>> THEN "done" ELSE "order",
        i |-> 1,
        plan |-> [i \in Trades(m) |-> Decision(OrdersOf[m][i])]]]
  /\ UNCHANGED <<open, order, tickets, indexes, run, faults>>

(* Mutant: no row for a trade that fails the checks.                       *)
RecordUnlessRejected(o, status) ==
  IF order[o] = "none" /\ status # "REJECTED"
  THEN [order EXCEPT ![o] = status] ELSE order

(* record(): a row that is already there is left as it is.                 *)
Record(o, status) ==
  IF order[o] = "none" THEN [order EXCEPT ![o] = status] ELSE order

RecordOrder(m) ==
  /\ exec[m].pc = "order"
  /\ order' = Record(At(m), Planned(m))
  /\ exec' = [exec EXCEPT ![m] =
       IF Planned(m) = "STAGED" THEN [@ EXCEPT !.pc = "ticket"] ELSE Advance(m)]
  /\ UNCHANGED <<open, tickets, indexes, run, faults>>

RecordTicket(m) ==
  /\ exec[m].pc = "ticket"
  /\ tickets' = tickets \union {At(m)}
  /\ exec' = [exec EXCEPT ![m] = Advance(m)]
  /\ UNCHANGED <<open, order, indexes, run, faults>>

(* A crash or a failed put, or SQS handing a finished message out again.   *)
Redeliver(m) ==
  /\ exec[m].pc # "queued"
  /\ Fault
  /\ exec' = [exec EXCEPT ![m] = Queued(m)]
  /\ UNCHANGED <<open, order, tickets, indexes, run>>

-----------------------------------------------------------------------------
(* The processor: staged-order-processor.ts.  The schedule knows weekdays, *)
(* not the market: a run may start while the market is closed.             *)

(* getAllStagedOrders: keys from the index, items from the table.  Keys    *)
(* BatchGet leaves unprocessed are not asked for again.                    *)
ListTickets(r) ==
  /\ run[r].pc = "idle"
  /\ \E batch \in SUBSET (byType \intersect tickets) :
       /\ batch # {}
       /\ IF batch = byType \intersect tickets THEN UNCHANGED faults ELSE Fault
       /\ run' = [run EXCEPT ![r].pc = "next", ![r].batch = batch]
  /\ UNCHANGED <<open, exec, order, tickets, indexes>>

CheckTicket(r) ==
  /\ run[r].pc = "next"
  /\ \E o \in run[r].batch :
       run' = [run EXCEPT ![r] =
         [pc |-> "checked", batch |-> run[r].batch \ {o}, at |-> o,
          verdict |-> IF Conflicting(o) = {} THEN "SUBMITTED" ELSE "REJECTED"]]
  /\ UNCHANGED <<open, exec, order, tickets, indexes, faults>>

(* updateOrderStatus has no condition.                                     *)
UpdateOrderStatus(r) ==
  /\ run[r].pc = "checked"
  /\ order' = [order EXCEPT ![run[r].at] = run[r].verdict]
  /\ run' = [run EXCEPT ![r].pc = "updated"]
  /\ UNCHANGED <<open, exec, tickets, indexes, faults>>

NextTicket(r) ==
  IF run[r].batch = {} THEN Asleep
  ELSE [pc |-> "next", batch |-> run[r].batch, at |-> NoOrder,
        verdict |-> "none"]

(* Mutant: only a submitted order's ticket is deleted.                     *)
DeleteTicketOfSubmitted(r) ==
  /\ run[r].pc = "updated"
  /\ tickets' = IF run[r].verdict = "SUBMITTED"
                THEN tickets \ {run[r].at} ELSE tickets
  /\ run' = [run EXCEPT ![r] = NextTicket(r)]
  /\ UNCHANGED <<open, exec, order, indexes, faults>>

DeleteTicket(r) ==
  /\ run[r].pc = "updated"
  /\ tickets' = tickets \ {run[r].at}
  /\ run' = [run EXCEPT ![r] = NextTicket(r)]
  /\ UNCHANGED <<open, exec, order, indexes, faults>>

(* A request fails: the error is counted and the run goes on with its next *)
(* ticket; or the Lambda dies.                                             *)
RunFault(r) ==
  /\ run[r].pc \in {"checked", "updated"}
  /\ Fault
  /\ run' \in {[run EXCEPT ![r] = NextTicket(r)], [run EXCEPT ![r] = Asleep]}
  /\ UNCHANGED <<open, exec, order, tickets, indexes>>

-----------------------------------------------------------------------------
Ingress(m) == PlanOrders(m) \/ RecordOrder(m) \/ RecordTicket(m)

Process(r) ==
  ListTickets(r) \/ CheckTicket(r) \/ UpdateOrderStatus(r) \/ DeleteTicket(r)

Next ==
  \/ MarketTurns
  \/ ReplicateTenantIndex
  \/ ReplicateTypeIndex
  \/ \E m \in Messages : Ingress(m) \/ Redeliver(m)
  \/ \E r \in Runs : Process(r) \/ RunFault(r)

Spec == Init /\ [][Next]_vars

(* SQS keeps handing a message out, the indexes catch up, the schedule     *)
(* fires every weekday.  Nothing is assumed of the market.                 *)
Fairness ==
  /\ WF_vars(ReplicateTenantIndex) /\ WF_vars(ReplicateTypeIndex)
  /\ \A m \in Messages : WF_vars(Ingress(m))
  /\ \A r \in Runs : WF_vars(Process(r))

FairSpec == Spec /\ Fairness

-----------------------------------------------------------------------------
(* Properties                                                              *)

Statuses == {"SUBMITTED", "STAGED", "REJECTED"}

(* An execution about to write has a trade in hand and has decided all.    *)
ExecOK(m) ==
  /\ exec[m] \in [pc : {"queued", "order", "ticket", "done"}, i : Nat \ {0},
                  plan : [Trades(m) -> Statuses \union {"none"}]]
  /\ exec[m].pc \in {"order", "ticket"} => exec[m].i \in Trades(m)
  /\ exec[m].pc # "queued" => exec[m].plan \in [Trades(m) -> Statuses]

(* A run that has checked a ticket has an order and a verdict in hand.     *)
RunOK(r) ==
  /\ run[r] \in [pc : {"idle", "next", "checked", "updated"},
                 batch : SUBSET Orders,
                 at : Orders \union {NoOrder},
                 verdict : {"none", "SUBMITTED", "REJECTED"}]
  /\ run[r].pc \in {"checked", "updated"} =>
       run[r].at \in Orders /\ run[r].verdict # "none"

(* Every variable stays in its type.                                       *)
TypeOK ==
  /\ open \in BOOLEAN
  /\ DOMAIN exec = Messages /\ \A m \in Messages : ExecOK(m)
  /\ order \in [Orders -> Statuses \union {"none"}]
  /\ tickets \subseteq Orders
  /\ byTenant \subseteq Orders
  /\ byType \subseteq Orders
  /\ DOMAIN run = Runs /\ \A r \in Runs : RunOK(r)
  /\ faults \in 0 .. MaxFaults

(* The processor updates orders without asking whether they exist, so a    *)
(* ticket, and whatever a run took from a ticket, must have its order.     *)
TicketHasOrder ==
  /\ \A o \in tickets : order[o] # "none"
  /\ \A r \in Runs : \A o \in run[r].batch \union {run[r].at} :
       o # NoOrder => order[o] # "none"

(* A message the queue has deleted has left an order for every trade,      *)
(* however often it crashed halfway and whatever the market did meanwhile. *)
EveryTradeOrdered ==
  \A m \in Messages : exec[m].pc = "done" =>
    \A i \in DOMAIN OrdersOf[m] : order[OrdersOf[m][i]] # "none"

(* An order's status only ever changes by the processor: a second delivery *)
(* under other market hours or other conflicts does not decide again.      *)
IngressDecidesOnce ==
  [][\A o \in Orders :
       order[o] # "none" /\ order'[o] # order[o] =>
         \E r \in Runs : run[r].pc = "checked" /\ run[r].at = o]_vars

(* Every ticket is worked off in the end, failed runs notwithstanding.     *)
TicketsWorkedOff == \A o \in Orders : (o \in tickets) ~> (o \notin tickets)

=============================================================================
