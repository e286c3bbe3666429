--------------------------- MODULE Staging_proofs ---------------------------
(***************************************************************************)
(* Proofs about Staging, for any messages, trades, runs and number of      *)
(* faults.  No step of any actor takes an order away (OrderKept); from     *)
(* this the ingress's promise follows by induction on the trades it has    *)
(* written, and the processor's by following each ticket from the table    *)
(* to the runs that have read it.  A ticket that leaves the table has its  *)
(* order decided, since a run decides the order before it deletes.         *)
(***************************************************************************)
EXTENDS Staging, TLAPS

(* What an execution has written so far: the orders of the trades before   *)
(* the one in hand, the order of the one whose ticket is next, all of them *)
(* when it is done.                                                        *)
Written ==
  \A m \in Messages :
    /\ exec[m].pc \in {"order", "ticket"} =>
         \A j \in Trades(m) : j < exec[m].i => order[OrdersOf[m][j]] # "none"
    /\ exec[m].pc = "ticket" => order[At(m)] # "none"
    /\ exec[m].pc = "done" =>
         \A j \in Trades(m) : order[OrdersOf[m][j]] # "none"

IInv == TypeOK /\ TicketHasOrder /\ Written

(* The trades of a message are the numbers from 1 to its length, and each  *)
(* is an order.                                                            *)
LEMMA TradesFacts ==
  ASSUME NEW m \in Messages
  PROVE  /\ OrdersOf[m] \in Seq(Orders)
         /\ Len(OrdersOf[m]) \in Nat
         /\ Trades(m) = 1 .. Len(OrdersOf[m])
         /\ \A i \in Trades(m) : OrdersOf[m][i] \in Orders
<1>1. OrdersOf[m] \in Seq(Orders)
  BY StagingAssumption
<1>2. QED
  BY <1>1 DEF Trades

(* The next state of an execution that has written its trade in hand.      *)
LEMMA AdvanceType ==
  ASSUME NEW m \in Messages, ExecOK(m), exec[m].pc \in {"order", "ticket"}
  PROVE  /\ Advance(m) \in [pc : {"order", "done"}, i : Nat \ {0},
                           plan : [Trades(m) -> Statuses]]
         /\ Advance(m).pc = "order" =>
              /\ Advance(m).i = exec[m].i + 1
              /\ Advance(m).i \in Trades(m)
         /\ Advance(m).pc = "done" => exec[m].i = Len(OrdersOf[m])
<1> USE TradesFacts
<1>1. /\ exec[m].i \in Trades(m)
      /\ exec[m].plan \in [Trades(m) -> Statuses]
      /\ exec[m] \in [pc : {"queued", "order", "ticket", "done"}, i : Nat \ {0},
                      plan : [Trades(m) -> Statuses \union {"none"}]]
  BY DEF ExecOK
<1>2. CASE exec[m].i = Len(OrdersOf[m])
  <2>1. Advance(m) = [pc |-> "done", i |-> exec[m].i, plan |-> exec[m].plan]
    BY <1>1, <1>2 DEF Advance
  <2>2. QED
    BY <1>1, <1>2, <2>1
<1>3. CASE exec[m].i # Len(OrdersOf[m])
  <2>1. Advance(m) = [pc |-> "order", i |-> exec[m].i + 1, plan |-> exec[m].plan]
    BY <1>1, <1>3 DEF Advance
  <2>2. exec[m].i + 1 \in Trades(m)
    BY <1>1, <1>3
  <2>3. QED
    BY <1>1, <2>1, <2>2
<1>4. QED
  BY <1>2, <1>3

(* A run that goes on to its next ticket has none in hand.                 *)
LEMMA NextTicketType ==
  ASSUME NEW r \in Runs, RunOK(r)
  PROVE  /\ NextTicket(r) \in [pc : {"idle", "next"}, batch : SUBSET Orders,
                               at : {NoOrder}, verdict : {"none"}]
         /\ NextTicket(r).batch \subseteq run[r].batch
  BY DEF NextTicket, Asleep, RunOK

-----------------------------------------------------------------------------
(* At the start there are no tickets, no orders and no runs.               *)
LEMMA InitInductive == Init => IInv
<1> SUFFICES ASSUME Init PROVE IInv
  OBVIOUS
<1>1. TypeOK
  <2>1. \A m \in Messages : ExecOK(m)
    BY DEF Init, ExecOK, Queued
  <2>2. \A r \in Runs : RunOK(r)
    BY DEF Init, RunOK, Asleep
  <2>3. QED
    BY <2>1, <2>2, StagingAssumption DEF Init, TypeOK
<1>2. TicketHasOrder
  BY DEF Init, TicketHasOrder, Asleep
<1>3. Written
  BY DEF Init, Written, Queued
<1>4. QED
  BY <1>1, <1>2, <1>3 DEF IInv

(* Every step keeps the types.                                             *)
LEMMA TypePreserved == TypeOK /\ [Next]_vars => TypeOK'
<1> SUFFICES ASSUME TypeOK, [Next]_vars PROVE TypeOK'
  OBVIOUS
<1> USE StagingAssumption, TradesFacts
<1>1. CASE MarketTurns \/ ReplicateTenantIndex \/ ReplicateTypeIndex
  BY <1>1 DEF TypeOK, ExecOK, RunOK, MarketTurns, ReplicateTenantIndex,
              ReplicateTypeIndex, indexes
<1>2. ASSUME NEW m \in Messages, PlanOrders(m) PROVE TypeOK'
  <2>1. \A o \in Orders : Decision(o) \in Statuses
    BY DEF Decision, Statuses
  <2>2. [i \in Trades(m) |-> Decision(OrdersOf[m][i])] \in [Trades(m) -> Statuses]
    BY <2>1
  <2>3. OrdersOf[m] # <<>> => 1 \in Trades(m)
    OBVIOUS
  <2>4. ExecOK(m)'
    BY <1>2, <2>2, <2>3 DEF TypeOK, ExecOK, PlanOrders
  <2>5. \A n \in Messages : ExecOK(n)'
    BY <1>2, <2>4 DEF TypeOK, ExecOK, PlanOrders
  <2>6. QED
    BY <1>2, <2>5 DEF TypeOK, RunOK, PlanOrders, indexes
<1>3. ASSUME NEW m \in Messages, RecordOrder(m) PROVE TypeOK'
  <2>1. /\ ExecOK(m)
        /\ exec[m].pc = "order"
        /\ exec[m].i \in Trades(m)
        /\ Planned(m) \in Statuses
        /\ At(m) \in Orders
    BY <1>3 DEF TypeOK, ExecOK, RecordOrder, Planned, At
  <2>2. order' \in [Orders -> Statuses \union {"none"}]
    BY <1>3, <2>1 DEF TypeOK, RecordOrder, Record
  <2>3. ExecOK(m)'
    <3>1. CASE Planned(m) = "STAGED"
      BY <1>3, <2>1, <3>1 DEF TypeOK, ExecOK, RecordOrder
    <3>2. CASE Planned(m) # "STAGED"
      <4>1. exec'[m] = Advance(m)
        BY <1>3, <3>2 DEF TypeOK, RecordOrder
      <4>2. QED
        BY <2>1, <4>1, AdvanceType DEF ExecOK
    <3>3. QED
      BY <3>1, <3>2
  <2>4. \A n \in Messages : ExecOK(n)'
    BY <1>3, <2>3 DEF TypeOK, ExecOK, RecordOrder
  <2>5. QED
    BY <1>3, <2>2, <2>4 DEF TypeOK, RunOK, RecordOrder, indexes
<1>4. ASSUME NEW m \in Messages, RecordTicket(m) PROVE TypeOK'
  <2>1. /\ ExecOK(m)
        /\ exec[m].pc = "ticket"
        /\ At(m) \in Orders
    BY <1>4 DEF TypeOK, ExecOK, RecordTicket, At
  <2>2. ExecOK(m)'
    <3>1. exec'[m] = Advance(m)
      BY <1>4 DEF TypeOK, RecordTicket
    <3>2. QED
      BY <2>1, <3>1, AdvanceType DEF ExecOK
  <2>3. \A n \in Messages : ExecOK(n)'
    BY <1>4, <2>2 DEF TypeOK, ExecOK, RecordTicket
  <2>4. QED
    BY <1>4, <2>1, <2>3 DEF TypeOK, RunOK, RecordTicket, indexes
<1>5. ASSUME NEW m \in Messages, Redeliver(m) PROVE TypeOK'
  <2>1. \A n \in Messages : ExecOK(n)'
    BY <1>5 DEF TypeOK, ExecOK, Redeliver, Queued
  <2>2. faults' \in 0 .. MaxFaults
    BY <1>5 DEF TypeOK, Redeliver, Fault
  <2>3. QED
    BY <1>5, <2>1, <2>2 DEF TypeOK, RunOK, Redeliver, indexes
<1>6. ASSUME NEW r \in Runs, ListTickets(r) PROVE TypeOK'
  <2>1. PICK batch \in SUBSET (byType \intersect tickets) :
          /\ faults' = faults \/ Fault
          /\ run' = [run EXCEPT ![r].pc = "next", ![r].batch = batch]
    BY <1>6 DEF ListTickets
  <2>2. faults' \in 0 .. MaxFaults
    BY <2>1 DEF TypeOK, Fault
  <2>3. \A q \in Runs : RunOK(q)'
    <3>1. run'[r] = [run[r] EXCEPT !.pc = "next", !.batch = batch]
      BY <2>1 DEF TypeOK
    <3>2. \A q \in Runs \ {r} : run'[q] = run[q]
      BY <2>1 DEF TypeOK
    <3>3. /\ run'[r].pc = "next"
          /\ run'[r].batch = batch
          /\ run'[r] = [pc |-> "next", batch |-> batch,
                        at |-> run[r].at, verdict |-> run[r].verdict]
      BY <3>1 DEF TypeOK, RunOK
    <3>4. /\ batch \in SUBSET Orders
          /\ run[r].at \in Orders \union {NoOrder}
          /\ run[r].verdict \in {"none", "SUBMITTED", "REJECTED"}
      BY <2>1 DEF TypeOK, RunOK
    <3>5. RunOK(r)'
      BY <3>3, <3>4 DEF RunOK
    <3>6. QED
      BY <3>2, <3>5 DEF TypeOK, RunOK
  <2>4. QED
    BY <1>6, <2>1, <2>2, <2>3 DEF TypeOK, ExecOK, ListTickets, indexes
<1>7. ASSUME NEW r \in Runs, CheckTicket(r) PROVE TypeOK'
  <2>1. PICK o \in run[r].batch : run' = [run EXCEPT ![r] =
          [pc |-> "checked", batch |-> run[r].batch \ {o}, at |-> o,
           verdict |-> IF Conflicting(o) = {} THEN "SUBMITTED" ELSE "REJECTED"]]
    BY <1>7 DEF CheckTicket
  <2>2. o \in Orders /\ run[r].batch \subseteq Orders
    BY <2>1 DEF TypeOK, RunOK
  <2>3. \A q \in Runs : RunOK(q)'
    BY <2>1, <2>2 DEF TypeOK, RunOK
  <2>4. QED
    BY <1>7, <2>1, <2>3 DEF TypeOK, ExecOK, CheckTicket, indexes
<1>8. ASSUME NEW r \in Runs, UpdateOrderStatus(r) PROVE TypeOK'
  <2>1. run[r].at \in Orders /\ run[r].verdict \in Statuses
    BY <1>8 DEF TypeOK, RunOK, UpdateOrderStatus, Statuses
  <2>2. order' \in [Orders -> Statuses \union {"none"}]
    BY <1>8, <2>1 DEF TypeOK, UpdateOrderStatus
  <2>3. \A q \in Runs : RunOK(q)'
    BY <1>8 DEF TypeOK, RunOK, UpdateOrderStatus
  <2>4. QED
    BY <1>8, <2>2, <2>3 DEF TypeOK, ExecOK, UpdateOrderStatus, indexes
<1>9. ASSUME NEW r \in Runs, DeleteTicket(r) PROVE TypeOK'
  <2>1. \A q \in Runs : RunOK(q)'
    BY <1>9, NextTicketType DEF TypeOK, RunOK, DeleteTicket
  <2>2. QED
    BY <1>9, <2>1 DEF TypeOK, ExecOK, DeleteTicket, indexes
<1>10. ASSUME NEW r \in Runs, RunFault(r) PROVE TypeOK'
  <2>1. \A q \in Runs : RunOK(q)'
    <3>1. run'[r] \in {NextTicket(r), Asleep}
      BY <1>10 DEF TypeOK, RunFault
    <3>2. \A q \in Runs \ {r} : run'[q] = run[q]
      BY <1>10 DEF TypeOK, RunFault
    <3>3. RunOK(r)'
      BY <3>1, NextTicketType DEF TypeOK, RunOK, Asleep
    <3>4. QED
      BY <3>2, <3>3 DEF TypeOK, RunOK
  <2>2. faults' \in 0 .. MaxFaults
    BY <1>10 DEF TypeOK, RunFault, Fault
  <2>3. QED
    BY <1>10, <2>1, <2>2 DEF TypeOK, ExecOK, RunFault, indexes
<1>11. CASE UNCHANGED vars
  BY <1>11 DEF TypeOK, ExecOK, RunOK, vars, indexes
<1>12. QED
  BY <1>1, <1>2, <1>3, <1>4, <1>5, <1>6, <1>7, <1>8, <1>9, <1>10, <1>11
  DEF Next, Ingress, Process

(* An order, once recorded, never disappears: the ingress writes absent    *)
(* rows only and the processor writes a verdict.                           *)
LEMMA OrderKept ==
  ASSUME TypeOK, [Next]_vars, NEW o \in Orders, order[o] # "none"
  PROVE  order'[o] # "none"
<1>1. ASSUME NEW m \in Messages, RecordOrder(m) PROVE order'[o] # "none"
  BY <1>1 DEF TypeOK, RecordOrder, Record
<1>2. ASSUME NEW r \in Runs, UpdateOrderStatus(r) PROVE order'[o] # "none"
  BY <1>2 DEF TypeOK, RunOK, UpdateOrderStatus
<1>3. CASE UNCHANGED order
  BY <1>3
<1>4. QED
  BY <1>1, <1>2, <1>3
  DEF Next, Ingress, Process, MarketTurns, ReplicateTenantIndex,
      ReplicateTypeIndex, PlanOrders, RecordTicket, Redeliver, ListTickets,
      CheckTicket, DeleteTicket, RunFault, vars
(* A ticket, and what a run holds, keeps its order.  Tickets come from an  *)
(* execution that has recorded the order, batches from the tickets.        *)
LEMMA TicketHasOrderPreserved ==
  IInv /\ [Next]_vars => TicketHasOrder'
<1> SUFFICES ASSUME IInv, [Next]_vars PROVE TicketHasOrder'
  OBVIOUS
<1> USE DEF IInv
<1>0. NoOrder \notin Orders
  BY StagingAssumption
<1>1. \A o \in tickets' : order'[o] # "none"
  <2>1. ASSUME NEW m \in Messages, RecordTicket(m), NEW o \in tickets'
        PROVE  order'[o] # "none"
    BY <2>1 DEF RecordTicket, TicketHasOrder, Written
  <2>2. CASE tickets' \subseteq tickets
    BY <2>2, OrderKept DEF TypeOK, TicketHasOrder
  <2>3. QED
    BY <2>1, <2>2
    DEF Next, Ingress, Process, MarketTurns, ReplicateTenantIndex,
        ReplicateTypeIndex, PlanOrders, RecordOrder, Redeliver, ListTickets,
        CheckTicket, UpdateOrderStatus, DeleteTicket, RunFault, vars
<1>2. ASSUME NEW q \in Runs
      PROVE  \A o \in run'[q].batch \union {run'[q].at} :
               o # NoOrder => order'[o] # "none"
  <2> DEFINE Held(s) == s.batch \union {s.at}
  <2>1. Held(run'[q]) \subseteq Held(run[q]) \union tickets \union {NoOrder}
    <3>1. ASSUME NEW r \in Runs, ListTickets(r)
          PROVE  Held(run'[q]) \subseteq Held(run[q]) \union tickets \union {NoOrder}
      <4>1. PICK batch \in SUBSET (byType \intersect tickets) :
              run' = [run EXCEPT ![r].pc = "next", ![r].batch = batch]
        BY <3>1 DEF ListTickets
      <4>2. CASE q = r
        <5>1. run'[q].batch = batch /\ run'[q].at = run[q].at
          BY <4>1, <4>2 DEF TypeOK, RunOK
        <5>2. QED
          BY <5>1
      <4>3. CASE q # r
        <5>1. run'[q] = run[q]
          BY <4>1, <4>3 DEF TypeOK
        <5>2. QED
          BY <5>1
      <4>4. QED
        BY <4>2, <4>3
    <3>2. ASSUME NEW r \in Runs, CheckTicket(r)
          PROVE  Held(run'[q]) \subseteq Held(run[q]) \union tickets \union {NoOrder}
      <4>1. PICK o \in run[r].batch : run' = [run EXCEPT ![r] =
              [pc |-> "checked", batch |-> run[r].batch \ {o}, at |-> o,
               verdict |-> IF Conflicting(o) = {} THEN "SUBMITTED" ELSE "REJECTED"]]
        BY <3>2 DEF CheckTicket
      <4>2. CASE q = r
        <5>1. run'[q].batch = run[q].batch \ {o} /\ run'[q].at = o
          BY <4>1, <4>2 DEF TypeOK
        <5>2. QED
          BY <4>2, <5>1
      <4>3. CASE q # r
        <5>1. run'[q] = run[q]
          BY <4>1, <4>3 DEF TypeOK
        <5>2. QED
          BY <5>1
      <4>4. QED
        BY <4>2, <4>3
    <3>3. ASSUME NEW r \in Runs, UpdateOrderStatus(r)
          PROVE  Held(run'[q]) \subseteq Held(run[q]) \union tickets \union {NoOrder}
      <4>1. run'[q].batch = run[q].batch /\ run'[q].at = run[q].at
        BY <3>3 DEF TypeOK, RunOK, UpdateOrderStatus
      <4>2. QED
        BY <4>1
    <3>4. ASSUME NEW r \in Runs, DeleteTicket(r) \/ RunFault(r)
          PROVE  Held(run'[q]) \subseteq Held(run[q]) \union tickets \union {NoOrder}
      <4>1. CASE q = r
        <5>1. run'[q] \in {NextTicket(r), Asleep}
          BY <3>4, <4>1 DEF TypeOK, DeleteTicket, RunFault
        <5>2. QED
          BY <4>1, <5>1, NextTicketType DEF TypeOK, Asleep
      <4>2. CASE q # r
        <5>1. run'[q] = run[q]
          BY <3>4, <4>2 DEF TypeOK, DeleteTicket, RunFault
        <5>2. QED
          BY <5>1
      <4>3. QED
        BY <4>1, <4>2
    <3>5. CASE UNCHANGED run
      BY <3>5
    <3>6. QED
      BY <3>1, <3>2, <3>3, <3>4, <3>5
      DEF Next, Ingress, Process, MarketTurns, ReplicateTenantIndex,
          ReplicateTypeIndex, PlanOrders, RecordOrder, RecordTicket,
          Redeliver, vars
  <2>2. \A o \in Held(run[q]) \union tickets :
          o # NoOrder => o \in Orders /\ order[o] # "none"
    BY DEF TypeOK, RunOK, TicketHasOrder
  <2>3. QED
    BY <2>1, <2>2, OrderKept
<1>3. QED
  BY <1>1, <1>2 DEF TicketHasOrder

(* What the executions have written stays written, and an execution moves  *)
(* on from a trade only when the trade's order is there.                   *)
LEMMA WrittenPreserved == IInv /\ [Next]_vars => Written'
<1> SUFFICES ASSUME IInv, [Next]_vars, NEW n \in Messages
             PROVE  /\ exec'[n].pc \in {"order", "ticket"} =>
                         \A j \in Trades(n) :
                           j < exec'[n].i => order'[OrdersOf[n][j]] # "none"
                    /\ exec'[n].pc = "ticket" =>
                         order'[OrdersOf[n][exec'[n].i]] # "none"
                    /\ exec'[n].pc = "done" =>
                         \A j \in Trades(n) : order'[OrdersOf[n][j]] # "none"
  BY DEF Written, At
<1> USE TradesFacts DEF IInv
<1>1. \A j \in Trades(n) :
        order[OrdersOf[n][j]] # "none" => order'[OrdersOf[n][j]] # "none"
  BY OrderKept
<1>2. CASE exec'[n] = exec[n]
  BY <1>1, <1>2 DEF TypeOK, ExecOK, Written, At
<1>3. CASE PlanOrders(n)
  BY <1>3 DEF TypeOK, PlanOrders
<1>4. CASE RecordOrder(n)
  <2>1. /\ exec[n].i \in Trades(n) /\ exec[n].pc = "order" /\ ExecOK(n)
        /\ Planned(n) # "none"
    BY <1>4 DEF TypeOK, ExecOK, RecordOrder, Planned, Statuses
  <2>2. order'[OrdersOf[n][exec[n].i]] # "none"
    BY <1>4, <2>1 DEF TypeOK, RecordOrder, Record, At
  <2>3. CASE Planned(n) = "STAGED"
    <3>1. exec'[n] = [exec[n] EXCEPT !.pc = "ticket"]
      BY <1>4, <2>3 DEF TypeOK, RecordOrder
    <3>2. exec'[n].pc = "ticket" /\ exec'[n].i = exec[n].i
      BY <2>1, <3>1 DEF ExecOK
    <3>3. QED
      BY <1>1, <2>1, <2>2, <3>2 DEF Written
  <2>4. CASE Planned(n) # "STAGED"
    <3>1. exec'[n] = Advance(n)
      BY <1>4, <2>4 DEF TypeOK, RecordOrder
    <3>2. QED
      BY <1>1, <2>1, <2>2, <3>1, AdvanceType DEF Written
  <2>5. QED
    BY <2>3, <2>4
<1>5. CASE RecordTicket(n)
  <2>1. exec[n].i \in Trades(n) /\ exec[n].pc = "ticket" /\ ExecOK(n)
    BY <1>5 DEF TypeOK, ExecOK, RecordTicket
  <2>2. order'[OrdersOf[n][exec[n].i]] # "none"
    BY <1>1, <2>1 DEF Written, At
  <2>3. exec'[n] = Advance(n)
    BY <1>5 DEF TypeOK, RecordTicket
  <2>4. QED
    BY <1>1, <2>1, <2>2, <2>3, AdvanceType DEF Written
<1>6. CASE Redeliver(n)
  BY <1>6 DEF TypeOK, Redeliver, Queued
<1>7. ASSUME NEW m \in Messages, Ingress(m) \/ Redeliver(m)
      PROVE  \/ exec'[n] = exec[n]
             \/ PlanOrders(n) \/ RecordOrder(n) \/ RecordTicket(n) \/ Redeliver(n)
  <2>1. CASE m = n
    BY <1>7, <2>1 DEF Ingress
  <2>2. CASE m # n
    BY <1>7, <2>2
    DEF Ingress, PlanOrders, RecordOrder, RecordTicket, Redeliver, TypeOK
  <2>3. QED
    BY <2>1, <2>2
<1>8. CASE UNCHANGED exec
  BY <1>2, <1>8
<1>9. QED
  <2>1. \/ UNCHANGED exec
        \/ \E m \in Messages : Ingress(m) \/ Redeliver(m)
    BY DEF Next, Process, MarketTurns, ReplicateTenantIndex, ReplicateTypeIndex,
           ListTickets, CheckTicket, UpdateOrderStatus, DeleteTicket, RunFault,
           vars
  <2>2. QED
    BY <1>2, <1>3, <1>4, <1>5, <1>6, <1>7, <1>8, <2>1

(* The parts together are inductive.                                       *)
LEMMA StagingInductive == Spec => []IInv
<1>1. IInv /\ [Next]_vars => IInv'
  BY TypePreserved, TicketHasOrderPreserved, WrittenPreserved DEF IInv
<1>2. QED
  BY <1>1, InitInductive, PTL DEF Spec

-----------------------------------------------------------------------------
(* Every reachable state of execution-ctrl is well typed.                  *)
THEOREM StagingTypeCorrect == Spec => []TypeOK
<1>1. IInv => TypeOK
  BY DEF IInv
<1>2. QED
  BY <1>1, StagingInductive, PTL

(* The processor never finds a ticket, nor holds one it read long ago,     *)
(* whose order does not exist.                                             *)
THEOREM StagingTicketHasOrder == Spec => []TicketHasOrder
<1>1. IInv => TicketHasOrder
  BY DEF IInv
<1>2. QED
  BY <1>1, StagingInductive, PTL

(* A message whose execution has finished has an order for every trade,    *)
(* after any number of crashes and redeliveries.                           *)
THEOREM StagingEveryTradeOrdered == Spec => []EveryTradeOrdered
<1>1. IInv => EveryTradeOrdered
  BY DEF IInv, Written, EveryTradeOrdered, Trades
<1>2. QED
  BY <1>1, StagingInductive, PTL

(* No delivery, first or later, changes the status of a recorded order.    *)
THEOREM StagingIngressDecidesOnce == Spec => IngressDecidesOnce
<1> DEFINE Decided == \A o \in Orders :
      order[o] # "none" /\ order'[o] # order[o] =>
        \E r \in Runs : run[r].pc = "checked" /\ run[r].at = o
<1>1. ASSUME TypeOK, [Next]_vars, NEW o \in Orders,
             order[o] # "none", order'[o] # order[o]
      PROVE  \E r \in Runs : run[r].pc = "checked" /\ run[r].at = o
  <2>1. ASSUME NEW m \in Messages, RecordOrder(m) PROVE FALSE
    BY <1>1, <2>1 DEF TypeOK, RecordOrder, Record
  <2>2. ASSUME NEW r \in Runs, UpdateOrderStatus(r)
        PROVE  run[r].pc = "checked" /\ run[r].at = o
    BY <1>1, <2>2 DEF TypeOK, UpdateOrderStatus
  <2>3. QED
    BY <1>1, <2>1, <2>2
    DEF Next, Ingress, Process, MarketTurns, ReplicateTenantIndex,
        ReplicateTypeIndex, PlanOrders, RecordTicket, Redeliver, ListTickets,
        CheckTicket, DeleteTicket, RunFault, vars
<1>2. TypeOK /\ [Next]_vars => [Decided]_vars
  BY <1>1
<1>3. QED
  BY <1>2, StagingTypeCorrect, PTL DEF Spec, IngressDecidesOnce

-----------------------------------------------------------------------------
(* A ticket leaves the table only when its order has been decided.         *)
Ended == {"SUBMITTED", "REJECTED"}

DeletedIsDecided ==
  [][\A o \in tickets \ tickets' : order[o] \in Ended]_vars

(* A run that is about to delete a ticket has decided its order.           *)
UpdatedIsDecided ==
  \A r \in Runs : run[r].pc = "updated" => order[run[r].at] \in Ended

(* A decided order stays decided: the ingress leaves it, another run       *)
(* writes a verdict of its own.                                            *)
LEMMA DecidedKept ==
  ASSUME TypeOK, [Next]_vars, NEW o \in Orders, order[o] \in Ended
  PROVE  order'[o] \in Ended
<1>1. ASSUME NEW m \in Messages, RecordOrder(m) PROVE order'[o] \in Ended
  BY <1>1 DEF TypeOK, RecordOrder, Record, Ended
<1>2. ASSUME NEW r \in Runs, UpdateOrderStatus(r) PROVE order'[o] \in Ended
  BY <1>2 DEF TypeOK, RunOK, UpdateOrderStatus, Ended
<1>3. CASE UNCHANGED order
  BY <1>3
<1> QED
  BY <1>1, <1>2, <1>3
  DEF Next, Ingress, Process, MarketTurns, ReplicateTenantIndex,
      ReplicateTypeIndex, PlanOrders, RecordTicket, Redeliver, ListTickets,
      CheckTicket, DeleteTicket, RunFault, vars

(* A run comes to that point by UpdateOrderStatus only.                    *)
LEMMA UpdatedPreserved ==
  TypeOK /\ UpdatedIsDecided /\ [Next]_vars => UpdatedIsDecided'
<1> SUFFICES ASSUME TypeOK, UpdatedIsDecided, [Next]_vars, NEW q \in Runs,
                    run'[q].pc = "updated"
             PROVE  order'[run'[q].at] \in Ended
  BY DEF UpdatedIsDecided
<1>1. CASE run'[q] = run[q]
  BY <1>1, DecidedKept DEF UpdatedIsDecided, TypeOK, RunOK
<1>2. ASSUME NEW r \in Runs, UpdateOrderStatus(r), run'[q] # run[q]
      PROVE  order'[run'[q].at] \in Ended
  <2>1. /\ q = r /\ run[q].at \in Orders /\ run[q].verdict \in Ended
        /\ run'[q] = [run[q] EXCEPT !.pc = "updated"]
    BY <1>2 DEF TypeOK, RunOK, UpdateOrderStatus, Ended
  <2>2. run'[q].at = run[q].at
    BY <2>1
  <2> QED
    BY <1>2, <2>1, <2>2 DEF TypeOK, UpdateOrderStatus
<1>3. ASSUME NEW r \in Runs, ListTickets(r) PROVE run'[q] = run[q]
  <2>1. PICK batch \in SUBSET (byType \intersect tickets) :
          run' = [run EXCEPT ![r].pc = "next", ![r].batch = batch]
    BY <1>3 DEF ListTickets
  <2>2. q # r
    BY <2>1 DEF TypeOK, RunOK
  <2> QED
    BY <2>1, <2>2 DEF TypeOK
<1>4. ASSUME NEW r \in Runs, CheckTicket(r) PROVE run'[q] = run[q]
  BY <1>4 DEF TypeOK, CheckTicket
<1>5. ASSUME NEW r \in Runs, DeleteTicket(r) \/ RunFault(r)
      PROVE  run'[q] = run[q]
  <2>1. run'[q] = run[q] \/ run'[q] \in {NextTicket(r), Asleep}
    BY <1>5 DEF TypeOK, DeleteTicket, RunFault
  <2> QED
    BY <2>1, NextTicketType DEF TypeOK, Asleep
<1>6. CASE UNCHANGED run
  BY <1>1, <1>6
<1> QED
  BY <1>1, <1>2, <1>3, <1>4, <1>5, <1>6
  DEF Next, Ingress, Process, MarketTurns, ReplicateTenantIndex,
      ReplicateTypeIndex, PlanOrders, RecordOrder, RecordTicket,
      Redeliver, vars

(* No failed request, no second run over the same tickets and no death     *)
(* between the update and the delete takes a staged order out of the       *)
(* processor's sight undecided.                                            *)
THEOREM StagingDeletedIsDecided == Spec => DeletedIsDecided
<1>1. Init => UpdatedIsDecided
  BY DEF Init, UpdatedIsDecided, Asleep
<1>2. ASSUME TypeOK, UpdatedIsDecided, [Next]_vars, NEW o \in tickets \ tickets'
      PROVE  order[o] \in Ended
  <2>1. ASSUME NEW r \in Runs, DeleteTicket(r) PROVE order[o] \in Ended
    BY <1>2, <2>1 DEF DeleteTicket, UpdatedIsDecided
  <2> QED
    BY <1>2, <2>1
    DEF Next, Ingress, Process, MarketTurns, ReplicateTenantIndex,
        ReplicateTypeIndex, PlanOrders, RecordOrder, RecordTicket, Redeliver,
        ListTickets, CheckTicket, UpdateOrderStatus, RunFault, vars
<1>3. TypeOK /\ UpdatedIsDecided /\ [Next]_vars =>
        [\A o \in tickets \ tickets' : order[o] \in Ended]_vars
  BY <1>2
<1> QED
  BY <1>1, <1>3, UpdatedPreserved, StagingTypeCorrect, PTL DEF Spec, DeletedIsDecided
=============================================================================
