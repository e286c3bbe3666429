------------------------- MODULE AlpacaBroker_proofs -------------------------
(***************************************************************************)
(* Proofs about AlpacaBroker, for any orders, transfers and bounds.  Five  *)
(* arguments are kept apart: a row says "placed" only after Alpaca has     *)
(* taken the request in the handler's hand; each closing of the breaker    *)
(* takes an opening away, and each announcement of a closing takes one of  *)
(* the healings that closed; without second healings the closings that     *)
(* are announced are as many as the healings that are healed, each of them *)
(* announced after the opening it heals; a failed transfer's result stays  *)
(* on the bus until its carrier is written; and an open breaker has an     *)
(* opening that was not announced or a healing that is not over.           *)
(***************************************************************************)
EXTENDS AlpacaBroker, FiniteSetTheorems, TLAPS

-----------------------------------------------------------------------------
(* broker-ctrl, whichever adapter it talks to.                             *)

(* An order is answered by the simulated broker with its fill only.        *)
LEMMA OrderResults ==
  ASSUME NEW a \in Results, a.of \in Orders, a.by = "sim"
  PROVE  a.status = "FILLED"
  BY BusAssumption DEF Results

(* The token of an execution is one of the requests.                       *)
LEMMA TokenIsRequest == \A x \in Executions : Token(x) \in Requests
  BY BusAssumption DEF Token, Requests, Rounds

(* A result handled leaves the bus well typed.                             *)
LEMMA ConsumeType ==
  ASSUME BusTypeOK, NEW a, Consume(a)
  PROVE  results' \subseteq Results /\ faults' \in 0 .. MaxFaults
  BY BusAssumption DEF BusTypeOK, Consume, Fault

(* A fault is counted up to the bound.                                     *)
LEMMA FaultType ==
  ASSUME BusTypeOK, Fault
  PROVE  faults' \in 0 .. MaxFaults
  BY BusAssumption DEF BusTypeOK, Fault

(* The order workflow starts well typed.                                   *)
LEMMA OrderInitType ==
  ASSUME NEW submitted, OrderInit(submitted)
  PROVE  OrderTypeOK
<1>1. exec \in [Executions ->
       [pc : {"absent", "submitted"} \union Running \union Ended,
        status : {"none", "FILLED", "TIMEOUT"}]]
  BY DEF OrderInit, NotStarted
<1>2. QED
  BY <1>1 DEF OrderInit, OrderTypeOK

(* The steps of the order workflow.                                        *)
LEMMA OrderTypePreserved ==
  ASSUME BusTypeOK, OrderTypeOK, OrderNext
  PROVE  BusTypeOK' /\ OrderTypeOK'
<1> USE BusAssumption, TokenIsRequest
<1> USE DEF OrderTypeOK, BusTypeOK
<1>1. ASSUME NEW x \in Executions, Start(x) PROVE BusTypeOK' /\ OrderTypeOK'
  BY <1>1, FaultType DEF Start, SetExec, Running
<1>2. ASSUME NEW x \in Executions, CreateOrder(x) PROVE BusTypeOK' /\ OrderTypeOK'
  BY <1>2 DEF CreateOrder, SetExec, Running, busVars
<1>3. ASSUME NEW x \in Executions, EmitRequest(x) PROVE BusTypeOK' /\ OrderTypeOK'
  BY <1>3 DEF EmitRequest, SetExec, Running
<1>4. ASSUME NEW x \in Executions, RouteFails(x) PROVE BusTypeOK' /\ OrderTypeOK'
  BY <1>4, FaultType DEF RouteFails, SetExec, Ended
<1>5. ASSUME NEW x \in Executions, TimeOut(x) PROVE BusTypeOK' /\ OrderTypeOK'
  BY <1>5 DEF TimeOut, Running, busVars
<1>6. ASSUME NEW x \in Executions, MarkFilled(x) PROVE BusTypeOK' /\ OrderTypeOK'
  BY <1>6 DEF MarkFilled, SetState, Report, SetExec, Ended, busVars
<1>7. ASSUME NEW x \in Executions, HandleTimeout(x) PROVE BusTypeOK' /\ OrderTypeOK'
  BY <1>7 DEF HandleTimeout, SetState, Report, SetExec, Ended, busVars
<1>8. ASSUME NEW x \in Executions, MarkFails(x) PROVE BusTypeOK' /\ OrderTypeOK'
  <2>1. OrderOf[x] \in Orders
    OBVIOUS
  <2>2. brokerOrder' \in [Orders ->
          [state : {"none", "AWAITING_FILL", "FILLED", "ESCALATED"},
           token : Requests \union {NoToken}]]
    BY <1>8, <2>1 DEF MarkFails, SetState
  <2>3. reported' \subseteq Executions \X {"ORDER_FILLED", "ORDER_ESCALATED"}
    BY <1>8 DEF MarkFails, Report
  <2>4. QED
    BY <1>8, <2>2, <2>3, FaultType DEF MarkFails, SetExec, Ended
<1>9. ASSUME NEW a \in results, a.of \in Orders, ResolveCallback(a)
      PROVE  BusTypeOK' /\ OrderTypeOK'
  <2>1. \A x \in Awaiting(a) : a.status = "FILLED"
    BY <1>9, OrderResults DEF Awaiting
  <2>2. exec' \in [Executions ->
       [pc : {"absent", "submitted"} \union Running \union Ended,
        status : {"none", "FILLED", "TIMEOUT"}]]
    BY <1>9, <2>1 DEF ResolveCallback, Running
  <2>3. Awaiting(a) \subseteq Executions
    BY DEF Awaiting
  <2>4. requests' \subseteq Requests
    BY <1>9, <2>3 DEF ResolveCallback
  <2>5. QED
    BY <1>9, <2>2, <2>4, ConsumeType DEF ResolveCallback
<1>10. QED
  BY <1>1, <1>2, <1>3, <1>4, <1>5, <1>6, <1>7, <1>8, <1>9
  DEF OrderNext, Workflow, Resolve, ResolveCallback

-----------------------------------------------------------------------------
(* Every status of a transfer has a rank.                                  *)
LEMMA StatusFacts ==
  /\ {"requested", "detected", "settled", "failed"} \subseteq Statuses
  /\ \A status \in Statuses : STATUS_ORDINAL[status] \in 1 .. 3
  BY DEF Statuses, STATUS_ORDINAL

(* A result becomes one carrier or two, the last of them no longer a mere  *)
(* request.                                                                *)
LEMMA CarriersFacts ==
  ASSUME NEW a
  PROVE  /\ Len(CarriersOf(a)) \in {1, 2}
         /\ \A i \in 1 .. Len(CarriersOf(a)) :
              CarriersOf(a)[i] \in {"detected", "settled", "failed"}
  BY DEF CarriersOf

(* The transfers start well typed.                                         *)
LEMMA FundingInitType ==
  ASSUME NEW submitted, FundingInit(submitted)
  PROVE  FundingTypeOK
  BY DEF FundingInit, FundingTypeOK

(* The steps of the router, the normalizer and investor-bff.               *)
LEMMA FundingTypePreserved ==
  ASSUME BusTypeOK, FundingTypeOK, FundingNext
  PROVE  BusTypeOK' /\ FundingTypeOK'
<1> USE BusAssumption, StatusFacts
<1> USE DEF FundingTypeOK, BusTypeOK
<1>1. ASSUME NEW t \in Transfers, RouteTransfer(t) PROVE BusTypeOK' /\ FundingTypeOK'
  BY <1>1 DEF RouteTransfer, Requests
<1>2. ASSUME NEW t \in Transfers, RecordRequested(t) PROVE BusTypeOK' /\ FundingTypeOK'
  BY <1>2 DEF RecordRequested, busVars
<1>3. ASSUME NEW t \in Transfers, RedeliverTransfer(t) PROVE BusTypeOK' /\ FundingTypeOK'
  BY <1>3, FaultType DEF RedeliverTransfer
<1>4. ASSUME NEW a, NormalizeFirst(a) PROVE BusTypeOK' /\ FundingTypeOK'
  <2>1. CarriersOf(a)[1] \in Statuses
    BY CarriersFacts
  <2>2. QED
    BY <1>4, <2>1 DEF NormalizeFirst, busVars
<1>5. ASSUME NEW a, NormalizeLast(a) PROVE BusTypeOK' /\ FundingTypeOK'
  <2>1. CarriersOf(a)[Len(CarriersOf(a))] \in Statuses
    BY CarriersFacts
  <2>2. QED
    BY <1>5, <2>1, ConsumeType DEF NormalizeLast
<1>6. ASSUME NEW t \in Transfers, NEW status \in Statuses, Project(t, status)
      PROVE  BusTypeOK' /\ FundingTypeOK'
  BY <1>6 DEF Project, busVars
<1>7. QED
  BY <1>1, <1>2, <1>3, <1>4, <1>5, <1>6 DEF FundingNext, Route, Normalize, Show

-----------------------------------------------------------------------------
(* The composition.                                                        *)

Events == {"BROKER_CIRCUIT_OPEN", "BROKER_CIRCUIT_CLOSED"}

(* A healing that has checks left.                                         *)
AttemptsLeft ==
  \A h \in Heals :
    heals[h].pc \in {"none", "check", "health"} => heals[h].attempts < MaxAttempts

TypeInv == TypeOK /\ AttemptsLeft

-----------------------------------------------------------------------------
(* Types                                                                   *)

(* A request's subject is its own.                                         *)
LEMMA SubjectFacts ==
  ASSUME NEW r \in Requests
  PROVE  /\ SubjectOf(r) \in Subjects
         /\ r[1] \in Executions \union Transfers
  BY BusAssumption DEF SubjectOf, Subjects, Requests

(* The names of the results of an order and of a transfer.                 *)
LEMMA SubjectNames ==
  ASSUME NEW s \in Subjects
  PROVE  /\ Placed(s) \in {"PLACED", "INITIATED"}
         /\ Refused(s) \in {"REJECTED", "FAILED"}
         /\ Placed(s) # Refused(s)
  BY DEF Placed, Refused

(* A result told is a result of the bus.                                   *)
LEMMA TellType ==
  ASSUME BusTypeOK, NEW s \in Subjects, Tell(s)
  PROVE  results' \subseteq Results
<1>1. [of |-> s, by |-> "alpaca", status |-> Refused(s)] \in Results
  BY BusAssumption DEF Results, Refused, Subjects
<1>2. QED
  BY <1>1 DEF BusTypeOK, Tell

(* An announcement makes the stream longer by one.                         *)
LEMMA AnnounceType ==
  ASSUME BreakerTypeOK, NEW event \in Events, Announce(event)
  PROVE  /\ stream' \in Seq(Events) /\ Len(stream') = Len(stream) + 1
         /\ Len(stream') <= MaxEvents
  BY BreakerAssumption DEF BreakerTypeOK, Announce, Events

(* The adapter keeps its own types, the bus's and the breaker's.           *)
LEMMA AdapterTypePreserved ==
  ASSUME BusTypeOK, AdapterTypeOK, BreakerTypeOK, AdapterNext
  PROVE  BusTypeOK' /\ AdapterTypeOK' /\ BreakerTypeOK'
<1> USE SubjectFacts, SubjectNames
<1> USE DEF AdapterTypeOK, BusTypeOK, GotoLive
<1>1. ASSUME NEW r \in Requests, CheckBreaker(r)
      PROVE  BusTypeOK' /\ AdapterTypeOK' /\ BreakerTypeOK'
  BY <1>1 DEF CheckBreaker, breakerVars, busVars, BreakerTypeOK
<1>2. ASSUME NEW r \in Requests, Call(r)
      PROVE  BusTypeOK' /\ AdapterTypeOK' /\ BreakerTypeOK'
  BY <1>2 DEF Call, breakerVars, busVars, BreakerTypeOK
<1>3. ASSUME NEW r \in Requests, Map(r)
      PROVE  BusTypeOK' /\ AdapterTypeOK' /\ BreakerTypeOK'
  BY <1>3 DEF Map, breakerVars, busVars, BreakerTypeOK
<1>4. ASSUME NEW r \in Requests, CheckHealth(r)
      PROVE  BusTypeOK' /\ AdapterTypeOK' /\ BreakerTypeOK'
  BY <1>4 DEF CheckHealth, breakerVars, busVars, BreakerTypeOK
<1>5. ASSUME NEW r \in Requests, Open(r)
      PROVE  BusTypeOK' /\ AdapterTypeOK' /\ BreakerTypeOK'
  <2>1. /\ breaker' \in {"OPEN", "CLOSED"} /\ openings' \in Nat
        /\ UNCHANGED <<closings, stream, heals, shown, flag>>
    BY <1>5 DEF Open, OpenBreaker, BreakerTypeOK
  <2>2. live' \in [Requests ->
       {"new", "call", "map", "health", "open", "announce", "reject", "done"}]
    BY <1>5 DEF Open
  <2>3. BreakerTypeOK'
    BY <2>1 DEF BreakerTypeOK
  <2>4. QED
    BY <1>5, <2>2, <2>3 DEF Open, busVars
<1>6. ASSUME NEW r \in Requests, WriteBreakerOpenEvent(r)
      PROVE  BusTypeOK' /\ AdapterTypeOK' /\ BreakerTypeOK'
  <2>1. stream' \in Seq(Events) /\ Len(stream') <= MaxEvents
    BY <1>6, AnnounceType DEF WriteBreakerOpenEvent, Events
  <2>2. BreakerTypeOK'
    BY <1>6, <2>1 DEF WriteBreakerOpenEvent, BreakerTypeOK, Events
  <2>3. QED
    BY <1>6, <2>2 DEF WriteBreakerOpenEvent, busVars
<1>7. ASSUME NEW r \in Requests, Reject(r)
      PROVE  BusTypeOK' /\ AdapterTypeOK' /\ BreakerTypeOK'
  <2>1. results' \subseteq Results
    BY <1>7, TellType DEF Reject
  <2>2. QED
    BY <1>7, <2>1 DEF Reject, breakerVars, BreakerTypeOK
<1>8. ASSUME NEW r \in Requests, RedeliverLive(r)
      PROVE  BusTypeOK' /\ AdapterTypeOK' /\ BreakerTypeOK'
  BY <1>8, FaultType DEF RedeliverLive, breakerVars, BreakerTypeOK
<1>9. ASSUME NEW t \in Transfers, PollTransfer(t)
      PROVE  BusTypeOK' /\ AdapterTypeOK' /\ BreakerTypeOK'
  <2>1. results' \subseteq Results
    BY <1>9, TellType DEF PollTransfer, Subjects
  <2>2. QED
    BY <1>9, <2>1 DEF PollTransfer, breakerVars, BreakerTypeOK
<1>10. QED
  BY <1>1, <1>2, <1>3, <1>4, <1>5, <1>6, <1>7, <1>8, <1>9
  DEF AdapterNext, HandleLive

HealPcs == {"none", "check", "health", "close", "emit", "escalate",
            "healthy", "misled", "healed", "escalated", "dead"}
HealRows == [Heals -> [pc : HealPcs, attempts : 0 .. MaxAttempts]]

(* A healing goes on to its next state, perhaps with another check counted.*)
LEMMA SetHealType ==
  ASSUME heals \in HealRows, NEW h \in Heals, NEW pc \in HealPcs, SetHeal(h, pc)
  PROVE  /\ heals' \in HealRows
         /\ \A k \in Heals : heals'[k] =
              IF k = h THEN [pc |-> pc, attempts |-> heals[h].attempts] ELSE heals[k]
<1> DEFINE new == [heals[h] EXCEPT !.pc = pc]
<1>1. heals[h] \in [pc : HealPcs, attempts : 0 .. MaxAttempts]
  BY DEF HealRows
<1>2. /\ new = [pc |-> pc, attempts |-> heals[h].attempts]
      /\ new \in [pc : HealPcs, attempts : 0 .. MaxAttempts]
  BY <1>1
<1>3. heals' = [heals EXCEPT ![h] = new]
  BY DEF SetHeal
<1> HIDE DEF new
<1>4. heals' \in HealRows /\ \A k \in Heals : heals'[k] = IF k = h THEN new ELSE heals[k]
  BY <1>2, <1>3 DEF HealRows
<1>5. QED
  BY <1>2, <1>4

(* A healing that has been counted is still well typed.                    *)
LEMMA CountCheckType ==
  ASSUME heals \in HealRows, NEW h \in Heals, heals[h].attempts < MaxAttempts,
         NEW pc \in HealPcs,
         heals' = [heals EXCEPT ![h].attempts = @ + 1, ![h].pc = pc]
  PROVE  /\ heals' \in HealRows
         /\ \A k \in Heals : heals'[k] =
              IF k = h THEN [pc |-> pc, attempts |-> heals[h].attempts + 1] ELSE heals[k]
<1> DEFINE counted == [heals[h] EXCEPT !.attempts = @ + 1]
           new == [counted EXCEPT !.pc = pc]
<1>1. heals[h] \in [pc : HealPcs, attempts : 0 .. MaxAttempts]
  BY DEF HealRows
<1>2. counted = [pc |-> heals[h].pc, attempts |-> heals[h].attempts + 1]
  BY <1>1
<1>3. /\ new = [pc |-> pc, attempts |-> heals[h].attempts + 1]
      /\ new \in [pc : HealPcs, attempts : 0 .. MaxAttempts]
  <2>1. new = [pc |-> pc, attempts |-> heals[h].attempts + 1]
    <3>1. new = [[pc |-> heals[h].pc, attempts |-> heals[h].attempts + 1] EXCEPT !.pc = pc]
      BY <1>2
    <3> HIDE DEF counted, new
    <3>2. QED
      BY <3>1
  <2>2. heals[h].attempts + 1 \in 0 .. MaxAttempts
    BY <1>1, BreakerAssumption
  <2> HIDE DEF new
  <2>3. QED
    BY <2>1, <2>2
<1>4. heals' = [heals EXCEPT ![h] = new]
  OBVIOUS
<1> HIDE DEF new
<1>5. heals' \in HealRows /\ \A k \in Heals : heals'[k] = IF k = h THEN new ELSE heals[k]
  BY <1>3, <1>4 DEF HealRows
<1>6. QED
  BY <1>3, <1>5

(* Every step of a healing, and of its end, keeps the types.               *)
LEMMA BreakerTypePreserved ==
  ASSUME BusTypeOK, BreakerTypeOK, AttemptsLeft, BreakerNext
  PROVE  BusTypeOK' /\ BreakerTypeOK' /\ AttemptsLeft'
<1> USE BreakerAssumption
<1> USE DEF BreakerTypeOK, AttemptsLeft, SetHeal
<1>1. ASSUME NEW h \in Heals, StartHeal(h)
      PROVE  BusTypeOK' /\ BreakerTypeOK' /\ AttemptsLeft'
  BY <1>1, FaultType DEF StartHeal, BusTypeOK
<1>2. ASSUME NEW h \in Heals, CheckBreakerState(h)
      PROVE  BusTypeOK' /\ BreakerTypeOK' /\ AttemptsLeft'
  BY <1>2 DEF CheckBreakerState, BusTypeOK, busVars
<1>3. ASSUME NEW h \in Heals, HealthCheck(h)
      PROVE  BusTypeOK' /\ BreakerTypeOK' /\ AttemptsLeft'
  BY <1>3 DEF HealthCheck, BusTypeOK, busVars
<1>4. ASSUME NEW h \in Heals, HealthCheckFails(h)
      PROVE  BusTypeOK' /\ BreakerTypeOK' /\ AttemptsLeft'
  <2>1. /\ heals[h].attempts \in 0 .. MaxAttempts
        /\ heals[h].attempts < MaxAttempts
    BY <1>4 DEF HealthCheckFails
  <2> DEFINE next == IF heals[h].attempts + 1 < MaxAttempts THEN "health" ELSE "escalate"
  <2>2. next \in HealPcs /\ heals \in HealRows
    BY DEF HealPcs, HealRows
  <2>3. heals' = [heals EXCEPT ![h].attempts = @ + 1, ![h].pc = next]
    BY <1>4 DEF HealthCheckFails
  <2>4. heals' \in HealRows
        /\ \A k \in Heals : heals'[k] =
             IF k = h THEN [pc |-> next, attempts |-> heals[h].attempts + 1] ELSE heals[k]
    BY <2>1, <2>2, <2>3, CountCheckType
  <2>5. AttemptsLeft'
    BY <2>1, <2>4
  <2>6. QED
    BY <1>4, <2>4, <2>5 DEF HealthCheckFails, BusTypeOK, busVars, HealPcs, HealRows
<1>5. ASSUME NEW h \in Heals, CloseBreaker(h)
      PROVE  BusTypeOK' /\ BreakerTypeOK' /\ AttemptsLeft'
  <2>1. PICK pc \in {"emit", "healthy"} : SetHeal(h, pc)
    BY <1>5 DEF CloseBreaker
  <2>2. heals' \in HealRows
        /\ \A k \in Heals : heals'[k] =
             IF k = h THEN [pc |-> pc, attempts |-> heals[h].attempts] ELSE heals[k]
    <3>1. heals \in HealRows
      BY DEF HealRows, HealPcs
    <3>2. pc \in HealPcs
      BY <2>1 DEF HealPcs
    <3> HIDE DEF SetHeal
    <3>3. QED
      BY <2>1, <3>1, <3>2, SetHealType
  <2>3. breaker' \in {"OPEN", "CLOSED"} /\ closings' \in Nat
    BY <1>5 DEF CloseBreaker
  <2>4. QED
    BY <1>5, <2>2, <2>3 DEF CloseBreaker, BusTypeOK, busVars, HealPcs, HealRows
<1>6. ASSUME NEW h \in Heals, EmitBreakerClosed(h)
      PROVE  BusTypeOK' /\ BreakerTypeOK' /\ AttemptsLeft'
  <2>1. stream' \in Seq(Events) /\ Len(stream') <= MaxEvents
    BY <1>6, AnnounceType DEF EmitBreakerClosed, Events
  <2>2. QED
    BY <1>6, <2>1 DEF EmitBreakerClosed, BusTypeOK, busVars, Events
<1>7. ASSUME NEW h \in Heals, EscalateHealFailure(h)
      PROVE  BusTypeOK' /\ BreakerTypeOK' /\ AttemptsLeft'
  BY <1>7 DEF EscalateHealFailure, BusTypeOK, busVars
<1>8. ASSUME NEW h \in Heals, HealFails(h)
      PROVE  BusTypeOK' /\ BreakerTypeOK' /\ AttemptsLeft'
  BY <1>8, FaultType DEF HealFails, BusTypeOK
<1>9. ASSUME NEW n \in 1 .. MaxEvents, UpdateFlag(n)
      PROVE  BusTypeOK' /\ BreakerTypeOK' /\ AttemptsLeft'
  BY <1>9 DEF UpdateFlag, Enables, BusTypeOK, busVars
<1>10. QED
  BY <1>1, <1>2, <1>3, <1>4, <1>5, <1>6, <1>7, <1>8, <1>9 DEF BreakerNext, Heal

(* The initial state is well typed.                                        *)
LEMMA TypeInit == Init => TypeInv
<1> SUFFICES ASSUME Init PROVE TypeInv
  OBVIOUS
<1>1. BusTypeOK /\ AdapterTypeOK
  BY BusAssumption DEF Init, BusInit, AdapterInit, BusTypeOK, AdapterTypeOK
<1>2. BreakerTypeOK /\ AttemptsLeft
  BY BreakerAssumption DEF Init, BreakerInit, BreakerTypeOK, AttemptsLeft
<1>3. OrderTypeOK /\ FundingTypeOK
  BY OrderInitType, FundingInitType DEF Init
<1>4. QED
  BY <1>1, <1>2, <1>3 DEF TypeInv, TypeOK

(* Every step keeps the types.                                             *)
LEMMA TypePreserved == TypeInv /\ [Next]_vars => TypeInv'
<1> SUFFICES ASSUME TypeInv, [Next]_vars PROVE TypeInv'
  OBVIOUS
<1> USE DEF TypeInv, TypeOK
<1>a. ASSUME UNCHANGED orderVars, OrderTypeOK PROVE OrderTypeOK'
  BY <1>a DEF orderVars, OrderTypeOK
<1>b. ASSUME UNCHANGED fundingVars, FundingTypeOK PROVE FundingTypeOK'
  BY <1>b DEF fundingVars, FundingTypeOK
<1>c. ASSUME UNCHANGED adapterVars, AdapterTypeOK PROVE AdapterTypeOK'
  BY <1>c DEF adapterVars, AdapterTypeOK
<1>d. ASSUME UNCHANGED breakerVars, BreakerTypeOK PROVE BreakerTypeOK'
  BY <1>d DEF breakerVars, BreakerTypeOK
<1>e. ASSUME UNCHANGED heals, AttemptsLeft PROVE AttemptsLeft'
  BY <1>e DEF AttemptsLeft
<1>1. CASE OrderNext /\ OrderStep
  BY <1>1, <1>b, <1>c, <1>d, <1>e, OrderTypePreserved DEF OrderStep, breakerVars
<1>2. CASE FundingNext /\ FundingStep
  BY <1>2, <1>a, <1>c, <1>d, <1>e, FundingTypePreserved DEF FundingStep, breakerVars
<1>3. CASE AdapterNext /\ AdapterStep
  <2>1. UNCHANGED heals
    BY <1>3 DEF AdapterNext, HandleLive, CheckBreaker, Call, Map, CheckHealth, Open,
       WriteBreakerOpenEvent, Reject, RedeliverLive, PollTransfer, breakerVars
  <2>2. QED
    BY <1>3, <2>1, <1>a, <1>b, <1>e, AdapterTypePreserved DEF AdapterStep
<1>4. CASE BreakerNext /\ BreakerStep
  BY <1>4, <1>a, <1>b, <1>c, BreakerTypePreserved DEF BreakerStep
<1>5. CASE UNCHANGED vars
  BY <1>5, <1>a, <1>b, <1>c, <1>d, <1>e DEF vars, busVars, BusTypeOK, breakerVars
<1>6. QED
  BY <1>1, <1>2, <1>3, <1>4, <1>5 DEF Next

(* Every variable of broker-ctrl, of the adapter and of its breaker stays  *)
(* in its type; in particular no healing checks more than MaxAttempts      *)
(* times.                                                                  *)
THEOREM AlpacaTypeCorrect == Spec => []TypeOK
<1>1. TypeInv => TypeOK
  BY DEF TypeInv
<1>2. QED
  BY <1>1, TypeInit, TypePreserved, PTL DEF Spec

-----------------------------------------------------------------------------
(* Rows tell the truth                                                     *)

InHand == \A r \in Requests : live[r] = "map" => SubjectOf(r) \in accepted

RowsTrue == PlacedIsAccepted /\ InHand

(* At the start no row says anything.                                      *)
LEMMA RowsInit == Init => RowsTrue
  BY SubjectNames DEF Init, AdapterInit, RowsTrue, PlacedIsAccepted, InHand

(* A row says a request was placed only where Alpaca has taken it.         *)
LEMMA RowsPreserved == TypeInv /\ RowsTrue /\ [Next]_vars => RowsTrue'
<1> SUFFICES ASSUME TypeInv, RowsTrue, [Next]_vars PROVE RowsTrue'
  OBVIOUS
<1> USE SubjectFacts, SubjectNames
<1> USE DEF RowsTrue, PlacedIsAccepted, InHand, GotoLive
<1>0. AdapterTypeOK
  BY DEF TypeInv, TypeOK
<1>1. CASE UNCHANGED adapterVars
  BY <1>1 DEF adapterVars
<1>2. ASSUME NEW r \in Requests,
             CheckBreaker(r) \/ CheckHealth(r) \/ Open(r) \/ WriteBreakerOpenEvent(r)
               \/ RedeliverLive(r)
      PROVE  RowsTrue'
  BY <1>0, <1>2 DEF CheckBreaker, CheckHealth, Open, WriteBreakerOpenEvent,
     RedeliverLive, AdapterTypeOK
<1>3. ASSUME NEW r \in Requests, Call(r) PROVE RowsTrue'
  BY <1>0, <1>3 DEF Call, AdapterTypeOK
<1>4. ASSUME NEW r \in Requests, Map(r) PROVE RowsTrue'
  BY <1>0, <1>4 DEF Map, AdapterTypeOK
<1>5. ASSUME NEW r \in Requests, Reject(r) PROVE RowsTrue'
  BY <1>0, <1>5 DEF Reject, AdapterTypeOK
<1>6. ASSUME NEW t \in Transfers, PollTransfer(t) PROVE RowsTrue'
  <2>1. t \in Subjects /\ Placed(t) = "INITIATED"
    BY BusAssumption DEF Subjects, Placed
  <2>2. \A s \in Subjects : mapping'[s] = mapping[s] \/ mapping'[s] = "FAILED"
    BY <1>0, <1>6 DEF PollTransfer, AdapterTypeOK
  <2>3. QED
    BY <1>6, <2>2 DEF PollTransfer
<1>7. QED
  BY <1>1, <1>2, <1>3, <1>4, <1>5, <1>6
  DEF Next, OrderStep, FundingStep, BreakerStep, AdapterNext, HandleLive, vars

(* A row that says an order or a transfer is at Alpaca is right.           *)
THEOREM AlpacaPlacedIsAccepted == Spec => []PlacedIsAccepted
<1>1. RowsTrue => PlacedIsAccepted
  BY DEF RowsTrue
<1>2. QED
  BY <1>1, TypeInit, TypePreserved, RowsInit, RowsPreserved, PTL DEF Spec

-----------------------------------------------------------------------------
(* The breaker's steps                                                     *)

(* The steps of the composition, as the breaker sees them.                 *)
LEMMA BreakerMoves ==
  ASSUME [Next]_vars
  PROVE  \/ UNCHANGED breakerVars
         \/ OpenBreaker /\ UNCHANGED <<closings, stream, heals, shown, flag>>
         \/ /\ Announce("BROKER_CIRCUIT_OPEN")
            /\ UNCHANGED <<breaker, openings, closings, heals, shown, flag>>
         \/ BreakerNext
<1>1. CASE AdapterNext
  BY <1>1 DEF AdapterNext, HandleLive, CheckBreaker, Call, Map, CheckHealth, Open,
     WriteBreakerOpenEvent, Reject, RedeliverLive, PollTransfer, breakerVars
<1>2. QED
  BY <1>1 DEF Next, OrderStep, FundingStep, vars

(* Healing h goes to pc, and the others stay where they are.               *)
HealTo(h, pc) ==
  \A k \in Heals : heals'[k].pc = IF k = h THEN pc ELSE heals[k].pc

(* What a healing that moves on looks like.                                *)
LEMMA SetHealTo ==
  ASSUME BreakerTypeOK, NEW h \in Heals, NEW pc \in HealPcs, SetHeal(h, pc)
  PROVE  HealTo(h, pc)
<1>1. heals \in HealRows
  BY DEF BreakerTypeOK, HealRows, HealPcs
<1>2. \A k \in Heals : heals'[k] =
        IF k = h THEN [pc |-> pc, attempts |-> heals[h].attempts] ELSE heals[k]
  BY <1>1, SetHealType
<1>3. QED
  BY <1>2 DEF HealTo

(* Where each step of a healing leads.                                     *)
LEMMA HealSteps ==
  ASSUME BreakerTypeOK, AttemptsLeft, NEW h \in Heals
  PROVE  /\ StartHeal(h) => HealTo(h, "check")
         /\ CheckBreakerState(h) =>
              \E pc \in {"health", "healthy", "misled"} :
                (breaker = "OPEN" => pc # "healthy") /\ HealTo(h, pc)
         /\ HealthCheck(h) => HealTo(h, "close")
         /\ HealthCheckFails(h) => \E pc \in {"health", "escalate"} : HealTo(h, pc)
         /\ CloseBreaker(h) =>
              HealTo(h, IF breaker = "OPEN" THEN "emit" ELSE "healthy")
         /\ EmitBreakerClosed(h) => HealTo(h, "healed")
         /\ EscalateHealFailure(h) => HealTo(h, "escalated")
         /\ HealFails(h) => HealTo(h, "dead")
<1>0. {"check", "health", "healthy", "misled", "close", "emit", "healed",
       "escalate", "escalated", "dead"} \subseteq HealPcs
  BY DEF HealPcs
<1>1. StartHeal(h) => HealTo(h, "check")
  BY <1>0, SetHealTo DEF StartHeal
<1>2. ASSUME CheckBreakerState(h)
      PROVE  \E pc \in {"health", "healthy", "misled"} :
               (breaker = "OPEN" => pc # "healthy") /\ HealTo(h, pc)
  <2>1. PICK pc \in {"health", "healthy", "misled"} :
               (breaker = "OPEN" => pc # "healthy") /\ SetHeal(h, pc)
    BY <1>2 DEF CheckBreakerState
  <2>2. HealTo(h, pc)
    BY <1>0, <2>1, SetHealTo
  <2>3. QED
    BY <2>1, <2>2
<1>3. HealthCheck(h) => HealTo(h, "close")
  BY <1>0, SetHealTo DEF HealthCheck
<1>4. ASSUME HealthCheckFails(h)
      PROVE  \E pc \in {"health", "escalate"} : HealTo(h, pc)
  <2> DEFINE next == IF heals[h].attempts + 1 < MaxAttempts THEN "health" ELSE "escalate"
  <2>1. heals \in HealRows /\ heals[h].attempts < MaxAttempts /\ next \in HealPcs
    BY <1>0, <1>4 DEF HealthCheckFails, AttemptsLeft, BreakerTypeOK, HealRows, HealPcs
  <2>2. heals' = [heals EXCEPT ![h].attempts = @ + 1, ![h].pc = next]
    BY <1>4 DEF HealthCheckFails
  <2>3. \A k \in Heals : heals'[k] =
          IF k = h THEN [pc |-> next, attempts |-> heals[h].attempts + 1] ELSE heals[k]
    BY <2>1, <2>2, CountCheckType
  <2>4. HealTo(h, next)
    BY <2>3 DEF HealTo
  <2>5. QED
    BY <2>4
<1>5. ASSUME CloseBreaker(h)
      PROVE  HealTo(h, IF breaker = "OPEN" THEN "emit" ELSE "healthy")
  <2>1. SetHeal(h, IF breaker = "OPEN" THEN "emit" ELSE "healthy")
    BY <1>5 DEF CloseBreaker
  <2>2. QED
    BY <1>0, <2>1, SetHealTo
<1>6. EmitBreakerClosed(h) => HealTo(h, "healed")
  BY <1>0, SetHealTo DEF EmitBreakerClosed
<1>7. EscalateHealFailure(h) => HealTo(h, "escalated")
  BY <1>0, SetHealTo DEF EscalateHealFailure
<1>8. HealFails(h) => HealTo(h, "dead")
  BY <1>0, SetHealTo DEF HealFails
<1>9. QED
  BY <1>1, <1>2, <1>3, <1>4, <1>5, <1>6, <1>7, <1>8

(* An announcement is added to those of its event and to no others.        *)
LEMMA AnnouncedFacts ==
  ASSUME BreakerTypeOK, NEW e \in Events
  PROVE  /\ Announced(e) \subseteq 1 .. Len(stream)
         /\ IsFiniteSet(Announced(e)) /\ Cardinality(Announced(e)) \in Nat
<1>1. Announced(e) \subseteq 1 .. Len(stream) /\ Len(stream) \in Nat
  BY DEF BreakerTypeOK, Announced
<1>2. IsFiniteSet(1 .. Len(stream))
  BY <1>1, FS_Interval
<1>3. IsFiniteSet(Announced(e))
  BY <1>1, <1>2, FS_Subset
<1>4. QED
  BY <1>1, <1>3, FS_CardinalityType

(* An announcement adds one position, the last, to those of its event.     *)
LEMMA AnnounceFacts ==
  ASSUME BreakerTypeOK, NEW event \in Events, Announce(event), NEW e \in Events
  PROVE  /\ Announced(e)' =
              IF e = event THEN Announced(e) \union {Len(stream) + 1} ELSE Announced(e)
         /\ Cardinality(Announced(e))' =
              Cardinality(Announced(e)) + IF e = event THEN 1 ELSE 0
<1>1. /\ Len(stream) \in Nat /\ DOMAIN stream = 1 .. Len(stream)
      /\ DOMAIN stream' = 1 .. Len(stream) + 1
      /\ \A n \in 1 .. Len(stream) : stream'[n] = stream[n]
      /\ stream'[Len(stream) + 1] = event
  BY DEF BreakerTypeOK, Announce, Events
<1>2. Announced(e)' =
        IF e = event THEN Announced(e) \union {Len(stream) + 1} ELSE Announced(e)
  BY <1>1 DEF Announced
<1>3. Len(stream) + 1 \notin Announced(e) /\ IsFiniteSet(Announced(e))
  BY <1>1, AnnouncedFacts
<1>4. Cardinality(Announced(e) \union {Len(stream) + 1}) = Cardinality(Announced(e)) + 1
  BY <1>3, FS_AddElement
<1>5. Cardinality(Announced(e)) \in Nat
  BY AnnouncedFacts
<1>6. QED
  BY <1>2, <1>4, <1>5

-----------------------------------------------------------------------------
(* One announcement of a closing for each opening                          *)

Emitting == {h \in Heals : heals[h].pc = "emit"}

Counts ==
  /\ openings = closings + (IF breaker = "OPEN" THEN 1 ELSE 0)
  /\ Cardinality(Announced("BROKER_CIRCUIT_CLOSED")) + Cardinality(Emitting) <= closings

(* The healings that have closed and are to announce it can be counted.    *)
LEMMA EmittingFinite == IsFiniteSet(Emitting) /\ Cardinality(Emitting) \in Nat
<1>1. IsFiniteSet(1 .. MaxEvents) /\ IsFiniteSet({1, 2})
  <2>1. {1, 2} = {1} \union {2}
    OBVIOUS
  <2>2. IsFiniteSet(1 .. MaxEvents)
    BY BreakerAssumption, FS_Interval
  <2>3. IsFiniteSet({1} \union {2})
    BY FS_Singleton, FS_AddElement
  <2>4. QED
    BY <2>1, <2>2, <2>3
<1>2. IsFiniteSet(Heals)
  BY <1>1, FS_Product DEF Heals
<1>3. Emitting \subseteq Heals
  BY DEF Emitting
<1>4. QED
  BY <1>2, <1>3, FS_Subset, FS_CardinalityType

(* The healings with a closing to announce, after a step of one of them.   *)
LEMMA EmittingSteps ==
  ASSUME NEW h \in Heals, NEW pc, HealTo(h, pc)
  PROVE  /\ pc = "emit" /\ heals[h].pc # "emit" =>
              Cardinality(Emitting)' = Cardinality(Emitting) + 1
         /\ pc # "emit" /\ heals[h].pc = "emit" =>
              Cardinality(Emitting)' = Cardinality(Emitting) - 1
         /\ pc # "emit" /\ heals[h].pc # "emit" =>
              Cardinality(Emitting)' = Cardinality(Emitting)
<1>1. CASE pc = "emit" /\ heals[h].pc # "emit"
  <2>1. Emitting' = Emitting \union {h} /\ h \notin Emitting
    BY <1>1 DEF HealTo, Emitting
  <2>2. QED
    BY <1>1, <2>1, EmittingFinite, FS_AddElement
<1>2. CASE pc # "emit" /\ heals[h].pc = "emit"
  <2>1. Emitting' = Emitting \ {h} /\ h \in Emitting
    BY <1>2 DEF HealTo, Emitting
  <2>2. QED
    BY <1>2, <2>1, EmittingFinite, FS_RemoveElement
<1>3. CASE pc # "emit" /\ heals[h].pc # "emit"
  <2>1. Emitting' = Emitting
    BY <1>3 DEF HealTo, Emitting
  <2>2. QED
    BY <1>3, <2>1
<1>4. QED
  BY <1>1, <1>2, <1>3

(* At the start nothing has been opened or closed.                         *)
LEMMA CountsInit == Init => Counts
<1> SUFFICES ASSUME Init PROVE Counts
  OBVIOUS
<1>1. Announced("BROKER_CIRCUIT_CLOSED") = {} /\ Emitting = {}
  BY DEF Init, BreakerInit, Announced, Emitting
<1>2. Cardinality({}) = 0
  BY FS_EmptySet
<1>3. breaker = "CLOSED" /\ openings = 0 /\ closings = 0
  BY DEF Init, BreakerInit
<1>4. QED
  BY <1>1, <1>2, <1>3 DEF Counts

(* Each transition of the breaker is followed by one announcement.         *)
LEMMA CountsPreserved == TypeInv /\ Counts /\ [Next]_vars => Counts'
<1> SUFFICES ASSUME TypeInv, Counts, [Next]_vars PROVE Counts'
  OBVIOUS
<1> DEFINE closed == Cardinality(Announced("BROKER_CIRCUIT_CLOSED"))
           emitting == Cardinality(Emitting)
<1>0. /\ BreakerTypeOK /\ AttemptsLeft
      /\ openings \in Nat /\ closings \in Nat /\ breaker \in {"OPEN", "CLOSED"}
      /\ closed \in Nat /\ emitting \in Nat
  BY AnnouncedFacts, EmittingFinite DEF TypeInv, TypeOK, BreakerTypeOK, Events
<1>a. UNCHANGED stream => closed' = closed
  BY DEF Announced
<1>b. UNCHANGED heals => emitting' = emitting
  BY DEF Emitting
<1>1. CASE UNCHANGED breakerVars
  BY <1>0, <1>1, <1>a, <1>b DEF breakerVars, Counts
<1>2. CASE OpenBreaker /\ UNCHANGED <<closings, stream, heals, shown, flag>>
  BY <1>0, <1>2, <1>a, <1>b DEF OpenBreaker, Counts
<1>3. CASE /\ Announce("BROKER_CIRCUIT_OPEN")
           /\ UNCHANGED <<breaker, openings, closings, heals, shown, flag>>
  <2>1. closed' = closed
    BY <1>0, <1>3, AnnounceFacts DEF Events
  <2>2. QED
    BY <1>0, <1>3, <2>1, <1>b DEF Counts
<1>4. ASSUME NEW h \in Heals,
             \/ StartHeal(h) \/ CheckBreakerState(h) \/ HealthCheck(h)
             \/ HealthCheckFails(h) \/ EscalateHealFailure(h)
      PROVE  Counts'
  <2>1. \E pc \in HealPcs \ {"emit"} : HealTo(h, pc)
    BY <1>0, <1>4, HealSteps DEF HealPcs
  <2>2. heals[h].pc # "emit"
    BY <1>4 DEF StartHeal, CheckBreakerState, HealthCheck, HealthCheckFails,
       EscalateHealFailure
  <2>3. emitting' = emitting
    BY <2>1, <2>2, EmittingSteps
  <2>4. UNCHANGED <<breaker, openings, closings, stream>>
    BY <1>4 DEF StartHeal, CheckBreakerState, HealthCheck, HealthCheckFails,
       EscalateHealFailure
  <2>5. QED
    BY <1>0, <2>3, <2>4, <1>a DEF Counts
<1>5. ASSUME NEW h \in Heals, CloseBreaker(h) PROVE Counts'
  <2>1. heals[h].pc = "close" /\ UNCHANGED <<openings, stream>>
    BY <1>5 DEF CloseBreaker
  <2>2. CASE breaker = "OPEN"
    <3>1. HealTo(h, "emit")
      BY <1>0, <1>5, <2>2, HealSteps
    <3>2. emitting' = emitting + 1
      BY <2>1, <3>1, EmittingSteps
    <3>3. breaker' = "CLOSED" /\ closings' = closings + 1
      BY <1>5, <2>2 DEF CloseBreaker
    <3>4. QED
      BY <1>0, <1>a, <2>1, <2>2, <3>2, <3>3 DEF Counts
  <2>3. CASE breaker # "OPEN"
    <3>1. HealTo(h, "healthy")
      BY <1>0, <1>5, <2>3, HealSteps
    <3>2. emitting' = emitting
      BY <2>1, <3>1, EmittingSteps
    <3>3. UNCHANGED <<breaker, closings>>
      BY <1>5, <2>3 DEF CloseBreaker
    <3>4. QED
      BY <1>0, <1>a, <2>1, <2>3, <3>2, <3>3 DEF Counts
  <2>4. QED
    BY <2>2, <2>3
<1>6. ASSUME NEW h \in Heals, EmitBreakerClosed(h) PROVE Counts'
  <2>1. HealTo(h, "healed") /\ heals[h].pc = "emit"
    BY <1>0, <1>6, HealSteps DEF EmitBreakerClosed
  <2>2. emitting' = emitting - 1
    BY <2>1, EmittingSteps
  <2>3. closed' = closed + 1
    BY <1>0, <1>6, AnnounceFacts DEF EmitBreakerClosed, Events
  <2>4. QED
    BY <1>0, <1>6, <2>2, <2>3 DEF EmitBreakerClosed, Counts
<1>7. ASSUME NEW h \in Heals, HealFails(h) PROVE Counts'
  <2>1. HealTo(h, "dead") /\ UNCHANGED <<openings, stream>>
    BY <1>0, <1>7, HealSteps DEF HealFails
  <2>2. emitting' <= emitting /\ emitting' \in Int
    BY <1>0, <2>1, EmittingSteps
  <2>3. \/ UNCHANGED <<breaker, closings>>
        \/ breaker = "OPEN" /\ breaker' = "CLOSED" /\ closings' = closings + 1
    BY <1>7 DEF HealFails
  <2>4. QED
    BY <1>0, <1>a, <2>1, <2>2, <2>3 DEF Counts
<1>8. ASSUME NEW n \in 1 .. MaxEvents, UpdateFlag(n) PROVE Counts'
  BY <1>0, <1>8, <1>a, <1>b DEF UpdateFlag, Counts
<1>9. QED
  BY <1>1, <1>2, <1>3, <1>4, <1>5, <1>6, <1>7, <1>8, BreakerMoves DEF BreakerNext, Heal

(* Closings are announced at most once for each opening.                   *)
THEOREM AlpacaOneClosePerOpening == Spec => []OneClosePerOpening
<1>1. TypeInv /\ Counts => OneClosePerOpening
  <2> SUFFICES ASSUME TypeInv, Counts PROVE OneClosePerOpening
    OBVIOUS
  <2>1. /\ Cardinality(Announced("BROKER_CIRCUIT_CLOSED")) \in Nat
        /\ Cardinality(Emitting) \in Nat
        /\ openings \in Nat /\ closings \in Nat
    BY AnnouncedFacts, EmittingFinite DEF TypeInv, TypeOK, BreakerTypeOK, Events
  <2>2. QED
    BY <2>1 DEF Counts, OneClosePerOpening
<1>2. QED
  BY <1>1, TypeInit, TypePreserved, CountsInit, CountsPreserved, PTL DEF Spec

-----------------------------------------------------------------------------
(* The features come back                                                  *)

NoSecondHealing == \A h \in Heals : h[2] = 2 => heals[h].pc = "none"

(* The announcements of an opening whose first healing is healed.          *)
Healed == {n \in 1 .. MaxEvents : heals[<<n, 1>>].pc = "healed"}

Healings ==
  /\ \A h \in Heals : heals[h].pc # "none" => h[1] \in Announced("BROKER_CIRCUIT_OPEN")
  /\ \A h \in Heals : heals[h].pc = "healed" =>
       \E n \in Announced("BROKER_CIRCUIT_CLOSED") : h[1] < n
  /\ NoSecondHealing =>
       Cardinality(Announced("BROKER_CIRCUIT_CLOSED")) <= Cardinality(Healed)

(* The flag shows the latest announcement that was handled.                *)
FlagIsLatest ==
  /\ flag.lastEventAt = shown /\ shown <= Len(stream)
  /\ shown = 0 \/ stream[shown] = "BROKER_CIRCUIT_CLOSED" => flag.enabled

(* The announced openings whose first healing is over can be counted.      *)
LEMMA HealedFinite == IsFiniteSet(Healed) /\ Cardinality(Healed) \in Nat
<1>1. IsFiniteSet(1 .. MaxEvents) /\ Healed \subseteq 1 .. MaxEvents
  BY BreakerAssumption, FS_Interval DEF Healed
<1>2. QED
  BY <1>1, FS_Subset, FS_CardinalityType

(* At the start there is nothing to heal, and the flag is on.              *)
LEMMA HealingsInit == Init => Healings /\ FlagIsLatest
<1> SUFFICES ASSUME Init PROVE Healings /\ FlagIsLatest
  OBVIOUS
<1>1. /\ stream = <<>> /\ shown = 0
      /\ \A h \in Heals : heals[h].pc = "none"
      /\ flag = [enabled |-> TRUE, lastEventAt |-> 0]
  BY DEF Init, BreakerInit
<1>2. Announced("BROKER_CIRCUIT_CLOSED") = {} /\ Cardinality({}) = 0
  BY <1>1, FS_EmptySet DEF Announced
<1>3. Healings
  <2>1. 0 <= Cardinality(Healed)
    BY HealedFinite
  <2>2. QED
    BY <1>1, <1>2, <2>1 DEF Healings
<1>4. FlagIsLatest
  BY <1>1 DEF FlagIsLatest
<1>5. QED
  BY <1>3, <1>4

(* An announcement leaves the earlier ones, and what the flag shows.       *)
LEMMA AnnounceKeepsFlag ==
  ASSUME BreakerTypeOK, FlagIsLatest, NEW event \in Events, Announce(event),
         UNCHANGED <<shown, flag>>
  PROVE  FlagIsLatest'
  BY DEF BreakerTypeOK, FlagIsLatest, Announce, Events

(* A handled announcement replaces the flag only if it is newer.           *)
LEMMA FlagPreserved == TypeInv /\ FlagIsLatest /\ [Next]_vars => FlagIsLatest'
<1> SUFFICES ASSUME TypeInv, FlagIsLatest, [Next]_vars PROVE FlagIsLatest'
  OBVIOUS
<1>0. BreakerTypeOK
  BY DEF TypeInv, TypeOK
<1>1. CASE UNCHANGED <<stream, shown, flag>>
  BY <1>1 DEF FlagIsLatest
<1>2. CASE UNCHANGED <<shown, flag>> /\ \E event \in Events : Announce(event)
  BY <1>0, <1>2, AnnounceKeepsFlag
<1>3. ASSUME NEW n \in 1 .. MaxEvents, UpdateFlag(n) PROVE FlagIsLatest'
  <2>0. n \in 1 .. Len(stream) /\ UNCHANGED stream /\ shown \in Int
    BY <1>0, <1>3 DEF UpdateFlag, BreakerTypeOK
  <2>1. CASE shown < n
    <3>1. shown' = n /\ flag' = [enabled |-> stream[n] = "BROKER_CIRCUIT_CLOSED",
                                 lastEventAt |-> n]
      BY <1>3, <2>1 DEF UpdateFlag, FlagIsLatest, Enables
    <3>2. flag'.lastEventAt = n /\ flag'.enabled = (stream[n] = "BROKER_CIRCUIT_CLOSED")
      BY <3>1
    <3>3. CASE stream[n] = "BROKER_CIRCUIT_CLOSED"
      <4>1. flag'.enabled
        BY <3>2, <3>3
      <4>2. QED
        BY <2>0, <3>1, <3>2, <4>1 DEF FlagIsLatest
    <3>4. CASE stream[n] # "BROKER_CIRCUIT_CLOSED"
      <4>1. ~(shown' = 0 \/ stream'[shown'] = "BROKER_CIRCUIT_CLOSED")
        BY <2>0, <3>1, <3>4
      <4>2. shown' <= Len(stream')
        BY <2>0, <3>1
      <4>3. QED
        BY <3>1, <3>2, <4>1, <4>2 DEF FlagIsLatest
    <3>5. QED
      BY <3>3, <3>4
  <2>2. CASE ~(shown < n)
    BY <1>3, <2>2 DEF UpdateFlag, FlagIsLatest
  <2>3. QED
    BY <2>1, <2>2
<1>4. CASE BreakerNext
  BY <1>1, <1>2, <1>3, <1>4
  DEF BreakerNext, Heal, StartHeal, CheckBreakerState, HealthCheck, HealthCheckFails,
      CloseBreaker, EmitBreakerClosed, EscalateHealFailure, HealFails, Events
<1>5. QED
  BY <1>1, <1>2, <1>4, BreakerMoves DEF breakerVars, Events

(* A healing in progress goes on, to an end other than "healed".           *)
LEMMA HealGoesOn ==
  ASSUME Healings, UNCHANGED stream, NEW h \in Heals, NEW pc \in HealPcs \ {"none", "healed"},
         HealTo(h, pc), heals[h].pc # "healed",
         heals[h].pc # "none" \/ h[1] \in Announced("BROKER_CIRCUIT_OPEN")
  PROVE  Healings'
<1>1. \A event \in Events : Announced(event)' = Announced(event)
  BY DEF Announced
<1>2. \A n \in 1 .. MaxEvents : <<n, 1>> \in Heals
  BY DEF Heals
<1>3. Healed' = Healed
  BY <1>2 DEF HealTo, Healed
<1>4. NoSecondHealing' => NoSecondHealing
  BY DEF NoSecondHealing, HealTo
<1>5. QED
  BY <1>1, <1>3, <1>4 DEF Healings, HealTo, Events

(* A healing closes what it was started for, and each closing is announced *)
(* after its opening.                                                      *)
LEMMA HealingsPreserved == TypeInv /\ Healings /\ [Next]_vars => Healings'
<1> SUFFICES ASSUME TypeInv, Healings, [Next]_vars PROVE Healings'
  OBVIOUS
<1>0. BreakerTypeOK /\ AttemptsLeft
  BY DEF TypeInv, TypeOK
<1>1. CASE UNCHANGED <<stream, heals>>
  BY <1>1 DEF Healings, NoSecondHealing, Healed, Announced
<1>2. CASE Announce("BROKER_CIRCUIT_OPEN") /\ UNCHANGED heals
  <2>1. /\ Announced("BROKER_CIRCUIT_OPEN") \subseteq Announced("BROKER_CIRCUIT_OPEN")'
        /\ Announced("BROKER_CIRCUIT_CLOSED")' = Announced("BROKER_CIRCUIT_CLOSED")
    BY <1>0, <1>2, AnnounceFacts DEF Events
  <2>2. QED
    BY <1>2, <2>1 DEF Healings, NoSecondHealing, Healed
<1>3. ASSUME NEW h \in Heals, StartHeal(h) PROVE Healings'
  <2>1. /\ HealTo(h, "check") /\ heals[h].pc = "none" /\ UNCHANGED stream
        /\ h[1] \in Announced("BROKER_CIRCUIT_OPEN")
    BY <1>0, <1>3, HealSteps DEF StartHeal, Announced
  <2>2. QED
    BY <2>1, HealGoesOn DEF HealPcs
<1>4. ASSUME NEW h \in Heals,
             \/ CheckBreakerState(h) \/ HealthCheck(h) \/ HealthCheckFails(h)
             \/ CloseBreaker(h) \/ EscalateHealFailure(h) \/ HealFails(h)
      PROVE  Healings'
  <2>1. \E pc \in HealPcs \ {"none", "healed"} : HealTo(h, pc)
    BY <1>0, <1>4, HealSteps DEF HealPcs
  <2>2. heals[h].pc \notin {"none", "healed"} /\ UNCHANGED stream
    BY <1>4 DEF CheckBreakerState, HealthCheck, HealthCheckFails, CloseBreaker,
       EscalateHealFailure, HealFails
  <2>3. QED
    BY <2>1, <2>2, HealGoesOn
<1>5. ASSUME NEW h \in Heals, EmitBreakerClosed(h) PROVE Healings'
  <2> DEFINE closed == Announced("BROKER_CIRCUIT_CLOSED")
             opened == Announced("BROKER_CIRCUIT_OPEN")
  <2>1. HealTo(h, "healed") /\ heals[h].pc = "emit"
    BY <1>0, <1>5, HealSteps DEF EmitBreakerClosed
  <2>2. /\ closed' = closed \union {Len(stream) + 1} /\ opened' = opened
        /\ Cardinality(closed)' = Cardinality(closed) + 1
    BY <1>0, <1>5, AnnounceFacts DEF EmitBreakerClosed, Events
  <2>3. /\ \A k \in Heals : heals[k].pc # "none" => k[1] \in opened
        /\ \A k \in Heals : heals[k].pc = "healed" => \E n \in closed : k[1] < n
        /\ NoSecondHealing => Cardinality(closed) <= Cardinality(Healed)
    BY DEF Healings
  <2>4. h[1] < Len(stream) + 1
    <3>1. h[1] \in 1 .. Len(stream) /\ Len(stream) \in Nat
      BY <1>0, <2>1, <2>3, AnnouncedFacts DEF Events, BreakerTypeOK
    <3>2. QED
      BY <3>1
  <2>5. NoSecondHealing' => Cardinality(closed)' <= Cardinality(Healed)'
    <3> SUFFICES ASSUME NoSecondHealing' PROVE Cardinality(closed)' <= Cardinality(Healed)'
      OBVIOUS
    <3>1. NoSecondHealing /\ h[2] = 1
      BY <2>1 DEF NoSecondHealing, HealTo, Heals
    <3>2. h = <<h[1], 1>> /\ h[1] \in 1 .. MaxEvents
      BY <3>1 DEF Heals
    <3>3. Healed' = Healed \union {h[1]} /\ h[1] \notin Healed
      BY <2>1, <3>2 DEF Healed, HealTo, Heals
    <3>4. Cardinality(Healed') = Cardinality(Healed) + 1
      BY <3>3, HealedFinite, FS_AddElement
    <3>5. Cardinality(closed) \in Nat
      BY <1>0, AnnouncedFacts DEF Events
    <3>6. QED
      BY <2>2, <2>3, <3>1, <3>4, <3>5, HealedFinite
  <2> HIDE DEF closed, opened
  <2>6. \A k \in Heals : heals'[k].pc # "none" => k[1] \in opened'
    BY <2>1, <2>2, <2>3 DEF HealTo
  <2>7. \A k \in Heals : heals'[k].pc = "healed" => \E n \in closed' : k[1] < n
    BY <2>1, <2>2, <2>3, <2>4 DEF HealTo
  <2>8. QED
    BY <2>5, <2>6, <2>7 DEF Healings, closed, opened
<1>6. ASSUME NEW n \in 1 .. MaxEvents, UpdateFlag(n) PROVE Healings'
  BY <1>1, <1>6 DEF UpdateFlag
<1>7. QED
  BY <1>1, <1>2, <1>3, <1>4, <1>5, <1>6, BreakerMoves DEF BreakerNext, Heal, breakerVars

(* Where nothing is left to announce or handle, the newest announcement is *)
(* a closing.                                                              *)
LEMMA FeaturesOn == TypeInv /\ Counts /\ Healings /\ FlagIsLatest => FlagsComeBack
<1> SUFFICES ASSUME TypeInv, Counts, Healings, FlagIsLatest,
                    breaker = "CLOSED",
                    openings = Cardinality(Announced("BROKER_CIRCUIT_OPEN")),
                    closings = Cardinality(Announced("BROKER_CIRCUIT_CLOSED")),
                    shown = Len(stream), NoSecondHealing, shown # 0,
                    stream[shown] # "BROKER_CIRCUIT_CLOSED"
    PROVE  FALSE
  BY DEF FlagsComeBack, FlagIsLatest, NoSecondHealing
<1> DEFINE opened == Announced("BROKER_CIRCUIT_OPEN")
<1>1. /\ BreakerTypeOK /\ Len(stream) \in Nat
      /\ IsFiniteSet(opened) /\ Cardinality(opened) \in Nat
      /\ openings \in Nat /\ closings \in Nat
  BY AnnouncedFacts DEF TypeInv, TypeOK, BreakerTypeOK, Events
<1>2. Len(stream) \in opened
  BY <1>1 DEF BreakerTypeOK, Announced
<1>3. Healed \subseteq opened
  BY DEF Healed, Healings, Heals
<1>4. Cardinality(opened) <= Cardinality(Healed)
  BY <1>1 DEF Counts, Healings
<1>5. Healed = opened
  BY <1>1, <1>3, <1>4, HealedFinite, FS_Subset
<1>6. PICK n \in Announced("BROKER_CIRCUIT_CLOSED") : Len(stream) < n
  <2>1. Len(stream) \in 1 .. MaxEvents /\ heals[<<Len(stream), 1>>].pc = "healed"
    BY <1>2, <1>5 DEF Healed
  <2>2. <<Len(stream), 1>> \in Heals
    BY <2>1 DEF Heals
  <2>3. QED
    BY <2>1, <2>2 DEF Healings
<1>7. QED
  BY <1>1, <1>6, AnnouncedFacts DEF Events

(* A breaker that has closed, both changes announced and shown, leaves the *)
(* features on, in whatever order the announcements were handled.          *)
THEOREM AlpacaFlagsComeBack == Spec => []FlagsComeBack
  BY TypeInit, TypePreserved, CountsInit, CountsPreserved, HealingsInit,
     HealingsPreserved, FlagPreserved, FeaturesOn, PTL DEF Spec

-----------------------------------------------------------------------------
(* A failure is told                                                       *)

FailedNow(t) == mapping[t] = "FAILED"

(* For each transfer whose row says FAILED a result is on the bus or the   *)
(* carrier is written; and only for those.  investor-bff shows the end of  *)
(* no other transfer.                                                      *)
FailureKept ==
  /\ \A t \in Transfers :
       FailedNow(t) => (\E a \in results : a.of = t) \/ <<t, "failed">> \in carriers
  /\ \A a \in results : a.of \in Transfers => a.status = "FAILED" /\ FailedNow(a.of)
  /\ \A c \in carriers :
       c[2] = "requested" \/ (c[2] = "failed" /\ FailedNow(c[1]))
  /\ \A t \in Transfers : row[t] > 1 => FailedNow(t)

(* At the start no transfer has a row.                                     *)
LEMMA FailureInit == Init => FailureKept
<1> SUFFICES ASSUME Init PROVE FailureKept
  OBVIOUS
<1>1. \A t \in Transfers : t \in Subjects
  BY DEF Subjects
<1>2. QED
  BY <1>1 DEF Init, BusInit, AdapterInit, FundingInit, FailureKept, FailedNow

(* The rows of the transfers only ever gain a failure that is told.        *)
LEMMA FailureOfAdapter ==
  ASSUME TypeInv, FailureKept, AdapterNext, AdapterStep
  PROVE  FailureKept'
<1>0. /\ AdapterTypeOK /\ BusTypeOK
      /\ \A t \in Transfers : t \in Subjects /\ t \notin Orders /\ Refused(t) = "FAILED"
      /\ \A r \in Requests : SubjectOf(r) \in Subjects
      /\ \A s \in Subjects : s \in Orders \/ s \in Transfers
      /\ \A s \in Orders : s \notin Transfers
  BY SubjectFacts, BusAssumption DEF TypeInv, TypeOK, Subjects, Refused
<1>f. UNCHANGED <<carriers, row>>
  BY DEF AdapterStep, fundingVars
<1>1. ASSUME NEW s \in Subjects, Tell(s), mapping' = [mapping EXCEPT ![s] = Refused(s)]
      PROVE  FailureKept'
  <2> DEFINE new == [of |-> s, by |-> "alpaca", status |-> Refused(s)]
  <2>1. results' = results \union {new}
    BY <1>1 DEF Tell
  <2>2. /\ new.of = s /\ new.status = Refused(s)
        /\ \A u \in Subjects : mapping'[u] = IF u = s THEN Refused(s) ELSE mapping[u]
    BY <1>0, <1>1 DEF AdapterTypeOK
  <2> HIDE DEF new
  <2>3. ASSUME NEW t \in Transfers, FailedNow(t) PROVE FailedNow(t)'
    BY <1>0, <2>2, <2>3 DEF FailedNow
  <2>4. ASSUME NEW t \in Transfers, FailedNow(t)'
        PROVE (\E a \in results' : a.of = t) \/ <<t, "failed">> \in carriers'
    <3>1. CASE t = s
      BY <2>1, <2>2, <3>1
    <3>2. CASE t # s
      BY <1>0, <1>f, <2>1, <2>2, <2>4, <3>2 DEF FailedNow, FailureKept
    <3>3. QED
      BY <3>1, <3>2
  <2>5. ASSUME NEW a \in results', a.of \in Transfers
        PROVE  a.status = "FAILED" /\ FailedNow(a.of)'
    <3>1. CASE a = new
      BY <1>0, <2>2, <2>5, <3>1 DEF FailedNow
    <3>2. CASE a \in results
      BY <2>3, <2>5, <3>2 DEF FailureKept
    <3>3. QED
      BY <2>1, <3>1, <3>2
  <2>6. \A c \in carriers' : c[2] = "requested" \/ (c[2] = "failed" /\ FailedNow(c[1])')
    <3>1. \A c \in carriers : c[1] \in Transfers
      BY DEF TypeInv, TypeOK, FundingTypeOK
    <3>2. QED
      BY <1>f, <2>3, <3>1 DEF FailureKept
  <2>7. \A t \in Transfers : row'[t] > 1 => FailedNow(t)'
    BY <1>f, <2>3 DEF FailureKept
  <2>8. QED
    BY <2>4, <2>5, <2>6, <2>7 DEF FailureKept
<1>2. ASSUME UNCHANGED results,
             \A t \in Transfers : FailedNow(t)' <=> FailedNow(t)
      PROVE  FailureKept'
  <2>1. \A c \in carriers : c[1] \in Transfers
    BY DEF TypeInv, TypeOK, FundingTypeOK
  <2>2. QED
    BY <1>2, <1>f, <2>1 DEF FailureKept
<1>3. ASSUME NEW r \in Requests, Reject(r) PROVE FailureKept'
  BY <1>0, <1>1, <1>2, <1>3 DEF Reject, FailedNow
<1>4. ASSUME NEW t \in Transfers, PollTransfer(t) PROVE FailureKept'
  <2>1. t \in Subjects /\ Refused(t) = "FAILED"
    BY <1>0
  <2>2. CASE mapping' = [mapping EXCEPT ![t] = "FAILED"] /\ Tell(t)
    BY <1>1, <2>1, <2>2
  <2>3. CASE UNCHANGED <<mapping, results>>
    BY <1>2, <2>3 DEF FailedNow
  <2>4. QED
    BY <1>4, <2>2, <2>3 DEF PollTransfer
<1>5. ASSUME NEW r \in Requests, Map(r) PROVE FailureKept'
  <2>1. \A t \in Transfers : FailedNow(t)' <=> FailedNow(t)
    BY <1>0, <1>5, SubjectNames DEF Map, FailedNow, AdapterTypeOK, Placed
  <2>2. QED
    BY <1>2, <1>5, <2>1 DEF Map, busVars
<1>6. ASSUME NEW r \in Requests,
             \/ CheckBreaker(r) \/ Call(r) \/ CheckHealth(r) \/ Open(r)
             \/ WriteBreakerOpenEvent(r) \/ RedeliverLive(r)
      PROVE  FailureKept'
  BY <1>2, <1>6 DEF CheckBreaker, Call, CheckHealth, Open, WriteBreakerOpenEvent,
     RedeliverLive, busVars, FailedNow
<1>7. QED
  BY <1>3, <1>4, <1>5, <1>6 DEF AdapterNext, HandleLive

(* A result leaves the bus only when its carrier is written.               *)
LEMMA FailureOfFunding ==
  ASSUME TypeInv, FailureKept, FundingNext, FundingStep
  PROVE  FailureKept'
<1>0. FundingTypeOK /\ BusTypeOK /\ UNCHANGED mapping
  BY DEF TypeInv, TypeOK, FundingStep, adapterVars
<1>m. \A t \in Transfers : FailedNow(t)' <=> FailedNow(t)
  BY <1>0 DEF FailedNow
<1>c. \A c \in carriers : c[1] \in Transfers
  BY <1>0 DEF FundingTypeOK
<1>1. ASSUME NEW t \in Transfers, RouteTransfer(t) \/ RedeliverTransfer(t) PROVE FailureKept'
  BY <1>1, <1>m, <1>c DEF RouteTransfer, RedeliverTransfer, FailureKept
<1>2. ASSUME NEW t \in Transfers, RecordRequested(t) PROVE FailureKept'
  BY <1>2, <1>m, <1>c DEF RecordRequested, FailureKept, busVars
<1>3. ASSUME NEW a \in results, a.of \in Transfers, NormalizeFirst(a) \/ NormalizeLast(a)
      PROVE  FailureKept'
  <2>1. a.status = "FAILED" /\ FailedNow(a.of) /\ CarriersOf(a) = <<"failed">>
    BY <1>3 DEF FailureKept, CarriersOf
  <2>2. /\ carriers' = carriers \union {<<a.of, "failed">>}
        /\ results' \subseteq results /\ \A b \in results : b # a => b \in results'
        /\ UNCHANGED row
    BY <1>3, <2>1 DEF NormalizeFirst, NormalizeLast, Consume
  <2>3. \A t \in Transfers : FailedNow(t)' =>
          (\E b \in results' : b.of = t) \/ <<t, "failed">> \in carriers'
    BY <1>m, <2>2 DEF FailureKept
  <2>4. \A b \in results' : b.of \in Transfers => b.status = "FAILED" /\ FailedNow(b.of)'
    BY <1>m, <2>2 DEF FailureKept
  <2>5. \A c \in carriers' : c[2] = "requested" \/ (c[2] = "failed" /\ FailedNow(c[1])')
    BY <1>3, <1>m, <1>c, <2>1, <2>2 DEF FailureKept
  <2>6. \A t \in Transfers : row'[t] > 1 => FailedNow(t)'
    BY <1>m, <2>2 DEF FailureKept
  <2>7. QED
    BY <2>3, <2>4, <2>5, <2>6 DEF FailureKept
<1>4. ASSUME NEW t \in Transfers, NEW status \in Statuses, Project(t, status)
      PROVE  FailureKept'
  <2>1. <<t, status>> \in carriers /\ row' = [row EXCEPT ![t] = STATUS_ORDINAL[status]]
    BY <1>4 DEF Project
  <2>2. status = "requested" \/ FailedNow(t)
    BY <2>1 DEF FailureKept
  <2>3. STATUS_ORDINAL["requested"] = 1
    BY DEF STATUS_ORDINAL
  <2>4. \A u \in Transfers : row'[u] > 1 => FailedNow(u)'
    BY <1>0, <1>m, <2>1, <2>2, <2>3 DEF FailureKept, FundingTypeOK
  <2>5. UNCHANGED <<carriers, results>>
    BY <1>4 DEF Project, busVars
  <2>6. QED
    BY <1>m, <1>c, <2>4, <2>5 DEF FailureKept
<1>5. QED
  BY <1>1, <1>2, <1>3, <1>4 DEF FundingNext, Route, Normalize, Show

(* The order workflow and the breaker leave the transfers alone.           *)
LEMMA FailurePreserved == TypeInv /\ FailureKept /\ [Next]_vars => FailureKept'
<1> SUFFICES ASSUME TypeInv, FailureKept, [Next]_vars PROVE FailureKept'
  OBVIOUS
<1>1. ASSUME UNCHANGED <<mapping, carriers, row>>, results' \subseteq results,
             \A a \in results : a.of \in Transfers => a \in results'
      PROVE  FailureKept'
  BY <1>1 DEF FailureKept, FailedNow
<1>2. CASE OrderNext /\ OrderStep
  <2>1. UNCHANGED <<mapping, carriers, row>>
    BY <1>2 DEF OrderStep, adapterVars, fundingVars
  <2>2. /\ results' \subseteq results
        /\ \A a \in results : a.of \in Transfers => a \in results'
    <3>1. Orders \intersect Transfers = {}
      BY BusAssumption
    <3>2. CASE UNCHANGED results
      BY <3>2
    <3>3. ASSUME NEW o \in Orders, Resolve(o) PROVE <2>2!1 /\ <2>2!2
      BY <3>1, <3>3 DEF Resolve, ResolveCallback, Consume
    <3>4. QED
      BY <1>2, <3>2, <3>3 DEF OrderNext, Workflow, Start, CreateOrder, EmitRequest,
         RouteFails, TimeOut, MarkFilled, HandleTimeout, MarkFails, busVars
  <2>3. QED
    BY <1>1, <2>1, <2>2
<1>3. CASE BreakerNext /\ BreakerStep
  <2>1. UNCHANGED results
    BY <1>3 DEF BreakerNext, Heal, StartHeal, CheckBreakerState, HealthCheck,
       HealthCheckFails, CloseBreaker, EmitBreakerClosed, EscalateHealFailure, HealFails,
       UpdateFlag, busVars
  <2>2. QED
    BY <1>1, <1>3, <2>1 DEF BreakerStep, adapterVars, fundingVars
<1>4. CASE UNCHANGED vars
  BY <1>1, <1>4 DEF vars, adapterVars, fundingVars, busVars
<1>5. QED
  BY <1>2, <1>3, <1>4, FailureOfAdapter, FailureOfFunding DEF Next

(* A transfer whose row says FAILED, whoever found it, is told to the      *)
(* investor: a result is on the bus or the status is written; and no other *)
(* transfer is shown as ended.                                             *)
THEOREM AlpacaFailureKept == Spec => []FailureKept
  BY TypeInit, TypePreserved, FailureInit, FailurePreserved, PTL DEF Spec

-----------------------------------------------------------------------------
(* An opening is answered                                                  *)

Announcing == {r \in Requests : live[r] = "announce"}

(* Each handler with an opening to announce has one of its own.            *)
OpeningsCounted ==
  /\ IsFiniteSet(Announcing)
  /\ Cardinality(Announced("BROKER_CIRCUIT_OPEN")) + Cardinality(Announcing) <= openings

(* Where a healing can be while the breaker it is to close is open.        *)
Answering ==
  {"none", "check", "health", "close", "escalate", "escalated", "dead", "misled"}

OpeningAnswered ==
  breaker = "OPEN" =>
    \/ Cardinality(Announced("BROKER_CIRCUIT_OPEN")) < openings
    \/ \E n \in Announced("BROKER_CIRCUIT_OPEN") : heals[<<n, 1>>].pc \in Answering

AnswerInv == OpeningsCounted /\ OpeningAnswered

(* At the start the breaker is closed.                                     *)
LEMMA AnswerInit == Init => AnswerInv
<1> SUFFICES ASSUME Init PROVE AnswerInv
  OBVIOUS
<1>1. Announced("BROKER_CIRCUIT_OPEN") = {} /\ Announcing = {}
  BY DEF Init, BreakerInit, AdapterInit, Announced, Announcing
<1>2. IsFiniteSet({}) /\ Cardinality({}) = 0
  BY FS_EmptySet
<1>3. breaker = "CLOSED" /\ openings = 0
  BY DEF Init, BreakerInit
<1>4. QED
  BY <1>1, <1>2, <1>3 DEF AnswerInv, OpeningsCounted, OpeningAnswered

(* The handlers with an opening to announce, after a step of one of them.  *)
LEMMA AnnouncingSteps ==
  ASSUME AdapterTypeOK, IsFiniteSet(Announcing), NEW r \in Requests, NEW pc,
         GotoLive(r, pc)
  PROVE  /\ IsFiniteSet(Announcing)' /\ Cardinality(Announcing) \in Nat
         /\ pc # "announce" => Cardinality(Announcing)' <= Cardinality(Announcing)
         /\ pc # "announce" /\ live[r] = "announce" =>
              Cardinality(Announcing)' = Cardinality(Announcing) - 1
         /\ Cardinality(Announcing)' <= Cardinality(Announcing) + 1
<1>0. Cardinality(Announcing) \in Nat
  BY FS_CardinalityType
<1>1. live' = [live EXCEPT ![r] = pc] /\ DOMAIN live = Requests
  BY DEF GotoLive, AdapterTypeOK
<1>2. CASE pc = "announce"
  <2>1. Announcing' = Announcing \union {r}
    BY <1>1, <1>2 DEF Announcing
  <2>2. QED
    BY <1>0, <1>2, <2>1, FS_AddElement
<1>3. CASE pc # "announce"
  <2>1. Announcing' = Announcing \ {r}
    BY <1>1, <1>3 DEF Announcing
  <2>2. r \in Announcing <=> live[r] = "announce"
    BY DEF Announcing
  <2>3. CASE r \in Announcing
    <3>1. /\ IsFiniteSet(Announcing')
          /\ Cardinality(Announcing') = Cardinality(Announcing) - 1
      BY <2>1, <2>3, FS_RemoveElement
    <3>2. QED
      BY <1>0, <1>3, <3>1
  <2>4. CASE r \notin Announcing
    <3>1. Announcing' = Announcing
      BY <2>1, <2>4
    <3>2. QED
      BY <1>0, <1>3, <2>2, <2>4, <3>1
  <2>5. QED
    BY <2>3, <2>4
<1>4. QED
  BY <1>0, <1>2, <1>3

(* The adapter's steps: an opening is counted when it happens and no less  *)
(* when its handler goes away before it is announced.                      *)
LEMMA AnswerOfAdapter ==
  ASSUME TypeInv, Healings, AnswerInv, AdapterNext
  PROVE  AnswerInv'
<1> DEFINE opened == Announced("BROKER_CIRCUIT_OPEN")
<1>0. /\ AdapterTypeOK /\ BreakerTypeOK /\ openings \in Nat /\ breaker \in {"OPEN", "CLOSED"}
      /\ IsFiniteSet(Announcing) /\ Cardinality(Announcing) \in Nat
      /\ Cardinality(opened) \in Nat
      /\ Cardinality(opened) + Cardinality(Announcing) <= openings
  BY FS_CardinalityType, AnnouncedFacts
  DEF TypeInv, TypeOK, BreakerTypeOK, AnswerInv, OpeningsCounted, Events
<1>a. UNCHANGED <<breaker, openings, stream, heals>> => OpeningAnswered'
  BY DEF AnswerInv, OpeningAnswered, Announced
<1>b. UNCHANGED stream => opened' = opened
  BY DEF Announced
<1>1. ASSUME NEW r \in Requests, NEW pc, pc # "announce", GotoLive(r, pc),
             UNCHANGED <<breaker, openings, stream, heals>>
      PROVE  AnswerInv'
  <2>1. IsFiniteSet(Announcing)' /\ Cardinality(Announcing)' <= Cardinality(Announcing)
    BY <1>0, <1>1, AnnouncingSteps
  <2>2. Cardinality(Announcing)' \in Nat
    BY <2>1, FS_CardinalityType
  <2>3. opened' = opened
    BY <1>1, <1>b
  <2> HIDE DEF opened
  <2>4. Cardinality(opened)' + Cardinality(Announcing)' <= openings'
    BY <1>0, <1>1, <2>1, <2>2, <2>3
  <2>5. QED
    BY <1>1, <1>a, <2>1, <2>4 DEF AnswerInv, OpeningsCounted, opened
<1>2. ASSUME NEW r \in Requests, CheckBreaker(r) \/ CheckHealth(r) \/ Call(r)
             \/ Map(r) \/ Reject(r) \/ RedeliverLive(r)
      PROVE  AnswerInv'
  <2>1. \E pc \in {"reject", "call", "open", "map", "health", "done", "new"} : GotoLive(r, pc)
    BY <1>2 DEF CheckBreaker, CheckHealth, Call, Map, Reject, RedeliverLive
  <2>2. UNCHANGED <<breaker, openings, stream, heals>>
    BY <1>2 DEF CheckBreaker, CheckHealth, Call, Map, Reject, RedeliverLive, breakerVars
  <2>3. QED
    BY <1>1, <2>1, <2>2
<1>3. ASSUME NEW r \in Requests, Open(r) PROVE AnswerInv'
  <2>1. CASE GotoLive(r, "reject") /\ UNCHANGED <<breaker, openings>>
    BY <1>1, <1>3, <2>1 DEF Open
  <2>2. CASE OpenBreaker /\ GotoLive(r, "announce")
    <3>1. openings' = openings + 1 /\ UNCHANGED <<stream, heals>>
      BY <1>3, <2>2 DEF Open, OpenBreaker
    <3>2. /\ IsFiniteSet(Announcing)'
          /\ Cardinality(Announcing)' <= Cardinality(Announcing) + 1
      BY <1>0, <2>2, AnnouncingSteps
    <3>3. Cardinality(Announcing)' \in Nat
      BY <3>2, FS_CardinalityType
    <3>4. opened' = opened
      BY <3>1, <1>b
    <3> HIDE DEF opened
    <3>5. /\ Cardinality(opened)' + Cardinality(Announcing)' <= openings'
          /\ Cardinality(opened)' < openings'
      BY <1>0, <3>1, <3>2, <3>3, <3>4
    <3>6. QED
      BY <3>2, <3>5 DEF AnswerInv, OpeningsCounted, OpeningAnswered, opened
  <2>3. QED
    BY <1>3, <2>1, <2>2 DEF Open
<1>4. ASSUME NEW r \in Requests, WriteBreakerOpenEvent(r) PROVE AnswerInv'
  <2>1. /\ opened' = opened \union {Len(stream) + 1}
        /\ Cardinality(opened)' = Cardinality(opened) + 1
        /\ UNCHANGED <<breaker, openings, heals>>
    BY <1>0, <1>4, AnnounceFacts DEF WriteBreakerOpenEvent, Events
  <2>2. /\ IsFiniteSet(Announcing)'
        /\ Cardinality(Announcing)' = Cardinality(Announcing) - 1
    BY <1>0, <1>4, AnnouncingSteps DEF WriteBreakerOpenEvent
  <2>3. heals[<<Len(stream) + 1, 1>>].pc = "none"
    <3>1. <<Len(stream) + 1, 1>> \in Heals
      <4>1. Len(stream) < MaxEvents /\ Len(stream) \in Nat
        BY <1>0, <1>4 DEF WriteBreakerOpenEvent, Announce, BreakerTypeOK
      <4>2. Len(stream) + 1 \in 1 .. MaxEvents
        BY <4>1, BreakerAssumption
      <4>3. QED
        BY <4>2 DEF Heals
    <3>2. Len(stream) + 1 \notin opened
      BY <1>0, AnnouncedFacts DEF Events, BreakerTypeOK
    <3>3. heals[<<Len(stream) + 1, 1>>].pc # "none" => Len(stream) + 1 \in opened
      BY <3>1 DEF Healings
    <3>4. QED
      BY <3>2, <3>3
  <2> HIDE DEF opened
  <2>4. Cardinality(opened)' + Cardinality(Announcing)' <= openings'
    BY <1>0, <2>1, <2>2
  <2>5. Len(stream) + 1 \in opened' /\ heals'[<<Len(stream) + 1, 1>>].pc \in Answering
    BY <2>1, <2>3 DEF Answering
  <2>6. QED
    BY <2>2, <2>4, <2>5 DEF AnswerInv, OpeningsCounted, OpeningAnswered, opened
<1>5. ASSUME NEW t \in Transfers, PollTransfer(t) PROVE AnswerInv'
  BY <1>5, <1>a DEF PollTransfer, breakerVars, AnswerInv, OpeningsCounted, Announcing,
     Announced
<1>6. QED
  BY <1>2, <1>3, <1>4, <1>5 DEF AdapterNext, HandleLive

(* A healing leaves the open breaker answered until it closes it.          *)
LEMMA AnswerOfHealing ==
  ASSUME TypeInv, AnswerInv, UNCHANGED live, BreakerNext
  PROVE  AnswerInv'
<1> DEFINE opened == Announced("BROKER_CIRCUIT_OPEN")
<1>0. BreakerTypeOK /\ AttemptsLeft /\ Announcing' = Announcing
  BY DEF TypeInv, TypeOK, Announcing
<1>1. UNCHANGED openings /\ opened' = opened /\ Cardinality(opened)' = Cardinality(opened)
  <2>1. CASE UNCHANGED <<openings, stream>>
    BY <2>1 DEF Announced
  <2>2. CASE UNCHANGED openings /\ Announce("BROKER_CIRCUIT_CLOSED")
    <3>1. opened' = opened
      BY <1>0, <2>2, AnnounceFacts DEF Events
    <3>2. QED
      BY <2>2, <3>1
  <2>3. QED
    BY <2>1, <2>2 DEF BreakerNext, Heal, StartHeal, CheckBreakerState, HealthCheck,
       HealthCheckFails, CloseBreaker, EmitBreakerClosed, EscalateHealFailure, HealFails,
       UpdateFlag
<1>2. OpeningsCounted'
  BY <1>0, <1>1 DEF AnswerInv, OpeningsCounted
<1>3. CASE breaker' # "OPEN"
  BY <1>2, <1>3 DEF AnswerInv, OpeningAnswered
<1>4. ASSUME UNCHANGED breaker, NEW h \in Heals, NEW pc, HealTo(h, pc),
             breaker = "OPEN" /\ heals[h].pc \in Answering => pc \in Answering
      PROVE  AnswerInv'
  <2>1. \A n \in opened : <<n, 1>> \in Heals
    <3>1. opened \subseteq 1 .. MaxEvents
      BY <1>0, BreakerAssumption DEF Announced, BreakerTypeOK
    <3>2. QED
      BY <3>1 DEF Heals
  <2>2. \A n \in opened :
          breaker = "OPEN" /\ heals[<<n, 1>>].pc \in Answering
            => heals'[<<n, 1>>].pc \in Answering
    BY <1>4, <2>1 DEF HealTo
  <2> HIDE DEF opened
  <2>3. OpeningAnswered'
    BY <1>1, <1>4, <2>2 DEF AnswerInv, OpeningAnswered, opened
  <2>4. QED
    BY <1>2, <2>3 DEF AnswerInv
<1>5. ASSUME NEW h \in Heals, StartHeal(h) \/ Heal(h) \/ HealFails(h), breaker' = "OPEN"
      PROVE  AnswerInv'
  <2>1. UNCHANGED breaker
    BY <1>0, <1>5 DEF Heal, StartHeal, CheckBreakerState, HealthCheck,
       HealthCheckFails, CloseBreaker, EmitBreakerClosed, EscalateHealFailure, HealFails
  <2>2. CASE StartHeal(h) \/ HealthCheck(h) \/ HealthCheckFails(h)
             \/ EscalateHealFailure(h) \/ HealFails(h)
    <3>1. \E pc \in Answering : HealTo(h, pc)
      BY <1>0, <2>2, HealSteps DEF Answering
    <3>2. QED
      BY <1>4, <2>1, <3>1
  <2>3. CASE CheckBreakerState(h)
    <3>1. \E pc \in {"health", "misled"} : HealTo(h, pc)
      BY <1>0, <1>5, <2>1, <2>3, HealSteps
    <3>2. QED
      BY <1>4, <2>1, <3>1 DEF Answering
  <2>4. CASE CloseBreaker(h)
    BY <1>5, <2>1, <2>4 DEF CloseBreaker
  <2>5. CASE EmitBreakerClosed(h)
    <3>1. HealTo(h, "healed") /\ heals[h].pc \notin Answering
      BY <1>0, <2>5, HealSteps DEF EmitBreakerClosed, Answering
    <3>2. QED
      BY <1>4, <2>1, <3>1
  <2>6. QED
    BY <1>5, <2>2, <2>3, <2>4, <2>5 DEF Heal
<1>6. ASSUME NEW n \in 1 .. MaxEvents, UpdateFlag(n) PROVE AnswerInv'
  BY <1>1, <1>2, <1>6 DEF UpdateFlag, AnswerInv, OpeningAnswered
<1>7. QED
  BY <1>3, <1>5, <1>6 DEF BreakerNext

(* Only the adapter opens the breaker, and only a healing closes it.       *)
LEMMA AnswerPreserved == TypeInv /\ Healings /\ AnswerInv /\ [Next]_vars => AnswerInv'
<1> SUFFICES ASSUME TypeInv, Healings, AnswerInv, [Next]_vars PROVE AnswerInv'
  OBVIOUS
<1>1. CASE UNCHANGED <<live, breakerVars>>
  BY <1>1 DEF breakerVars, AnswerInv, OpeningsCounted, OpeningAnswered, Announcing, Announced
<1>2. CASE BreakerNext /\ BreakerStep
  BY <1>2, AnswerOfHealing DEF BreakerStep, adapterVars
<1>3. QED
  BY <1>1, <1>2, AnswerOfAdapter
  DEF Next, OrderStep, FundingStep, vars, adapterVars

(* While the breaker is open, an opening has not been announced, or the    *)
(* healing of an announced one is still to start, is at work, has          *)
(* escalated, has died or was misled by an old read of the breaker row:    *)
(* none that saw the opening has ended as if the breaker were closed.      *)
THEOREM AlpacaOpeningAnswered == Spec => []OpeningAnswered
<1>1. AnswerInv => OpeningAnswered
  BY DEF AnswerInv
<1>2. QED
  BY <1>1, TypeInit, TypePreserved, HealingsInit, HealingsPreserved, AnswerInit,
     AnswerPreserved, PTL DEF Spec
=============================================================================
