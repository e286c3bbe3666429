--------------------------- MODULE SimBroker_proofs ---------------------------
(***************************************************************************)
(* Proofs about SimBroker, for any orders, transfers and bounds.  A fill   *)
(* that is reported is followed back through the execution and the result  *)
(* in flight to the trade, a transfer that is shown as settled through its *)
(* carrier and its result to the marker of the addition.  That the trades  *)
(* add up rests on the order of two reads: a handler that still has the    *)
(* latest version at its commit has read the latest position too, unless   *)
(* what it was given was an old one when it read it.  And a                *)
(* deposit is followed from the router to the investor's view, so that it  *)
(* is never in nobody's hands.  Last, an execution tells its end once.     *)
(***************************************************************************)
EXTENDS SimBroker, FiniteSetTheorems, TLAPS

-----------------------------------------------------------------------------
(* broker-ctrl, whichever adapter it talks to.                             *)

(* An order is answered by the simulated broker with its fill only.        *)
LEMMA OrderResults ==
  ASSUME NEW a \in Results, a.of \in Orders, a.by = "sim"
  PROVE  a.status = "FILLED"
  BY BusAssumption DEF Results

(* The token of an execution is one of the requests.                       *)
LEMMA TokenIsRequest == \A x \in Executions : Token(x) \in Requests
  BY BusAssumption DEF Token, Requests, Rounds

(* A result handled leaves the bus well typed.                             *)
LEMMA ConsumeType ==
  ASSUME BusTypeOK, NEW a, Consume(a)
  PROVE  results' \subseteq Results /\ faults' \in 0 .. MaxFaults
  BY BusAssumption DEF BusTypeOK, Consume, Fault

(* A fault is counted up to the bound.                                     *)
LEMMA FaultType ==
  ASSUME BusTypeOK, Fault
  PROVE  faults' \in 0 .. MaxFaults
  BY BusAssumption DEF BusTypeOK, Fault

(* The order workflow starts well typed.                                   *)
LEMMA OrderInitType ==
  ASSUME NEW submitted, OrderInit(submitted)
  PROVE  OrderTypeOK
<1>1. exec \in [Executions ->
       [pc : {"absent", "submitted"} \union Running \union Ended,
        status : {"none", "FILLED", "TIMEOUT"}]]
  BY DEF OrderInit, NotStarted
<1>2. QED
  BY <1>1 DEF OrderInit, OrderTypeOK

(* The steps of the order workflow.                                        *)
LEMMA OrderTypePreserved ==
  ASSUME BusTypeOK, OrderTypeOK, OrderNext
  PROVE  BusTypeOK' /\ OrderTypeOK'
<1> USE BusAssumption, TokenIsRequest
<1> USE DEF OrderTypeOK, BusTypeOK
<1>1. ASSUME NEW x \in Executions, Start(x) PROVE BusTypeOK' /\ OrderTypeOK'
  BY <1>1, FaultType DEF Start, SetExec, Running
<1>2. ASSUME NEW x \in Executions, CreateOrder(x) PROVE BusTypeOK' /\ OrderTypeOK'
  BY <1>2 DEF CreateOrder, SetExec, Running, busVars
<1>3. ASSUME NEW x \in Executions, EmitRequest(x) PROVE BusTypeOK' /\ OrderTypeOK'
  BY <1>3 DEF EmitRequest, SetExec, Running
<1>4. ASSUME NEW x \in Executions, RouteFails(x) PROVE BusTypeOK' /\ OrderTypeOK'
  BY <1>4, FaultType DEF RouteFails, SetExec, Ended
<1>5. ASSUME NEW x \in Executions, TimeOut(x) PROVE BusTypeOK' /\ OrderTypeOK'
  BY <1>5 DEF TimeOut, Running, busVars
<1>6. ASSUME NEW x \in Executions, MarkFilled(x) PROVE BusTypeOK' /\ OrderTypeOK'
  BY <1>6 DEF MarkFilled, SetState, Report, SetExec, Ended, busVars
<1>7. ASSUME NEW x \in Executions, HandleTimeout(x) PROVE BusTypeOK' /\ OrderTypeOK'
  BY <1>7 DEF HandleTimeout, SetState, Report, SetExec, Ended, busVars
<1>8. ASSUME NEW x \in Executions, MarkFails(x) PROVE BusTypeOK' /\ OrderTypeOK'
  <2>1. OrderOf[x] \in Orders
    OBVIOUS
  <2>2. brokerOrder' \in [Orders ->
          [state : {"none", "AWAITING_FILL", "FILLED", "ESCALATED"},
           token : Requests \union {NoToken}]]
    BY <1>8, <2>1 DEF MarkFails, SetState
  <2>3. reported' \subseteq Executions \X {"ORDER_FILLED", "ORDER_ESCALATED"}
    BY <1>8 DEF MarkFails, Report
  <2>4. QED
    BY <1>8, <2>2, <2>3, FaultType DEF MarkFails, SetExec, Ended
<1>9. ASSUME NEW a \in results, a.of \in Orders, ResolveCallback(a)
      PROVE  BusTypeOK' /\ OrderTypeOK'
  <2>1. \A x \in Awaiting(a) : a.status = "FILLED"
    BY <1>9, OrderResults DEF Awaiting
  <2>2. exec' \in [Executions ->
       [pc : {"absent", "submitted"} \union Running \union Ended,
        status : {"none", "FILLED", "TIMEOUT"}]]
    BY <1>9, <2>1 DEF ResolveCallback, Running
  <2>3. Awaiting(a) \subseteq Executions
    BY DEF Awaiting
  <2>4. requests' \subseteq Requests
    BY <1>9, <2>3 DEF ResolveCallback
  <2>5. QED
    BY <1>9, <2>2, <2>4, ConsumeType DEF ResolveCallback
<1>10. QED
  BY <1>1, <1>2, <1>3, <1>4, <1>5, <1>6, <1>7, <1>8, <1>9
  DEF OrderNext, Workflow, Resolve, ResolveCallback

-----------------------------------------------------------------------------
(* Every status of a transfer has a rank.                                  *)
LEMMA StatusFacts ==
  /\ {"requested", "detected", "settled", "failed"} \subseteq Statuses
  /\ \A status \in Statuses : STATUS_ORDINAL[status] \in 1 .. 3
  BY DEF Statuses, STATUS_ORDINAL

(* A result becomes one carrier or two, the last of them no longer a mere  *)
(* request.                                                                *)
LEMMA CarriersFacts ==
  ASSUME NEW a
  PROVE  /\ Len(CarriersOf(a)) \in {1, 2}
         /\ \A i \in 1 .. Len(CarriersOf(a)) :
              CarriersOf(a)[i] \in {"detected", "settled", "failed"}
  BY DEF CarriersOf

(* The transfers start well typed.                                         *)
LEMMA FundingInitType ==
  ASSUME NEW submitted, FundingInit(submitted)
  PROVE  FundingTypeOK
  BY DEF FundingInit, FundingTypeOK

(* The steps of the router, the normalizer and investor-bff.               *)
LEMMA FundingTypePreserved ==
  ASSUME BusTypeOK, FundingTypeOK, FundingNext
  PROVE  BusTypeOK' /\ FundingTypeOK'
<1> USE BusAssumption, StatusFacts
<1> USE DEF FundingTypeOK, BusTypeOK
<1>1. ASSUME NEW t \in Transfers, RouteTransfer(t) PROVE BusTypeOK' /\ FundingTypeOK'
  BY <1>1 DEF RouteTransfer, Requests
<1>2. ASSUME NEW t \in Transfers, RecordRequested(t) PROVE BusTypeOK' /\ FundingTypeOK'
  BY <1>2 DEF RecordRequested, busVars
<1>3. ASSUME NEW t \in Transfers, RedeliverTransfer(t) PROVE BusTypeOK' /\ FundingTypeOK'
  BY <1>3, FaultType DEF RedeliverTransfer
<1>4. ASSUME NEW a, NormalizeFirst(a) PROVE BusTypeOK' /\ FundingTypeOK'
  <2>1. CarriersOf(a)[1] \in Statuses
    BY CarriersFacts
  <2>2. QED
    BY <1>4, <2>1 DEF NormalizeFirst, busVars
<1>5. ASSUME NEW a, NormalizeLast(a) PROVE BusTypeOK' /\ FundingTypeOK'
  <2>1. CarriersOf(a)[Len(CarriersOf(a))] \in Statuses
    BY CarriersFacts
  <2>2. QED
    BY <1>5, <2>1, ConsumeType DEF NormalizeLast
<1>6. ASSUME NEW t \in Transfers, NEW status \in Statuses, Project(t, status)
      PROVE  BusTypeOK' /\ FundingTypeOK'
  BY <1>6 DEF Project, busVars
<1>7. QED
  BY <1>1, <1>2, <1>3, <1>4, <1>5, <1>6 DEF FundingNext, Route, Normalize, Show

-----------------------------------------------------------------------------
(* What investor-bff shows never goes back, in any step of the transfers.  *)
LEMMA RowsAdvance ==
  ASSUME FundingTypeOK, FundingNext
  PROVE  \A t \in Transfers : row'[t] >= row[t]
<1>1. CASE UNCHANGED row
  BY <1>1 DEF FundingTypeOK
<1>2. ASSUME NEW t \in Transfers, NEW status \in Statuses, Project(t, status)
      PROVE  \A u \in Transfers : row'[u] >= row[u]
  BY <1>2, StatusFacts DEF Project, FundingTypeOK
<1>3. QED
  BY <1>1, <1>2 DEF FundingNext, Route, RouteTransfer, RecordRequested,
     RedeliverTransfer, Normalize, NormalizeFirst, NormalizeLast, Show

-----------------------------------------------------------------------------
(* The composition.                                                        *)

WorkPcs == {"new", "init", "load", "validate", "version", "shares", "commit",
            "add", "record", "done"}
Trading == {"load", "validate", "version", "shares", "commit"}
WorkRow == [pc : WorkPcs, balance : Int, version : Nat, shares : Int]

VirtualTypeOK ==
  /\ cash \in [balance : Int, version : Nat]
  /\ position \in Int
  /\ trades \subseteq Orders
  /\ markers \subseteq Requests /\ recorded \subseteq Requests
  /\ failed \subseteq Requests
  /\ work \in [Requests -> WorkRow]
  /\ inits \in Nat
  /\ misread \subseteq Orders

(* What the reads return is typed as the rows are.                         *)
ReplicaTypeOK ==
  /\ cashes \subseteq [balance : Int, version : Nat]
  /\ positions \subseteq Int

(* Which requests a handler has at which of its steps.                     *)
WorkOK ==
  /\ IsFiniteSet(trades) /\ IsFiniteSet(markers)
  /\ \A r \in Requests :
       /\ work[r].pc # "new" => r \in requests
       /\ work[r].pc \in Trading => r[1] \in Executions
       /\ work[r].pc \in {"add", "record"} => r[1] \in Transfers
       /\ work[r].pc = "init" => r[1] \in Executions \union Deposits

TypeInv == TypeOK /\ WorkOK

(* The type invariant, service by service.                                 *)
LEMMA TypeParts ==
  TypeOK <=> BusTypeOK /\ OrderTypeOK /\ FundingTypeOK /\ VirtualTypeOK /\ ReplicaTypeOK
  BY DEF TypeOK, VirtualTypeOK, ReplicaTypeOK, WorkRow, WorkPcs

-----------------------------------------------------------------------------
(* The handler's steps                                                     *)

(* The handler of r goes to pc with what it has read, the others stay.     *)
HandlerTo(r, pc, balance, version, shares) ==
  \A q \in Requests :
    work'[q] = IF q = r
               THEN [pc |-> pc, balance |-> balance, version |-> version, shares |-> shares]
               ELSE work[q]

(* A handler that moves on differs in where it is.                         *)
LEMMA GotoFacts ==
  ASSUME VirtualTypeOK, NEW r \in Requests, NEW pc \in WorkPcs, Goto(r, pc)
  PROVE  /\ work' \in [Requests -> WorkRow]
         /\ HandlerTo(r, pc, work[r].balance, work[r].version, work[r].shares)
<1> DEFINE new == [work[r] EXCEPT !.pc = pc]
<1>1. work[r] \in WorkRow
  BY DEF VirtualTypeOK
<1>2. /\ new = [pc |-> pc, balance |-> work[r].balance, version |-> work[r].version,
                shares |-> work[r].shares]
      /\ new \in WorkRow
  BY <1>1 DEF WorkRow
<1>3. work' = [work EXCEPT ![r] = new]
  BY DEF Goto
<1> HIDE DEF new
<1>4. QED
  BY <1>2, <1>3 DEF VirtualTypeOK, HandlerTo

(* A read: the handler goes to pc with one of its fields set.              *)
LEMMA LoadCashFacts ==
  ASSUME VirtualTypeOK, ReplicaTypeOK, NEW r \in Requests, LoadCash(r)
  PROVE  /\ work' \in [Requests -> WorkRow]
         /\ \E seen \in cashes :
              /\ HandlerTo(r, "validate", seen.balance, work[r].version, work[r].shares)
<1>0. PICK seen \in cashes :
        /\ work' = [work EXCEPT ![r].pc = "validate", ![r].balance = seen.balance]
  BY DEF LoadCash
<1> DEFINE there == [work[r] EXCEPT !.pc = "validate"]
           new == [there EXCEPT !.balance = seen.balance]
<1>1. work[r] \in WorkRow /\ seen.balance \in Int
  BY DEF VirtualTypeOK, ReplicaTypeOK
<1>2. there = [pc |-> "validate", balance |-> work[r].balance,
               version |-> work[r].version, shares |-> work[r].shares]
  BY <1>1 DEF WorkRow
<1>3. work' = [work EXCEPT ![r] = new]
  BY <1>0
<1> HIDE DEF there
<1>4. /\ new = [pc |-> "validate", balance |-> seen.balance,
                version |-> work[r].version, shares |-> work[r].shares]
      /\ new \in WorkRow
  BY <1>1, <1>2 DEF WorkRow, WorkPcs
<1> HIDE DEF new
<1>5. work' \in [Requests -> WorkRow] /\ HandlerTo(r, "validate", seen.balance, work[r].version, work[r].shares)
  BY <1>3, <1>4 DEF VirtualTypeOK, HandlerTo
<1> QED
  BY <1>0, <1>5

(* Reading the version of the cash balance changes the handler only.       *)
LEMMA ReadVersionFacts ==
  ASSUME VirtualTypeOK, ReplicaTypeOK, NEW r \in Requests, ReadVersion(r)
  PROVE  /\ work' \in [Requests -> WorkRow]
         /\ \E seen \in cashes :
              /\ HandlerTo(r, "shares", work[r].balance, seen.version, work[r].shares)
<1>0. PICK seen \in cashes :
        /\ work' = [work EXCEPT ![r].pc = "shares", ![r].version = seen.version]
  BY DEF ReadVersion
<1> DEFINE there == [work[r] EXCEPT !.pc = "shares"]
           new == [there EXCEPT !.version = seen.version]
<1>1. work[r] \in WorkRow /\ seen.version \in Nat
  BY DEF VirtualTypeOK, ReplicaTypeOK
<1>2. there = [pc |-> "shares", balance |-> work[r].balance,
               version |-> work[r].version, shares |-> work[r].shares]
  BY <1>1 DEF WorkRow
<1>3. work' = [work EXCEPT ![r] = new]
  BY <1>0
<1> HIDE DEF there
<1>4. /\ new = [pc |-> "shares", balance |-> work[r].balance,
                version |-> seen.version, shares |-> work[r].shares]
      /\ new \in WorkRow
  BY <1>1, <1>2 DEF WorkRow, WorkPcs
<1> HIDE DEF new
<1>5. work' \in [Requests -> WorkRow] /\ HandlerTo(r, "shares", work[r].balance, seen.version, work[r].shares)
  BY <1>3, <1>4 DEF VirtualTypeOK, HandlerTo
<1> QED
  BY <1>0, <1>5

(* Reading the position changes the handler only.                          *)
LEMMA ReadSharesFacts ==
  ASSUME VirtualTypeOK, ReplicaTypeOK, NEW r \in Requests, ReadShares(r)
  PROVE  /\ work' \in [Requests -> WorkRow]
         /\ \E held \in positions :
              /\ HandlerTo(r, "commit", work[r].balance, work[r].version, held)
              /\ misread' = IF held = position THEN misread
                             ELSE misread \union {OrderBy(r)}
<1>0. PICK held \in positions :
        /\ work' = [work EXCEPT ![r].pc = "commit", ![r].shares = held]
        /\ misread' = IF held = position THEN misread ELSE misread \union {OrderBy(r)}
  BY DEF ReadShares
<1> DEFINE there == [work[r] EXCEPT !.pc = "commit"]
           new == [there EXCEPT !.shares = held]
<1>1. work[r] \in WorkRow /\ held \in Int
  BY DEF VirtualTypeOK, ReplicaTypeOK
<1>2. there = [pc |-> "commit", balance |-> work[r].balance,
               version |-> work[r].version, shares |-> work[r].shares]
  BY <1>1 DEF WorkRow
<1>3. work' = [work EXCEPT ![r] = new]
  BY <1>0
<1> HIDE DEF there
<1>4. /\ new = [pc |-> "commit", balance |-> work[r].balance,
                version |-> work[r].version, shares |-> held]
      /\ new \in WorkRow
  BY <1>1, <1>2 DEF WorkRow, WorkPcs
<1> HIDE DEF new
<1>5. work' \in [Requests -> WorkRow] /\ HandlerTo(r, "commit", work[r].balance, work[r].version, held)
  BY <1>3, <1>4 DEF VirtualTypeOK, HandlerTo
<1> QED
  BY <1>0, <1>5

(* A handler that is done keeps nothing of what it has read.               *)
LEMMA DropFacts ==
  ASSUME VirtualTypeOK, NEW r \in Requests, Drop(r)
  PROVE  work' \in [Requests -> WorkRow] /\ HandlerTo(r, "done", 0, 0, 0)
<1>1. Handler("done") \in WorkRow
  BY DEF Handler, WorkRow, WorkPcs
<1>2. QED
  BY <1>1 DEF Drop, VirtualTypeOK, HandlerTo, Handler

(* A handler that checks something goes on to pc, or is done.              *)
LEMMA GotoOrDrop ==
  ASSUME VirtualTypeOK, NEW r \in Requests, NEW pc \in WorkPcs, Drop(r) \/ Goto(r, pc)
  PROVE  /\ work' \in [Requests -> WorkRow]
         /\ \/ HandlerTo(r, "done", 0, 0, 0)
            \/ HandlerTo(r, pc, work[r].balance, work[r].version, work[r].shares)
  BY DropFacts, GotoFacts

(* A request delivered again starts its handler from the beginning.        *)
LEMMA RedeliverFacts ==
  ASSUME VirtualTypeOK, NEW r \in Requests, RedeliverRequest(r)
  PROVE  /\ work' \in [Requests -> WorkRow]
         /\ HandlerTo(r, "new", 0, 0, 0)
<1>1. Handler("new") \in WorkRow
  BY DEF Handler, WorkRow, WorkPcs
<1>2. QED
  BY <1>1 DEF RedeliverRequest, VirtualTypeOK, HandlerTo, Handler

-----------------------------------------------------------------------------
(* Types                                                                   *)

(* A request belongs to an order's execution or to a transfer.             *)
LEMMA RequestOf ==
  ASSUME NEW r \in Requests
  PROVE  /\ r[1] \in Executions \union Transfers
         /\ r[1] \in Executions => OrderBy(r) \in Orders
         /\ r[1] \in Executions => r[1] \notin Transfers
  BY BusAssumption DEF Requests, OrderBy

(* One more trade is one share more or less.                               *)
LEMMA SharesFacts ==
  ASSUME NEW S \in SUBSET Orders, IsFiniteSet(S)
  PROVE  /\ Shares(S) \in Int
         /\ \A o \in Orders \ S :
              /\ IsFiniteSet(S \union {o})
              /\ Shares(S \union {o}) = Shares(S) + Signed(o)
<1>1. /\ IsFiniteSet(S \intersect Buys) /\ Cardinality(S \intersect Buys) \in Nat
      /\ IsFiniteSet(S \ Buys) /\ Cardinality(S \ Buys) \in Nat
  <2>1. IsFiniteSet(S \intersect Buys)
    BY FS_Intersection
  <2>2. IsFiniteSet(S \ Buys)
    BY FS_Difference
  <2>3. QED
    BY <2>1, <2>2, FS_CardinalityType
<1>2. ASSUME NEW o \in Orders \ S
      PROVE  /\ IsFiniteSet(S \union {o})
             /\ Shares(S \union {o}) = Shares(S) + Signed(o)
  <2>1. IsFiniteSet(S \union {o})
    BY FS_AddElement
  <2>2. CASE o \in Buys
    <3>1. /\ (S \union {o}) \intersect Buys = (S \intersect Buys) \union {o}
          /\ (S \union {o}) \ Buys = S \ Buys /\ o \notin S \intersect Buys
      BY <2>2
    <3>2. Cardinality((S \intersect Buys) \union {o}) = Cardinality(S \intersect Buys) + 1
      BY <1>1, <3>1, FS_AddElement
    <3>3. /\ Shares(S \union {o}) =
               Cardinality((S \intersect Buys) \union {o}) - Cardinality(S \ Buys)
          /\ Shares(S) = Cardinality(S \intersect Buys) - Cardinality(S \ Buys)
          /\ Signed(o) = 1
      BY <2>2, <3>1 DEF Shares, Signed
    <3>4. QED
      BY <1>1, <2>1, <3>2, <3>3
  <2>3. CASE o \notin Buys
    <3>1. /\ (S \union {o}) \intersect Buys = S \intersect Buys
          /\ (S \union {o}) \ Buys = (S \ Buys) \union {o} /\ o \notin S \ Buys
      BY <2>3
    <3>2. Cardinality((S \ Buys) \union {o}) = Cardinality(S \ Buys) + 1
      BY <1>1, <3>1, FS_AddElement
    <3>3. QED
      BY <1>1, <2>1, <2>3, <3>1, <3>2 DEF Shares, Signed
  <2>4. QED
    BY <2>2, <2>3
<1>3. Shares(S) \in Int
  BY <1>1 DEF Shares
<1>4. QED
  BY <1>2, <1>3

(* What a step of the virtual ledger does to the account is typed apart    *)
(* from what it does to the handler.                                       *)
LEMMA VirtualTypePreserved ==
  ASSUME BusTypeOK, VirtualTypeOK, ReplicaTypeOK, WorkOK, VirtualNext
  PROVE  BusTypeOK' /\ VirtualTypeOK' /\ ReplicaTypeOK' /\ WorkOK'
<1> USE RequestOf, BusAssumption, VirtualLedgerAssumption
<1> DEFINE Goal == BusTypeOK' /\ VirtualTypeOK' /\ WorkOK'
<1>1. ASSUME NEW r \in Requests, FindAccount(r) PROVE Goal
  <2>1. PICK pc \in {"init", "add", "load"} :
          /\ Goto(r, pc)
          /\ pc = "init" => r[1] \in Executions \union Deposits
          /\ pc = "add" => r[1] \in Transfers
          /\ pc = "load" => r[1] \in Executions
    BY <1>1 DEF FindAccount, OrderRequests, DepositRequests
  <2>2. /\ work' \in [Requests -> WorkRow]
        /\ HandlerTo(r, pc, work[r].balance, work[r].version, work[r].shares)
    BY <2>1, GotoFacts DEF WorkPcs
  <2>3. r \in requests
    BY <1>1 DEF FindAccount, OrderRequests, DepositRequests
  <2>4. WorkOK'
    BY <1>1, <2>1, <2>2, <2>3 DEF FindAccount, WorkOK, HandlerTo, Trading, busVars
  <2>5. QED
    BY <1>1, <2>2, <2>4 DEF FindAccount, VirtualTypeOK, BusTypeOK, busVars
<1>2. ASSUME NEW r \in Requests, InitializeAccount(r) PROVE Goal
  <2>1. PICK pc \in {"add", "load"} :
          /\ Goto(r, pc)
          /\ pc = "add" => r[1] \in Transfers
          /\ pc = "load" => r[1] \in Executions
    BY <1>2 DEF InitializeAccount, DepositRequests, WorkOK
  <2>2. /\ work' \in [Requests -> WorkRow]
        /\ HandlerTo(r, pc, work[r].balance, work[r].version, work[r].shares)
    BY <2>1, GotoFacts DEF WorkPcs
  <2>3. WorkOK'
    BY <1>2, <2>1, <2>2 DEF InitializeAccount, WorkOK, HandlerTo, Trading, busVars
  <2>4. QED
    BY <1>2, <2>2, <2>3 DEF InitializeAccount, VirtualTypeOK, BusTypeOK, busVars
<1>3. ASSUME NEW r \in Requests, LoadCash(r) PROVE Goal
  <2>1. PICK seen \in cashes :
          /\ work' \in [Requests -> WorkRow]
          /\ HandlerTo(r, "validate", seen.balance, work[r].version, work[r].shares)
    BY <1>3, LoadCashFacts
  <2>2. WorkOK'
    BY <1>3, <2>1 DEF LoadCash, WorkOK, HandlerTo, Trading, busVars
  <2>3. QED
    BY <1>3, <2>1, <2>2 DEF LoadCash, VirtualTypeOK, BusTypeOK, busVars
<1>4. ASSUME NEW r \in Requests, Validate(r) PROVE Goal
  <2>1. Drop(r) \/ Goto(r, "version")
    BY <1>4 DEF Validate
  <2>2. /\ work' \in [Requests -> WorkRow]
        /\ \/ HandlerTo(r, "done", 0, 0, 0)
           \/ HandlerTo(r, "version", work[r].balance, work[r].version, work[r].shares)
    BY <2>1, GotoOrDrop DEF WorkPcs
  <2>3. WorkOK'
    BY <1>4, <2>2 DEF Validate, WorkOK, HandlerTo, Trading, busVars
  <2>4. QED
    BY <1>4, <2>2, <2>3 DEF Validate, VirtualTypeOK, BusTypeOK, busVars
<1>5. ASSUME NEW r \in Requests, ReadVersion(r) PROVE Goal
  <2>1. PICK seen \in cashes :
          /\ work' \in [Requests -> WorkRow]
          /\ HandlerTo(r, "shares", work[r].balance, seen.version, work[r].shares)
    BY <1>5, ReadVersionFacts
  <2>2. WorkOK'
    BY <1>5, <2>1 DEF ReadVersion, WorkOK, HandlerTo, Trading, busVars
  <2>3. QED
    BY <1>5, <2>1, <2>2 DEF ReadVersion, VirtualTypeOK, BusTypeOK, busVars
<1>6. ASSUME NEW r \in Requests, ReadShares(r) PROVE Goal
  <2>1. PICK held \in positions :
          /\ work' \in [Requests -> WorkRow]
          /\ HandlerTo(r, "commit", work[r].balance, work[r].version, held)
          /\ misread' = IF held = position THEN misread
                         ELSE misread \union {OrderBy(r)}
    BY <1>6, ReadSharesFacts
  <2>2. WorkOK'
    BY <1>6, <2>1 DEF ReadShares, WorkOK, HandlerTo, Trading, busVars
  <2>3. OrderBy(r) \in Orders
    BY <1>6 DEF ReadShares, WorkOK, Trading
  <2>4. misread' \subseteq Orders
    BY <2>1, <2>3 DEF VirtualTypeOK
  <2>5. QED
    BY <1>6, <2>1, <2>2, <2>4 DEF ReadShares, VirtualTypeOK, BusTypeOK, busVars
<1>7. ASSUME NEW r \in Requests, Commit(r) PROVE Goal
  <2>1. /\ work' \in [Requests -> WorkRow]
        /\ HandlerTo(r, "done", 0, 0, 0)
    BY <1>7, DropFacts DEF Commit
  <2>2. /\ r[1] \in Executions /\ OrderBy(r) \in Orders
        /\ work[r] \in WorkRow
    BY <1>7 DEF Commit, WorkOK, Trading, VirtualTypeOK
  <2>3. [of |-> OrderBy(r), by |-> "sim", status |-> "FILLED"] \in Results
    BY <2>2 DEF Results
  <2>4. /\ cash' \in [balance : Int, version : Nat] /\ position' \in Int
        /\ trades' \subseteq Orders /\ results' \subseteq Results
    <3>1. CASE Commits(r)
      BY <1>7, <2>2, <2>3, <3>1
      DEF Commit, Signed, VirtualTypeOK, BusTypeOK, WorkRow
    <3>2. CASE ~Commits(r)
      BY <1>7, <3>2 DEF Commit, VirtualTypeOK, BusTypeOK
    <3>3. QED
      BY <3>1, <3>2
  <2>5. IsFiniteSet(trades')
    <3>1. trades' = trades \/ trades' = trades \union {OrderBy(r)}
      BY <1>7 DEF Commit
    <3>2. IsFiniteSet(trades \union {OrderBy(r)})
      BY FS_AddElement DEF WorkOK
    <3>3. QED
      BY <3>1, <3>2 DEF WorkOK
  <2>6. WorkOK'
    BY <1>7, <2>1, <2>5 DEF Commit, WorkOK, HandlerTo, Trading
  <2>7. QED
    BY <1>7, <2>1, <2>4, <2>6 DEF Commit, VirtualTypeOK, BusTypeOK
<1>8. ASSUME NEW r \in Requests, CheckCash(r) PROVE Goal
  <2>1. Drop(r) \/ Goto(r, "add")
    BY <1>8 DEF CheckCash
  <2>2. /\ work' \in [Requests -> WorkRow]
        /\ \/ HandlerTo(r, "done", 0, 0, 0)
           \/ HandlerTo(r, "add", work[r].balance, work[r].version, work[r].shares)
    BY <2>1, GotoOrDrop DEF WorkPcs
  <2>3. r \in requests /\ r[1] \in Transfers
    BY <1>8 DEF CheckCash, WithdrawalRequests
  <2>4. WorkOK'
    BY <1>8, <2>2, <2>3 DEF CheckCash, WorkOK, HandlerTo, Trading, busVars
  <2>5. QED
    BY <1>8, <2>2, <2>4 DEF CheckCash, VirtualTypeOK, BusTypeOK, busVars
<1>9. ASSUME NEW r \in Requests, GuardedAdd(r) PROVE Goal
  <2>1. /\ work' \in [Requests -> WorkRow]
        /\ HandlerTo(r, "record", work[r].balance, work[r].version, work[r].shares)
    BY <1>9, GotoFacts DEF GuardedAdd, WorkPcs
  <2>2. cash' \in [balance : Int, version : Nat] /\ markers' \subseteq Requests
    BY <1>9 DEF GuardedAdd, Amount, VirtualTypeOK
  <2>3. IsFiniteSet(markers')
    <3>1. markers' = markers \/ markers' = markers \union {r}
      BY <1>9 DEF GuardedAdd
    <3>2. IsFiniteSet(markers \union {r})
      BY FS_AddElement DEF WorkOK
    <3>3. QED
      BY <3>1, <3>2 DEF WorkOK
  <2>4. WorkOK'
    BY <1>9, <2>1, <2>3 DEF GuardedAdd, WorkOK, HandlerTo, Trading, busVars
  <2>5. QED
    BY <1>9, <2>1, <2>2, <2>4 DEF GuardedAdd, VirtualTypeOK, BusTypeOK, busVars
<1>10. ASSUME NEW r \in Requests, RecordCompletion(r) PROVE Goal
  <2>1. /\ work' \in [Requests -> WorkRow]
        /\ HandlerTo(r, "done", 0, 0, 0)
    BY <1>10, DropFacts DEF RecordCompletion
  <2>2. [of |-> r[1], by |-> "sim", status |-> "COMPLETED"] \in Results
    BY <1>10 DEF RecordCompletion, WorkOK, Results
  <2>3. results' \subseteq Results
    BY <1>10, <2>2 DEF RecordCompletion, BusTypeOK
  <2>4. WorkOK'
    BY <1>10, <2>1 DEF RecordCompletion, WorkOK, HandlerTo, Trading
  <2>5. QED
    BY <1>10, <2>1, <2>3, <2>4 DEF RecordCompletion, VirtualTypeOK, BusTypeOK
<1>11. ASSUME NEW r \in Requests, Conflict(r) PROVE Goal
  <2>1. /\ work' \in [Requests -> WorkRow]
        /\ HandlerTo(r, "done", 0, 0, 0)
    BY <1>11, DropFacts DEF Conflict
  <2>2. WorkOK'
    BY <1>11, <2>1 DEF Conflict, WorkOK, HandlerTo, Trading, busVars
  <2>3. failed' \subseteq Requests
    BY <1>11 DEF Conflict, VirtualTypeOK
  <2>4. QED
    BY <1>11, <2>1, <2>2, <2>3 DEF Conflict, VirtualTypeOK, BusTypeOK, busVars
<1>12. ASSUME NEW r \in Requests, RedeliverRequest(r) PROVE Goal
  <2>1. work' \in [Requests -> WorkRow] /\ HandlerTo(r, "new", 0, 0, 0)
    BY <1>12, RedeliverFacts
  <2>2. WorkOK'
    BY <1>12, <2>1 DEF RedeliverRequest, WorkOK, HandlerTo, Trading
  <2>3. QED
    BY <1>12, <2>1, <2>2, FaultType DEF RedeliverRequest, VirtualTypeOK, BusTypeOK
<1>13. Goal
  BY <1>1, <1>2, <1>3, <1>4, <1>5, <1>6, <1>7, <1>8, <1>9, <1>10, <1>11, <1>12
  DEF VirtualNext, Handle
<1>14. ReplicaTypeOK'
  BY <1>13 DEF VirtualNext, Replicate, Older, VirtualTypeOK, ReplicaTypeOK
<1>15. QED
  BY <1>13, <1>14

(* The initial state is well typed.                                        *)
LEMMA TypeInit == Init => TypeInv
<1> SUFFICES ASSUME Init PROVE TypeInv
  OBVIOUS
<1>1. BusTypeOK
  BY BusAssumption DEF Init, BusInit, BusTypeOK
<1>2. OrderTypeOK /\ FundingTypeOK
  BY OrderInitType, FundingInitType DEF Init
<1>3. IsFiniteSet({}) /\ Shares({}) \in Int /\ Shares(Past) \in Int
      /\ Cardinality(Past) \in Nat /\ IsFiniteSet(trades) /\ trades \subseteq Orders
  BY FS_EmptySet, SharesFacts, FS_CardinalityType, VirtualLedgerAssumption
  DEF Init, VirtualInit
<1>4. cash \in [balance : Int, version : Nat] /\ position \in Int
  <2>1. /\ \/ cash = NoCash /\ trades = {}
           \/ /\ cash = [balance |-> Initial - Shares(Past), version |-> 1 + Cardinality(Past)]
              /\ trades = Past
        /\ position = Shares(trades)
    BY DEF Init, VirtualInit
  <2>2. CASE cash = NoCash /\ trades = {}
    BY <1>3, <2>1, <2>2 DEF NoCash
  <2>3. CASE /\ cash = [balance |-> Initial - Shares(Past), version |-> 1 + Cardinality(Past)]
             /\ trades = Past
    <3>1. Initial - Shares(Past) \in Int /\ 1 + Cardinality(Past) \in Nat
      BY <1>3, VirtualLedgerAssumption
    <3>2. QED
      BY <1>3, <2>1, <2>3, <3>1
  <2>4. QED
    BY <2>1, <2>2, <2>3
<1>5. work \in [Requests -> WorkRow] /\ \A r \in Requests : work[r].pc = "new"
  BY DEF Init, VirtualInit, Handler, WorkRow, WorkPcs
<1>6. VirtualTypeOK /\ ReplicaTypeOK
  BY <1>3, <1>4, <1>5 DEF Init, VirtualInit, VirtualTypeOK, ReplicaTypeOK
<1>7. WorkOK
  BY <1>3, <1>5 DEF Init, VirtualInit, WorkOK, Trading
<1>8. QED
  BY <1>1, <1>2, <1>6, <1>7, TypeParts DEF TypeInv

(* broker-ctrl only adds requests.                                         *)
LEMMA RequestsGrow ==
  ASSUME OrderNext \/ FundingNext
  PROVE  requests \subseteq requests'
  BY DEF OrderNext, Workflow, Resolve, Start, CreateOrder, EmitRequest, RouteFails, TimeOut,
     MarkFilled, HandleTimeout, MarkFails, ResolveCallback, FundingNext, Route, Normalize,
     Show, RouteTransfer, RecordRequested, RedeliverTransfer, NormalizeFirst, NormalizeLast,
     Project, busVars

(* Every step keeps the types.                                             *)
LEMMA TypePreserved == TypeInv /\ [Next]_vars => TypeInv'
<1> SUFFICES ASSUME TypeInv, [Next]_vars PROVE TypeInv'
  OBVIOUS
<1>0. /\ BusTypeOK /\ OrderTypeOK /\ FundingTypeOK
      /\ VirtualTypeOK /\ ReplicaTypeOK /\ WorkOK
  BY TypeParts DEF TypeInv
<1>a. UNCHANGED orderVars => OrderTypeOK'
  BY <1>0 DEF orderVars, OrderTypeOK
<1>b. UNCHANGED fundingVars => FundingTypeOK'
  BY <1>0 DEF fundingVars, FundingTypeOK
<1>c. UNCHANGED virtualVars => VirtualTypeOK' /\ ReplicaTypeOK'
  BY <1>0 DEF virtualVars, VirtualTypeOK, ReplicaTypeOK
<1>d. UNCHANGED virtualVars /\ requests \subseteq requests' => WorkOK'
  BY <1>0 DEF virtualVars, WorkOK
<1>e. (BusTypeOK' /\ OrderTypeOK' /\ FundingTypeOK' /\ VirtualTypeOK' /\ ReplicaTypeOK'
        /\ WorkOK') => TypeInv'
  BY DEF TypeInv, TypeOK, VirtualTypeOK, ReplicaTypeOK, WorkRow, WorkPcs
<1>1. CASE OrderNext /\ OrderStep
  BY <1>0, <1>1, <1>b, <1>c, <1>d, <1>e, OrderTypePreserved, RequestsGrow DEF OrderStep
<1>2. CASE FundingNext /\ FundingStep
  BY <1>0, <1>2, <1>a, <1>c, <1>d, <1>e, FundingTypePreserved, RequestsGrow DEF FundingStep
<1>3. CASE VirtualNext /\ VirtualStep
  BY <1>0, <1>3, <1>a, <1>b, <1>e, VirtualTypePreserved DEF VirtualStep
<1>4. CASE UNCHANGED vars
  BY <1>0, <1>4, <1>a, <1>b, <1>c, <1>d, <1>e DEF vars, busVars, BusTypeOK
<1>5. QED
  BY <1>1, <1>2, <1>3, <1>4 DEF Next

(* Every variable of broker-ctrl, the virtual ledger and investor-bff's    *)
(* transfers stays in its type.                                            *)
THEOREM SimTypeCorrect == Spec => []TypeOK
<1>1. TypeInv => TypeOK
  BY DEF TypeInv
<1>2. QED
  BY <1>1, TypeInit, TypePreserved, PTL DEF Spec

(* Announcements out of order do not set the investor's view back.         *)
THEOREM SimRowAdvances == Spec => RowAdvances
<1>1. ASSUME TypeInv, [Next]_vars
      PROVE  [\A t \in Transfers : row'[t] >= row[t]]_row
  BY <1>1, RowsAdvance, TypeParts
  DEF TypeInv, Next, OrderStep, VirtualStep, vars, fundingVars
<1>2. QED
  BY <1>1, TypeInit, TypePreserved, PTL DEF Spec, RowAdvances

-----------------------------------------------------------------------------
(* A reported fill is a trade                                              *)

FillTraced ==
  /\ \A a \in results : a.of \in Orders => a.of \in trades
  /\ \A x \in Executions : exec[x].status = "FILLED" => OrderOf[x] \in trades
  /\ \A x \in Executions, o \in Orders :
       brokerOrder[o].token = Token(x) => OrderOf[x] = o
  /\ FilledIsTraded

(* Executions have tokens of their own.                                    *)
LEMMA TokenFacts ==
  \A x, y \in Executions : /\ Token(x) = Token(y) => x = y
                           /\ Token(x) # NoToken
  BY TokenIsRequest, TokenAssumption DEF Token

(* At the start nothing has been filled.                                   *)
LEMMA FillInit == Init => FillTraced
  BY TokenFacts DEF Init, BusInit, OrderInit, NotStarted, FillTraced, FilledIsTraded

(* The order workflow reports what the virtual ledger has traded.          *)
LEMMA FillOfOrders ==
  ASSUME OrderTypeOK, BusTypeOK, FillTraced, OrderNext, UNCHANGED trades
  PROVE  FillTraced'
<1> USE BusAssumption, TokenFacts
<1> USE DEF FillTraced, FilledIsTraded, OrderTypeOK
<1>1. ASSUME NEW x \in Executions,
             \/ Start(x) \/ EmitRequest(x) \/ RouteFails(x) \/ TimeOut(x)
      PROVE  FillTraced'
  BY <1>1 DEF Start, EmitRequest, RouteFails, TimeOut, SetExec, busVars
<1>2. ASSUME NEW x \in Executions, CreateOrder(x) PROVE FillTraced'
  BY <1>2 DEF CreateOrder, SetExec, busVars
<1>3. ASSUME NEW x \in Executions, MarkFilled(x) PROVE FillTraced'
  BY <1>3 DEF MarkFilled, SetExec, SetState, Report, busVars
<1>4. ASSUME NEW x \in Executions, HandleTimeout(x) PROVE FillTraced'
  BY <1>4 DEF HandleTimeout, SetExec, SetState, Report, busVars
<1>5. ASSUME NEW x \in Executions, MarkFails(x) PROVE FillTraced'
  <2>1. \A o \in Orders : brokerOrder'[o].token = brokerOrder[o].token
    BY <1>5 DEF MarkFails, SetState
  <2>2. \A y \in Executions : exec'[y].status = exec[y].status
    BY <1>5 DEF MarkFails, SetExec
  <2>3. \A y \in Executions : <<y, "ORDER_FILLED">> \in reported' =>
          <<y, "ORDER_FILLED">> \in reported \/ exec[y].status = "FILLED"
    BY <1>5 DEF MarkFails, Report
  <2>4. UNCHANGED results
    BY <1>5 DEF MarkFails
  <2>5. QED
    BY <2>1, <2>2, <2>3, <2>4
<1>6. ASSUME NEW a \in results, a.of \in Orders, ResolveCallback(a) PROVE FillTraced'
  <2>1. \A x \in Awaiting(a) : OrderOf[x] = a.of
    BY <1>6 DEF Awaiting
  <2>2. results' \subseteq results /\ UNCHANGED <<brokerOrder, reported>>
    BY <1>6 DEF ResolveCallback, Consume
  <2>3. \A x \in Executions : exec'[x] = exec[x] \/ x \in Awaiting(a)
    BY <1>6 DEF ResolveCallback
  <2>4. QED
    BY <1>6, <2>1, <2>2, <2>3
<1>7. QED
  BY <1>1, <1>2, <1>3, <1>4, <1>5, <1>6 DEF OrderNext, Workflow, Resolve, ResolveCallback

(* A fill comes from a trade, whoever takes the step.                      *)
LEMMA FillPreserved == TypeInv /\ FillTraced /\ [Next]_vars => FillTraced'
<1> SUFFICES ASSUME TypeInv, FillTraced, [Next]_vars PROVE FillTraced'
  OBVIOUS
<1> USE BusAssumption
<1>0. /\ BusTypeOK /\ OrderTypeOK /\ FundingTypeOK
      /\ VirtualTypeOK /\ ReplicaTypeOK /\ WorkOK
  BY TypeParts DEF TypeInv
<1>1. CASE OrderNext /\ OrderStep
  BY <1>0, <1>1, FillOfOrders DEF OrderStep, virtualVars
<1>2. CASE FundingNext /\ FundingStep
  <2>1. results' \subseteq results
    BY <1>2 DEF FundingNext, Route, Normalize, Show, RouteTransfer, RecordRequested,
       RedeliverTransfer, NormalizeFirst, NormalizeLast, Consume, Project, busVars
  <2>2. QED
    BY <1>2, <2>1 DEF FundingStep, orderVars, virtualVars, FillTraced, FilledIsTraded
<1>3. CASE VirtualNext /\ VirtualStep
  <2>1. /\ trades \subseteq trades'
        /\ \A a \in results' : a.of \in Orders => a \in results \/ a.of \in trades'
    <3>1. ASSUME NEW r \in Requests, Commit(r)
          PROVE  /\ trades \subseteq trades'
                 /\ \A a \in results' : a.of \in Orders => a \in results \/ a.of \in trades'
      BY <3>1 DEF Commit
    <3>2. ASSUME NEW r \in Requests, RecordCompletion(r)
          PROVE  /\ trades \subseteq trades'
                 /\ \A a \in results' : a.of \in Orders => a \in results \/ a.of \in trades'
      <4>1. r[1] \in Transfers
        BY <1>0, <3>2 DEF RecordCompletion, WorkOK
      <4>2. QED
        BY <3>2, <4>1 DEF RecordCompletion
    <3>3. CASE UNCHANGED <<trades, results>>
      BY <3>3
    <3>4. QED
      BY <1>3, <3>1, <3>2, <3>3
      DEF VirtualNext, Handle, FindAccount, InitializeAccount, LoadCash, Validate,
          ReadVersion, ReadShares, CheckCash, GuardedAdd, Conflict, RedeliverRequest, busVars
  <2>2. QED
    BY <1>3, <2>1 DEF VirtualStep, orderVars, FillTraced, FilledIsTraded
<1>4. CASE UNCHANGED vars
  BY <1>4 DEF vars, orderVars, virtualVars, busVars, FillTraced, FilledIsTraded
<1>5. QED
  BY <1>1, <1>2, <1>3, <1>4 DEF Next

(* The investor is told of a fill only when the virtual ledger holds the   *)
(* trade.                                                                  *)
THEOREM SimFilledIsTraded == Spec => []FilledIsTraded
<1>1. FillTraced => FilledIsTraded
  BY DEF FillTraced
<1>2. QED
  BY <1>1, TypeInit, TypePreserved, FillInit, FillPreserved, PTL DEF Spec

-----------------------------------------------------------------------------
(* A settled transfer has moved its money                                  *)

Moved(t) == \E r \in markers : r[1] = t

MoveTraced ==
  /\ \A r \in Requests : work[r].pc = "record" => r \in markers
  /\ \A a \in results : a.of \in Transfers => Moved(a.of)
  /\ \A t \in Transfers : \A status \in {"detected", "settled", "failed"} :
       <<t, status>> \in carriers => Moved(t)
  /\ SettledWasMoved

(* At the start nothing is said to have moved.                             *)
LEMMA MoveInit == Init => MoveTraced
  BY DEF Init, BusInit, FundingInit, VirtualInit, Handler, MoveTraced, SettledWasMoved

(* The statuses that a result of the ledger leads to.                      *)
LEMMA LateStatus ==
  \A status \in Statuses : STATUS_ORDINAL[status] > 1 =>
    status \in {"detected", "settled", "failed"}
  BY DEF Statuses, STATUS_ORDINAL

(* The funding handlers settle what the virtual ledger has moved.          *)
LEMMA MoveOfFunding ==
  ASSUME FundingTypeOK, MoveTraced, FundingNext, UNCHANGED <<markers, work>>
  PROVE  MoveTraced'
<1> USE DEF MoveTraced, SettledWasMoved, Moved
<1>1. ASSUME NEW t \in Transfers,
             RouteTransfer(t) \/ RecordRequested(t) \/ RedeliverTransfer(t)
      PROVE  MoveTraced'
  BY <1>1 DEF RouteTransfer, RecordRequested, RedeliverTransfer, busVars
<1>2. ASSUME NEW a, NormalizeFirst(a) PROVE MoveTraced'
  BY <1>2 DEF NormalizeFirst, busVars
<1>3. ASSUME NEW a, NormalizeLast(a) PROVE MoveTraced'
  <2>1. results' \subseteq results /\ Moved(a.of) /\ UNCHANGED row
    BY <1>3 DEF NormalizeLast, Consume
  <2>2. \A t \in Transfers : \A status \in Statuses :
          <<t, status>> \in carriers' => <<t, status>> \in carriers \/ t = a.of
    BY <1>3 DEF NormalizeLast
  <2>3. QED
    BY <2>1, <2>2, StatusFacts
<1>4. ASSUME NEW t \in Transfers, NEW status \in Statuses, Project(t, status)
      PROVE  MoveTraced'
  <2>1. STATUS_ORDINAL[status] > 1 => Moved(t)
    BY <1>4, LateStatus DEF Project
  <2>2. \A u \in Transfers : row'[u] = IF u = t THEN STATUS_ORDINAL[status] ELSE row[u]
    BY <1>4 DEF Project, FundingTypeOK
  <2>3. QED
    BY <1>4, <2>1, <2>2 DEF Project, busVars
<1>5. QED
  BY <1>1, <1>2, <1>3, <1>4 DEF FundingNext, Route, Normalize, Show

(* The virtual ledger marks a transfer when it moves the cash.             *)
LEMMA MoveOfLedger ==
  ASSUME BusTypeOK, VirtualTypeOK, ReplicaTypeOK, WorkOK, MoveTraced, VirtualNext,
         UNCHANGED <<carriers, row>>
  PROVE  MoveTraced'
<1> USE BusAssumption, RequestOf
<1> DEFINE Kept == /\ markers \subseteq markers'
                   /\ \A r \in Requests : work'[r].pc = "record" => r \in markers'
                   /\ \A a \in results' : a.of \in Transfers =>
                        a \in results \/ \E r \in markers' : r[1] = a.of
<1>1. ASSUME NEW r \in Requests, NEW pc \in WorkPcs \ {"record"},
             NEW balance, NEW version, NEW shares,
             HandlerTo(r, pc, balance, version, shares), UNCHANGED <<markers, results>>
      PROVE  Kept
  <2>1. \A q \in Requests : work'[q].pc = IF q = r THEN pc ELSE work[q].pc
    BY <1>1 DEF HandlerTo
  <2>2. QED
    BY <1>1, <2>1 DEF MoveTraced
<1>2. ASSUME NEW r \in Requests,
             \/ FindAccount(r) \/ InitializeAccount(r) \/ Validate(r) \/ CheckCash(r)
             \/ Conflict(r)
      PROVE  Kept
  <2>1. PICK pc \in WorkPcs \ {"record"} : Drop(r) \/ Goto(r, pc)
    BY <1>2 DEF FindAccount, InitializeAccount, Validate, CheckCash, Conflict, WorkPcs
  <2>2. UNCHANGED <<markers, results>>
    BY <1>2 DEF FindAccount, InitializeAccount, Validate, CheckCash, Conflict, busVars
  <2>3. \/ HandlerTo(r, "done", 0, 0, 0)
        \/ HandlerTo(r, pc, work[r].balance, work[r].version, work[r].shares)
    BY <2>1, GotoOrDrop
  <2>4. QED
    BY <1>1, <2>2, <2>3 DEF WorkPcs
<1>3. ASSUME NEW r \in Requests, LoadCash(r) PROVE Kept
  <2>1. PICK seen \in cashes :
          HandlerTo(r, "validate", seen.balance, work[r].version, work[r].shares)
    BY <1>3, LoadCashFacts
  <2>2. UNCHANGED <<markers, results>>
    BY <1>3 DEF LoadCash, busVars
  <2>3. QED
    BY <1>1, <2>1, <2>2 DEF WorkPcs
<1>4. ASSUME NEW r \in Requests, ReadVersion(r) PROVE Kept
  <2>1. PICK seen \in cashes :
          HandlerTo(r, "shares", work[r].balance, seen.version, work[r].shares)
    BY <1>4, ReadVersionFacts
  <2>2. UNCHANGED <<markers, results>>
    BY <1>4 DEF ReadVersion, busVars
  <2>3. QED
    BY <1>1, <2>1, <2>2 DEF WorkPcs
<1>5. ASSUME NEW r \in Requests, ReadShares(r) PROVE Kept
  <2>1. PICK held \in positions :
          HandlerTo(r, "commit", work[r].balance, work[r].version, held)
    BY <1>5, ReadSharesFacts
  <2>2. UNCHANGED <<markers, results>>
    BY <1>5 DEF ReadShares, busVars
  <2>3. QED
    BY <1>1, <2>1, <2>2 DEF WorkPcs
<1>6. ASSUME NEW r \in Requests, Commit(r) PROVE Kept
  <2>1. HandlerTo(r, "done", 0, 0, 0)
    BY <1>6, DropFacts DEF Commit
  <2>2. OrderBy(r) \notin Transfers
    BY <1>6 DEF Commit, WorkOK, Trading
  <2>3. QED
    BY <1>6, <2>1, <2>2 DEF Commit, HandlerTo, MoveTraced
<1>7. ASSUME NEW r \in Requests, GuardedAdd(r) PROVE Kept
  <2>1. HandlerTo(r, "record", work[r].balance, work[r].version, work[r].shares)
    BY <1>7, GotoFacts DEF GuardedAdd, WorkPcs
  <2>2. markers' = markers \union {r} /\ UNCHANGED results
    BY <1>7 DEF GuardedAdd, busVars
  <2>3. QED
    BY <2>1, <2>2 DEF HandlerTo, MoveTraced
<1>8. ASSUME NEW r \in Requests, RecordCompletion(r) PROVE Kept
  <2>1. HandlerTo(r, "done", 0, 0, 0)
    BY <1>8, DropFacts DEF RecordCompletion
  <2>2. r \in markers
    BY <1>8 DEF RecordCompletion, MoveTraced
  <2>3. QED
    BY <1>8, <2>1, <2>2 DEF RecordCompletion, HandlerTo, MoveTraced
<1>9. ASSUME NEW r \in Requests, RedeliverRequest(r) PROVE Kept
  <2>1. HandlerTo(r, "new", 0, 0, 0)
    BY <1>9, RedeliverFacts
  <2>2. UNCHANGED <<markers, results>>
    BY <1>9 DEF RedeliverRequest
  <2>3. QED
    BY <1>1, <2>1, <2>2 DEF WorkPcs
<1>10. Kept
  BY <1>2, <1>3, <1>4, <1>5, <1>6, <1>7, <1>8, <1>9 DEF VirtualNext, Handle
<1>11. QED
  BY <1>10 DEF MoveTraced, SettledWasMoved, Moved

(* A settled transfer was moved, whoever takes the step.                   *)
LEMMA MovePreserved == TypeInv /\ MoveTraced /\ [Next]_vars => MoveTraced'
<1> SUFFICES ASSUME TypeInv, MoveTraced, [Next]_vars PROVE MoveTraced'
  OBVIOUS
<1>0. /\ BusTypeOK /\ OrderTypeOK /\ FundingTypeOK
      /\ VirtualTypeOK /\ ReplicaTypeOK /\ WorkOK
  BY TypeParts DEF TypeInv
<1>1. CASE OrderNext /\ OrderStep
  <2>1. results' \subseteq results
    BY <1>1 DEF OrderNext, Workflow, Resolve, Start, CreateOrder, EmitRequest, RouteFails,
       TimeOut, MarkFilled, HandleTimeout, MarkFails, ResolveCallback, Consume, busVars
  <2>2. QED
    BY <1>1, <2>1
    DEF OrderStep, virtualVars, fundingVars, MoveTraced, Moved, SettledWasMoved
<1>2. CASE FundingNext /\ FundingStep
  BY <1>0, <1>2, MoveOfFunding DEF FundingStep, virtualVars
<1>3. CASE VirtualNext /\ VirtualStep
  BY <1>0, <1>3, MoveOfLedger DEF VirtualStep, fundingVars
<1>4. CASE UNCHANGED vars
  BY <1>4 DEF vars, virtualVars, fundingVars, busVars, MoveTraced, Moved, SettledWasMoved
<1>5. QED
  BY <1>1, <1>2, <1>3, <1>4 DEF Next

(* A transfer is shown as settled only when its money has moved.           *)
THEOREM SimSettledWasMoved == Spec => []SettledWasMoved
<1>1. MoveTraced => SettledWasMoved
  BY DEF MoveTraced
<1>2. QED
  BY <1>1, TypeInit, TypePreserved, MoveInit, MovePreserved, PTL DEF Spec

-----------------------------------------------------------------------------
(* The account adds up                                                     *)

(* An account that is absent has no handler past its initialisation.       *)
Fresh ==
  /\ inits = 0 /\ cash.balance = 0 /\ markers = {}
  /\ \A r \in Requests : work[r].pc \in {"new", "init", "done"}

(* A handler that would still win its commit has read the latest position, *)
(* or one that was old already.                                            *)
Current ==
  /\ \A r \in Requests : work[r].pc \in {"shares", "commit"} =>
       work[r].version <= cash.version
  /\ \A r \in Requests :
       work[r].pc = "commit" /\ work[r].version = cash.version =>
         work[r].shares = position \/ OrderBy(r) \in misread

(* An old cash row has no later version, and none exists before the first. *)
ReadsOK ==
  /\ inits <= 1 => \A seen \in cashes : seen.version <= cash.version
  /\ inits = 0 /\ cash.version > 0 => \A seen \in cashes : seen.version > 0
  /\ cash.version = 0 => \A seen \in cashes : seen.version = 0 /\ seen.balance = 0

AccountInv ==
  /\ inits = 0 /\ cash.version > 0 => \A r \in Requests : work[r].pc # "init"
  /\ cash.version = 0 => Fresh
  /\ inits <= 1 => Current
  /\ ReadsOK
  /\ PositionMatchesTrades
  /\ CashMatchesTransfers

DepositsOf(S) == {r \in S : r[1] \in Deposits}
WithdrawalsOf(S) == {r \in S : r[1] \notin Deposits}

(* The cash property, in terms of the markers.                             *)
LEMMA SumIsOfMarkers ==
  CashMatchesTransfers <=>
    (trades = {} /\ inits <= 1 /\ cash.version > 0 =>
       cash.balance = Initial + Cardinality(DepositsOf(markers))
                              - Cardinality(WithdrawalsOf(markers)))
  BY DEF CashMatchesTransfers, DepositsOf, WithdrawalsOf

(* One more marker counts on the side of its transfer.                     *)
LEMMA SumFacts ==
  ASSUME NEW S \in SUBSET Requests, IsFiniteSet(S), NEW r \in Requests \ S
  PROVE  /\ Cardinality(DepositsOf(S)) \in Nat /\ Cardinality(WithdrawalsOf(S)) \in Nat
         /\ r[1] \in Deposits =>
              /\ Cardinality(DepositsOf(S \union {r})) = Cardinality(DepositsOf(S)) + 1
              /\ WithdrawalsOf(S \union {r}) = WithdrawalsOf(S)
         /\ r[1] \notin Deposits =>
              /\ Cardinality(WithdrawalsOf(S \union {r})) = Cardinality(WithdrawalsOf(S)) + 1
              /\ DepositsOf(S \union {r}) = DepositsOf(S)
<1>1. DepositsOf(S) \subseteq S /\ WithdrawalsOf(S) \subseteq S
  BY DEF DepositsOf, WithdrawalsOf
<1>2. IsFiniteSet(DepositsOf(S)) /\ IsFiniteSet(WithdrawalsOf(S))
  BY <1>1, FS_Subset
<1>3. Cardinality(DepositsOf(S)) \in Nat /\ Cardinality(WithdrawalsOf(S)) \in Nat
  BY <1>2, FS_CardinalityType
<1>4. CASE r[1] \in Deposits
  <2>1. /\ DepositsOf(S \union {r}) = DepositsOf(S) \union {r}
        /\ r \notin DepositsOf(S)
        /\ WithdrawalsOf(S \union {r}) = WithdrawalsOf(S)
    BY <1>4 DEF DepositsOf, WithdrawalsOf
  <2>2. Cardinality(DepositsOf(S) \union {r}) = Cardinality(DepositsOf(S)) + 1
    BY <1>2, <2>1, FS_AddElement
  <2>3. QED
    BY <1>3, <1>4, <2>1, <2>2
<1>5. CASE r[1] \notin Deposits
  <2>1. /\ WithdrawalsOf(S \union {r}) = WithdrawalsOf(S) \union {r}
        /\ r \notin WithdrawalsOf(S)
        /\ DepositsOf(S \union {r}) = DepositsOf(S)
    BY <1>5 DEF DepositsOf, WithdrawalsOf
  <2>2. Cardinality(WithdrawalsOf(S) \union {r}) = Cardinality(WithdrawalsOf(S)) + 1
    BY <1>2, <2>1, FS_AddElement
  <2>3. QED
    BY <1>3, <1>5, <2>1, <2>2
<1>6. QED
  BY <1>4, <1>5

(* The sums over nothing.                                                  *)
LEMMA NoSum ==
  /\ Cardinality(DepositsOf({})) = 0 /\ Cardinality(WithdrawalsOf({})) = 0
  /\ Shares({}) = 0
<1>1. DepositsOf({}) = {} /\ WithdrawalsOf({}) = {}
  BY DEF DepositsOf, WithdrawalsOf
<1>2. {} \intersect Buys = {} /\ {} \ Buys = {}
  OBVIOUS
<1>3. QED
  BY <1>1, <1>2, FS_EmptySet DEF Shares

(* At the start there is no cash and no position.                          *)
LEMMA AccountInit == Init => AccountInv
<1> SUFFICES ASSUME Init PROVE AccountInv
  OBVIOUS
<1>1. /\ markers = {} /\ inits = 0 /\ position = Shares(trades)
      /\ misread = {} /\ cashes = {cash}
      /\ \A r \in Requests : work[r].pc = "new"
  BY DEF Init, VirtualInit, Handler
<1>2. \/ cash = NoCash
      \/ /\ cash = [balance |-> Initial - Shares(Past), version |-> 1 + Cardinality(Past)]
         /\ trades = Past
  BY DEF Init, VirtualInit
<1>3. Cardinality(Past) \in Nat
  BY FS_CardinalityType, VirtualLedgerAssumption
<1>4. CASE cash = NoCash
  BY <1>1, <1>4
  DEF NoCash, AccountInv, Fresh, Current, ReadsOK, PositionMatchesTrades, CashMatchesTransfers
<1>5. CASE /\ cash = [balance |-> Initial - Shares(Past), version |-> 1 + Cardinality(Past)]
           /\ trades = Past
  <2>1. cash.version # 0
    BY <1>3, <1>5
  <2>2. CashMatchesTransfers
    BY <1>1, <1>5, NoSum, SumIsOfMarkers, VirtualLedgerAssumption
  <2>3. ReadsOK
    BY <1>1, <1>3, <1>5 DEF ReadsOK
  <2>4. QED
    BY <1>1, <2>1, <2>2, <2>3 DEF AccountInv, Current, PositionMatchesTrades
<1>6. QED
  BY <1>2, <1>4, <1>5

(* The account after a step, apart from what can be read of it.            *)
AccountKept ==
  /\ inits' = 0 /\ cash'.version > 0 => \A r \in Requests : work'[r].pc # "init"
  /\ cash'.version = 0 => Fresh'
  /\ inits' <= 1 => Current'
  /\ PositionMatchesTrades'
  /\ CashMatchesTransfers'

(* A step of a handler that leaves the account alone.                      *)
LEMMA AccountOfHandler ==
  ASSUME VirtualTypeOK, AccountInv, NEW r \in Requests, NEW pc, NEW balance,
         NEW version, NEW shares, HandlerTo(r, pc, balance, version, shares),
         UNCHANGED <<cash, position, trades, markers, inits>>, misread \subseteq misread',
         pc = "init" /\ inits = 0 => cash.version = 0,
         cash.version = 0 => pc \in {"new", "init", "done"},
         pc \in {"shares", "commit"} /\ inits <= 1 => version <= cash.version,
         pc = "commit" /\ inits <= 1 /\ version = cash.version =>
           shares = position \/ OrderBy(r) \in misread'
  PROVE  AccountKept
<1>1. \A q \in Requests :
        /\ q = r => /\ work'[q].pc = pc /\ work'[q].version = version
                    /\ work'[q].shares = shares
        /\ q # r => work'[q] = work[q]
  BY DEF HandlerTo
<1>2. inits = 0 /\ cash.version > 0 => \A q \in Requests : work'[q].pc # "init"
  BY <1>1 DEF AccountInv
<1>3. cash.version = 0 => Fresh'
  BY <1>1 DEF AccountInv, Fresh
<1>4. inits <= 1 => Current'
  BY <1>1 DEF AccountInv, Current
<1>5. PositionMatchesTrades' /\ CashMatchesTransfers'
  BY DEF AccountInv, PositionMatchesTrades, CashMatchesTransfers
<1>6. QED
  BY <1>2, <1>3, <1>4, <1>5 DEF AccountKept

(* Initializing the account does not move anything.                        *)
LEMMA AccountOfInit ==
  ASSUME VirtualTypeOK, WorkOK, AccountInv, NEW r \in Requests, InitializeAccount(r)
  PROVE  AccountKept
<1>1. PICK pc \in {"add", "load"} : Goto(r, pc)
  BY DEF InitializeAccount
<1>2. HandlerTo(r, pc, work[r].balance, work[r].version, work[r].shares)
  BY <1>1, GotoFacts DEF WorkPcs
<1>3. /\ cash' = [balance |-> Initial, version |-> 1] /\ inits' = inits + 1
      /\ inits \in Nat /\ cash.version \in Nat
      /\ UNCHANGED <<position, trades, markers>> /\ work[r].pc = "init"
  BY DEF InitializeAccount, VirtualTypeOK
<1>4. ASSUME inits' <= 1 PROVE inits = 0 /\ Fresh /\ PositionMatchesTrades
  BY <1>3, <1>4 DEF AccountInv
<1>a. UNCHANGED misread
  BY DEF InitializeAccount
<1>5. inits' <= 1 => Current'
  <2>1. ASSUME inits' <= 1, NEW q \in Requests
        PROVE  work'[q].pc \in {"new", "init", "done", "add", "load"}
    BY <1>2, <1>4, <2>1 DEF HandlerTo, Fresh
  <2>2. QED
    BY <2>1 DEF Current
<1>6. PositionMatchesTrades'
  BY <1>3, <1>4, <1>a DEF PositionMatchesTrades
<1>7. CashMatchesTransfers'
  <2>1. ASSUME inits' <= 1 PROVE markers' = {} /\ cash'.balance = Initial
    BY <1>3, <1>4, <2>1 DEF Fresh
  <2>2. ASSUME inits' <= 1
        PROVE  cash'.balance = Initial + Cardinality(DepositsOf(markers'))
                                       - Cardinality(WithdrawalsOf(markers'))
    BY <2>1, <2>2, NoSum, VirtualLedgerAssumption
  <2>3. QED
    BY <2>2 DEF CashMatchesTransfers, DepositsOf, WithdrawalsOf
<1>8. QED
  BY <1>3, <1>5, <1>6, <1>7 DEF AccountKept

(* A trade that commits moves cash and shares together.                    *)
LEMMA AccountOfCommit ==
  ASSUME VirtualTypeOK, WorkOK, AccountInv, NEW r \in Requests, Commit(r)
  PROVE  AccountKept
<1>1. HandlerTo(r, "done", 0, 0, 0)
  BY DropFacts DEF Commit
<1>2. CASE ~Commits(r)
  BY <1>1, <1>2, AccountOfHandler DEF Commit
<1>3. CASE Commits(r)
  <2> DEFINE o == OrderBy(r)
  <2>1. /\ cash'.version = cash.version + 1 /\ position' = work[r].shares + Signed(o)
        /\ trades' = trades \union {o} /\ UNCHANGED <<markers, inits, misread>>
        /\ work[r].pc = "commit" /\ work[r].version = cash.version /\ o \notin trades
    BY <1>3 DEF Commit, Commits
  <2>2. /\ o \in Orders \ trades /\ trades \subseteq Orders /\ IsFiniteSet(trades)
        /\ cash.version \in Nat /\ cash.version # 0
    BY <2>1, RequestOf DEF WorkOK, Trading, VirtualTypeOK, AccountInv, Fresh
  <2>3. Shares(trades \union {o}) = Shares(trades) + Signed(o)
    BY <2>2, SharesFacts
  <2>4. PositionMatchesTrades'
    BY <2>1, <2>3 DEF AccountInv, Current, PositionMatchesTrades
  <2>5. CashMatchesTransfers'
    BY <2>1 DEF CashMatchesTransfers
  <2>6. \A q \in Requests :
          /\ work[q].version \in Nat
          /\ q = r => work'[q].pc = "done"
          /\ q # r => work'[q] = work[q]
    BY <1>1 DEF HandlerTo, VirtualTypeOK, WorkRow
  <2>7. inits' <= 1 => Current'
    BY <2>1, <2>2, <2>6 DEF AccountInv, Current
  <2>8. cash'.version # 0
    BY <2>1, <2>2
  <2>9. inits' = 0 => \A q \in Requests : work'[q].pc # "init"
    BY <2>1, <2>2, <2>6 DEF AccountInv
  <2>10. QED
    BY <2>4, <2>5, <2>7, <2>8, <2>9 DEF AccountKept
<1>4. QED
  BY <1>2, <1>3

(* A guarded addition moves the cash of its transfer once.                 *)
LEMMA AccountOfAdd ==
  ASSUME VirtualTypeOK, WorkOK, AccountInv, NEW r \in Requests, GuardedAdd(r)
  PROVE  AccountKept
<1>1. HandlerTo(r, "record", work[r].balance, work[r].version, work[r].shares)
  BY GotoFacts DEF GuardedAdd, WorkPcs
<1>2. work[r].pc = "add" /\ cash.version # 0 /\ cash.version \in Nat
  BY DEF GuardedAdd, AccountInv, Fresh, VirtualTypeOK
<1>3. CASE r \in markers
  BY <1>1, <1>2, <1>3, AccountOfHandler DEF GuardedAdd
<1>4. CASE r \notin markers
  <2>1. /\ cash' = [cash EXCEPT !.balance = @ + Amount(r)]
        /\ markers' = markers \union {r} /\ UNCHANGED <<position, trades, inits, misread>>
    BY <1>4 DEF GuardedAdd
  <2>2. cash'.version = cash.version /\ cash'.balance = cash.balance + Amount(r)
        /\ cash.balance \in Int
    BY <2>1 DEF VirtualTypeOK
  <2>3. \A q \in Requests : /\ q = r => work'[q].pc = "record"
                            /\ q # r => work'[q] = work[q]
    BY <1>1 DEF HandlerTo
  <2>4. (inits' <= 1 => Current') /\ PositionMatchesTrades'
    BY <2>1, <2>2, <2>3 DEF AccountInv, Current, PositionMatchesTrades
  <2>5. inits' = 0 => \A q \in Requests : work'[q].pc # "init"
    BY <1>2, <2>1, <2>3 DEF AccountInv
  <2>6. Amount(r) = IF r[1] \in Deposits THEN 1 ELSE -1
    BY <1>2 DEF Amount, DepositRequests, WorkOK
  <2>7. CashMatchesTransfers'
    <3>1. markers \in SUBSET Requests /\ IsFiniteSet(markers)
      BY DEF VirtualTypeOK, WorkOK
    <3>2. ASSUME trades = {}, inits <= 1
          PROVE  cash.balance = Initial + Cardinality(DepositsOf(markers))
                                        - Cardinality(WithdrawalsOf(markers))
      BY <1>2, <3>2, SumIsOfMarkers DEF AccountInv
    <3>3. ASSUME trades = {}, inits <= 1
          PROVE  cash'.balance = Initial + Cardinality(DepositsOf(markers'))
                                         - Cardinality(WithdrawalsOf(markers'))
      <4>1. CASE r[1] \in Deposits
        BY <1>4, <2>1, <2>2, <2>6, <3>1, <3>2, <3>3, <4>1, SumFacts, VirtualLedgerAssumption
      <4>2. CASE r[1] \notin Deposits
        BY <1>4, <2>1, <2>2, <2>6, <3>1, <3>2, <3>3, <4>2, SumFacts, VirtualLedgerAssumption
      <4>3. QED
        BY <4>1, <4>2
    <3>4. QED
      BY <2>1, <3>3 DEF CashMatchesTransfers, DepositsOf, WithdrawalsOf
  <2>8. QED
    BY <1>2, <2>2, <2>4, <2>5, <2>7 DEF AccountKept
<1>5. QED
  BY <1>3, <1>4

(* Every step of the virtual ledger keeps the account in balance.          *)
LEMMA AccountOfLedger ==
  ASSUME VirtualTypeOK, ReplicaTypeOK, WorkOK, AccountInv, VirtualNext
  PROVE  AccountKept
<1>0. /\ cash.version \in Nat /\ cash.balance \in Int
      /\ \A r \in Requests : cash.version = 0 => /\ work[r].pc \in {"new", "init", "done"}
                                                 /\ cash.balance = 0
  BY DEF VirtualTypeOK, AccountInv, Fresh
<1>1. ASSUME NEW r \in Requests, FindAccount(r) PROVE AccountKept
  <2>1. PICK pc \in {"init", "add", "load"} :
          /\ Goto(r, pc)
          /\ pc = "init" /\ inits = 0 => cash.version = 0
          /\ cash.version = 0 => pc = "init"
    BY <1>0, <1>1 DEF FindAccount, AccountInv, ReadsOK, ReplicaTypeOK
  <2>2. HandlerTo(r, pc, work[r].balance, work[r].version, work[r].shares)
    BY <2>1, GotoFacts DEF WorkPcs
  <2>3. QED
    BY <1>1, <2>1, <2>2, AccountOfHandler DEF FindAccount
<1>2. ASSUME NEW r \in Requests, LoadCash(r) PROVE AccountKept
  <2>1. PICK seen \in cashes :
          HandlerTo(r, "validate", seen.balance, work[r].version, work[r].shares)
    BY <1>2, LoadCashFacts
  <2>2. cash.version # 0
    BY <1>0, <1>2 DEF LoadCash
  <2>3. QED
    BY <1>2, <2>1, <2>2, AccountOfHandler DEF LoadCash
<1>3. ASSUME NEW r \in Requests, Validate(r) PROVE AccountKept
  <2>1. Drop(r) \/ Goto(r, "version")
    BY <1>3 DEF Validate
  <2>2. \/ HandlerTo(r, "done", 0, 0, 0)
        \/ HandlerTo(r, "version", work[r].balance, work[r].version, work[r].shares)
    BY <2>1, GotoOrDrop DEF WorkPcs
  <2>3. cash.version # 0
    BY <1>0, <1>3 DEF Validate
  <2>4. QED
    BY <1>3, <2>2, <2>3, AccountOfHandler DEF Validate
<1>4. ASSUME NEW r \in Requests, ReadVersion(r) PROVE AccountKept
  <2>1. PICK seen \in cashes :
          HandlerTo(r, "shares", work[r].balance, seen.version, work[r].shares)
    BY <1>4, ReadVersionFacts
  <2>2. cash.version # 0 /\ (inits <= 1 => seen.version <= cash.version)
    BY <1>0, <1>4 DEF ReadVersion, AccountInv, ReadsOK
  <2>3. QED
    BY <1>4, <2>1, <2>2, AccountOfHandler DEF ReadVersion
<1>5. ASSUME NEW r \in Requests, ReadShares(r) PROVE AccountKept
  <2>1. PICK held \in positions :
          /\ HandlerTo(r, "commit", work[r].balance, work[r].version, held)
          /\ misread' = IF held = position THEN misread
                         ELSE misread \union {OrderBy(r)}
    BY <1>5, ReadSharesFacts
  <2>2. cash.version # 0 /\ work[r].pc = "shares"
    BY <1>0, <1>5 DEF ReadShares
  <2>3. inits <= 1 => work[r].version <= cash.version
    BY <2>2 DEF AccountInv, Current
  <2>4. QED
    BY <1>5, <2>1, <2>2, <2>3, AccountOfHandler DEF ReadShares
<1>6. ASSUME NEW r \in Requests, CheckCash(r) PROVE AccountKept
  <2>1. Drop(r) \/ (Goto(r, "add") /\ cash.version # 0)
    BY <1>0, <1>6 DEF CheckCash, AccountInv, ReadsOK
  <2>2. \/ HandlerTo(r, "done", 0, 0, 0)
        \/ /\ HandlerTo(r, "add", work[r].balance, work[r].version, work[r].shares)
           /\ cash.version # 0
    BY <2>1, DropFacts, GotoFacts DEF WorkPcs
  <2>3. QED
    BY <1>6, <2>2, AccountOfHandler DEF CheckCash
<1>7. ASSUME NEW r \in Requests, RecordCompletion(r) \/ Conflict(r) PROVE AccountKept
  <2>1. HandlerTo(r, "done", 0, 0, 0)
    BY <1>7, DropFacts DEF RecordCompletion, Conflict
  <2>2. UNCHANGED <<cash, position, trades, markers, inits, misread>>
    BY <1>7 DEF RecordCompletion, Conflict
  <2>3. QED
    BY <2>1, <2>2, AccountOfHandler
<1>8. ASSUME NEW r \in Requests, RedeliverRequest(r) PROVE AccountKept
  <2>1. HandlerTo(r, "new", 0, 0, 0)
    BY <1>8, RedeliverFacts
  <2>2. QED
    BY <1>8, <2>1, AccountOfHandler DEF RedeliverRequest
<1>9. QED
  BY <1>1, <1>2, <1>3, <1>4, <1>5, <1>6, <1>7, <1>8,
     AccountOfInit, AccountOfCommit, AccountOfAdd DEF VirtualNext, Handle

(* What can be read of the cash row keeps behind it.                       *)
LEMMA ReadsOfLedger ==
  ASSUME VirtualTypeOK, ReplicaTypeOK, WorkOK, AccountInv, VirtualNext
  PROVE  ReadsOK'
<1>0. /\ cash \in [balance : Int, version : Nat] /\ inits \in Nat
      /\ \A seen \in cashes : seen.version \in Nat
      /\ ReadsOK /\ cashes' = Older(cash, cash', cashes)
  BY DEF VirtualTypeOK, ReplicaTypeOK, AccountInv, VirtualNext, Replicate
<1>1. CASE UNCHANGED <<cash, inits>>
  BY <1>0, <1>1 DEF Older, ReadsOK
<1>2. \A seen \in cashes' : seen \in cashes \union {cash, cash'}
  BY <1>0 DEF Older
<1>3. ASSUME NEW r \in Requests, InitializeAccount(r) PROVE ReadsOK'
  <2>1. cash'.version = 1 /\ inits' = inits + 1 /\ work[r].pc = "init"
    BY <1>3 DEF InitializeAccount
  <2>2. inits' <= 1 => cash.version = 0
    BY <1>0, <2>1 DEF AccountInv
  <2> QED
    BY <1>0, <1>2, <2>1, <2>2 DEF ReadsOK
<1>4. ASSUME NEW r \in Requests, work[r].pc \in {"add", "commit"}, UNCHANGED inits,
             cash'.version \in {cash.version, cash.version + 1}
      PROVE  ReadsOK'
  <2>1. cash.version # 0
    BY <1>4 DEF AccountInv, Fresh
  <2> QED
    BY <1>0, <1>2, <1>4, <2>1 DEF ReadsOK
<1>5. ASSUME NEW r \in Requests, Commit(r), Commits(r) PROVE ReadsOK'
  BY <1>4, <1>5 DEF Commit
<1>6. ASSUME NEW r \in Requests, GuardedAdd(r) PROVE ReadsOK'
  BY <1>0, <1>4, <1>6 DEF GuardedAdd
<1> QED
  BY <1>1, <1>3, <1>5, <1>6 DEF VirtualNext, Handle, FindAccount, LoadCash, Validate,
     ReadVersion, ReadShares, Commit, CheckCash, RecordCompletion, Conflict, RedeliverRequest

(* No other step touches the account.                                      *)
LEMMA AccountPreserved == TypeInv /\ AccountInv /\ [Next]_vars => AccountInv'
<1> SUFFICES ASSUME TypeInv, AccountInv, [Next]_vars PROVE AccountInv'
  OBVIOUS
<1>0. VirtualTypeOK /\ ReplicaTypeOK /\ WorkOK
  BY TypeParts DEF TypeInv
<1>1. CASE VirtualNext
  BY <1>0, <1>1, AccountOfLedger, ReadsOfLedger DEF AccountInv, AccountKept
<1>2. CASE UNCHANGED virtualVars
  BY <1>2 DEF virtualVars, AccountInv, Fresh, Current, ReadsOK, PositionMatchesTrades,
     CashMatchesTransfers
<1>3. QED
  BY <1>1, <1>2 DEF Next, OrderStep, FundingStep, vars

(* Concurrent trades add up in the position, whatever old version, balance *)
(* and position they went by, as long as the account is initialised once   *)
(* at most and no order was traded of which executeTrade read an old       *)
(* position: neither is guarded by the version.                            *)
THEOREM SimPositionMatchesTrades == Spec => []PositionMatchesTrades
<1>1. AccountInv => PositionMatchesTrades
  BY DEF AccountInv
<1>2. QED
  BY <1>1, TypeInit, TypePreserved, AccountInit, AccountPreserved, PTL DEF Spec

(* Each transfer request moves money once, whatever is handed out again,   *)
(* as long as the account is initialised once at most.                     *)
THEOREM SimCashMatchesTransfers == Spec => []CashMatchesTransfers
<1>1. AccountInv => CashMatchesTransfers
  BY DEF AccountInv
<1>2. QED
  BY <1>1, TypeInit, TypePreserved, AccountInit, AccountPreserved, PTL DEF Spec

-----------------------------------------------------------------------------
(* No deposit is lost on its way                                           *)

(* What was completed is still to be normalized, or the investor's view is *)
(* told of it.                                                             *)
Completed(t) ==
  (\E a \in results : a.of = t) \/ <<t, "settled">> \in carriers

(* From the router over the virtual ledger to the carrier: a deposit that  *)
(* was requested is still to be sent, or a handler has it, or an error     *)
(* event names its request, or it is completed.                            *)
DepositKept ==
  \A t \in Deposits : router[t] # "absent" =>
    \/ router[t] = "queued"
    \/ \E r \in requests :
         r[1] = t /\ (work[r].pc \in {"new", "init", "add", "record"} \/ r \in failed)
    \/ Completed(t)

(* A transfer that was sent has a request; a deposit's handler ends with   *)
(* an error or with the record of the deposit.                             *)
DepositInv ==
  /\ \A t \in Transfers :
       router[t] \in {"sent", "done"} => \E r \in requests : r[1] = t
  /\ \A a \in results : a.of \in Transfers => a.status = "COMPLETED"
  /\ \A r \in Requests : r[1] \in Deposits =>
       /\ work[r].pc = "done" => r \in failed \union recorded
       /\ r \in recorded => Completed(r[1])

(* At the start no deposit has been asked for.                             *)
LEMMA DepositInit == Init => DepositInv
BY DEF Init, BusInit, FundingInit, VirtualInit, Handler, DepositInv

(* The results of transfers and their carriers.                            *)
LEMMA DepositOfOrders ==
  ASSUME TypeInv, DepositInv, OrderNext, OrderStep
  PROVE  DepositInv'
<1>1. /\ results' \subseteq results
      /\ \A a \in results : a.of \in Transfers => a \in results'
      /\ requests \subseteq requests'
  BY BusAssumption, RequestsGrow
  DEF OrderNext, Workflow, Resolve, Start, CreateOrder, EmitRequest, RouteFails,
      TimeOut, MarkFilled, HandleTimeout, MarkFails, ResolveCallback, Consume, busVars
<1> QED
  BY <1>1, BusAssumption DEF OrderStep, virtualVars, fundingVars, DepositInv, Completed

(* The router, the normalizer and the view: each writes before it lets go  *)
(* of what it was given.                                                   *)
LEMMA DepositOfFunding ==
  ASSUME TypeInv, DepositInv, FundingNext, FundingStep
  PROVE  DepositInv'
<1>0. BusTypeOK /\ FundingTypeOK
  BY TypeParts DEF TypeInv
<1> USE DEF FundingStep, virtualVars, DepositInv, Completed
<1>1. ASSUME NEW t \in Transfers, RouteTransfer(t) PROVE DepositInv'
  <2>1. PICK n \in Rounds : requests' = requests \union {<<t, n>>}
    BY <1>1 DEF RouteTransfer
  <2>2. \A u \in Transfers : router'[u] = IF u = t THEN "sent" ELSE router[u]
    BY <1>0, <1>1 DEF RouteTransfer, FundingTypeOK
  <2> QED
    BY <1>1, <2>1, <2>2 DEF RouteTransfer
<1>2. ASSUME NEW t \in Transfers, RecordRequested(t) \/ RedeliverTransfer(t)
      PROVE  DepositInv'
  <2>1. /\ \A u \in Transfers : router'[u] \in {"sent", "done"} => router[u] \in {"sent", "done"}
        /\ requests' = requests /\ results' = results /\ carriers \subseteq carriers'
    BY <1>0, <1>2 DEF RecordRequested, RedeliverTransfer, FundingTypeOK, busVars
  <2> QED
    BY <1>2, <2>1
<1>3. ASSUME NEW a \in results, a.of \in Transfers, NormalizeFirst(a) PROVE DepositInv'
  BY <1>3 DEF NormalizeFirst, busVars
<1>4. ASSUME NEW a \in results, a.of \in Transfers, NormalizeLast(a) PROVE DepositInv'
  <2>1. /\ a.of \in Deposits => <<a.of, "settled">> \in carriers'
        /\ carriers \subseteq carriers'
    BY <1>4 DEF NormalizeLast, CarriersOf
  <2>2. \A b \in results : b \in results' \/ b = a
    BY <1>4 DEF NormalizeLast, Consume
  <2>3. results' \subseteq results /\ UNCHANGED <<router, requests>>
    BY <1>4 DEF NormalizeLast, Consume
  <2> QED
    BY <2>1, <2>2, <2>3
<1>5. ASSUME NEW t \in Transfers, NEW status \in Statuses, Project(t, status)
      PROVE  DepositInv'
  BY <1>5 DEF Project, busVars
<1> QED
  BY <1>1, <1>2, <1>3, <1>4, <1>5 DEF FundingNext, Route, Normalize, Show, NormalizeFirst, NormalizeLast

(* The virtual ledger: a handler ends by completing the transfer, or by an *)
(* error after which the request is delivered again.                       *)
LEMMA DepositOfLedger ==
  ASSUME TypeInv, DepositInv, VirtualNext, VirtualStep
  PROVE  DepositInv'
<1>0. BusTypeOK /\ VirtualTypeOK /\ ReplicaTypeOK /\ WorkOK
  BY TypeParts DEF TypeInv
<1> USE BusAssumption, RequestOf
<1> DEFINE Kept ==
      /\ requests' = requests /\ results \subseteq results'
      /\ \A a \in results' : a.of \in Transfers => a \in results \/ a.status = "COMPLETED"
      /\ \A r \in Requests : r[1] \in Deposits =>
           /\ work'[r].pc = "done" => r \in failed' \union recorded'
           /\ r \in recorded' => r \in recorded \/ \E a \in results' : a.of = r[1]
<1>1. ASSUME NEW r \in Requests, NEW pc \in WorkPcs, NEW balance, NEW version, NEW shares,
             HandlerTo(r, pc, balance, version, shares),
             requests' = requests /\ UNCHANGED recorded, failed \subseteq failed',
             results \subseteq results',
             \A a \in results' : a.of \in Transfers => a \in results,
             pc = "done" /\ r[1] \in Deposits => r \in failed' \union recorded'
      PROVE  Kept
  <2>1. \A q \in Requests : work'[q].pc = IF q = r THEN pc ELSE work[q].pc
    BY <1>1 DEF HandlerTo
  <2> QED
    BY <1>1, <2>1 DEF DepositInv
<1>2. ASSUME NEW r \in Requests,
             FindAccount(r) \/ InitializeAccount(r) \/ GuardedAdd(r)
      PROVE  Kept
  <2>1. PICK pc \in {"init", "add", "load", "record"} : Goto(r, pc)
    BY <1>2 DEF FindAccount, InitializeAccount, GuardedAdd
  <2>2. HandlerTo(r, pc, work[r].balance, work[r].version, work[r].shares)
    BY <1>0, <2>1, GotoFacts DEF WorkPcs
  <2>3. UNCHANGED <<recorded, failed, results, requests>>
    BY <1>2 DEF FindAccount, InitializeAccount, GuardedAdd, busVars
  <2> QED
    BY <1>1, <2>2, <2>3 DEF WorkPcs
<1>3. ASSUME NEW r \in Requests, Validate(r) \/ CheckCash(r) PROVE Kept
  <2>1. PICK pc \in {"version", "add"} : Drop(r) \/ Goto(r, pc)
    BY <1>3 DEF Validate, CheckCash
  <2>2. \/ HandlerTo(r, "done", 0, 0, 0)
        \/ HandlerTo(r, pc, work[r].balance, work[r].version, work[r].shares)
    BY <1>0, <2>1, GotoOrDrop DEF WorkPcs
  <2>3. UNCHANGED <<recorded, failed, results, requests>> /\ r[1] \notin Deposits
    BY <1>0, <1>3 DEF Validate, CheckCash, busVars, WorkOK, Trading, WithdrawalRequests
  <2> QED
    BY <1>1, <2>2, <2>3 DEF WorkPcs
<1>4. ASSUME NEW r \in Requests, LoadCash(r) PROVE Kept
  <2>1. PICK seen \in cashes :
          HandlerTo(r, "validate", seen.balance, work[r].version, work[r].shares)
    BY <1>0, <1>4, LoadCashFacts
  <2> QED
    BY <1>1, <1>4, <2>1 DEF WorkPcs, LoadCash, busVars
<1>5. ASSUME NEW r \in Requests, ReadVersion(r) PROVE Kept
  <2>1. PICK seen \in cashes :
          HandlerTo(r, "shares", work[r].balance, seen.version, work[r].shares)
    BY <1>0, <1>5, ReadVersionFacts
  <2> QED
    BY <1>1, <1>5, <2>1 DEF WorkPcs, ReadVersion, busVars
<1>6. ASSUME NEW r \in Requests, ReadShares(r) PROVE Kept
  <2>1. PICK held \in positions :
          HandlerTo(r, "commit", work[r].balance, work[r].version, held)
    BY <1>0, <1>6, ReadSharesFacts
  <2> QED
    BY <1>1, <1>6, <2>1 DEF WorkPcs, ReadShares, busVars
<1>7. ASSUME NEW r \in Requests, Commit(r) PROVE Kept
  <2>1. HandlerTo(r, "done", 0, 0, 0)
    BY <1>0, <1>7, DropFacts DEF Commit
  <2>2. r[1] \notin Deposits /\ OrderBy(r) \notin Transfers
    BY <1>0, <1>7 DEF Commit, WorkOK, Trading
  <2>3. /\ UNCHANGED <<recorded, failed, requests>>
        /\ results \subseteq results'
        /\ \A a \in results' : a.of \in Transfers => a \in results
    BY <1>7, <2>2 DEF Commit
  <2> QED
    BY <1>1, <2>1, <2>2, <2>3 DEF WorkPcs
<1>8. ASSUME NEW r \in Requests, RecordCompletion(r) PROVE Kept
  <2>1. HandlerTo(r, "done", 0, 0, 0)
    BY <1>0, <1>8, DropFacts DEF RecordCompletion
  <2>2. \A q \in Requests : work'[q].pc = IF q = r THEN "done" ELSE work[q].pc
    BY <2>1 DEF HandlerTo
  <2>3. /\ recorded' = recorded \union {r} /\ UNCHANGED <<failed, requests>>
        /\ results' = IF r \in recorded THEN results
             ELSE results \union {[of |-> r[1], by |-> "sim", status |-> "COMPLETED"]}
    BY <1>8 DEF RecordCompletion
  <2> DEFINE new == [of |-> r[1], by |-> "sim", status |-> "COMPLETED"]
  <2>4. new.of = r[1] /\ new.status = "COMPLETED"
    OBVIOUS
  <2>5. results' = results \/ results' = results \union {new}
    BY <2>3
  <2>6. r \notin recorded => new \in results'
    BY <2>3
  <2> HIDE DEF new
  <2>7. results \subseteq results' /\ \A a \in results' : a \in results \/ a = new
    BY <2>5
  <2>8. \A q \in Requests : q \in recorded' => q \in recorded \/ \E a \in results' : a.of = q[1]
    BY <2>3, <2>4, <2>6
  <2>9. \A q \in Requests : q[1] \in Deposits /\ work'[q].pc = "done" => q \in failed' \union recorded'
    BY <2>2, <2>3 DEF DepositInv
  <2>10. requests' = requests
    BY <2>3
  <2>11. \A a \in results' : a.of \in Transfers => a \in results \/ a.status = "COMPLETED"
    BY <2>4, <2>7
  <2> QED
    BY <2>7, <2>8, <2>9, <2>10, <2>11
<1>9. ASSUME NEW r \in Requests, Conflict(r) PROVE Kept
  <2>1. HandlerTo(r, "done", 0, 0, 0)
    BY <1>0, <1>9, DropFacts DEF Conflict
  <2>2. r[1] \in Deposits => work[r].pc # "commit"
    BY <1>0 DEF WorkOK, Trading
  <2> QED
    BY <1>1, <1>9, <2>1, <2>2 DEF Conflict, WorkPcs, busVars
<1>10. ASSUME NEW r \in Requests, RedeliverRequest(r) PROVE Kept
  <2>1. HandlerTo(r, "new", 0, 0, 0)
    BY <1>0, <1>10, RedeliverFacts
  <2> QED
    BY <1>1, <1>10, <2>1 DEF WorkPcs, RedeliverRequest
<1>11. Kept
  BY <1>2, <1>3, <1>4, <1>5, <1>6, <1>7, <1>8, <1>9, <1>10 DEF VirtualNext, Handle
<1> QED
  BY <1>11 DEF VirtualStep, fundingVars, DepositInv, Completed

(* The order workflow does not touch the transfers, and every other step   *)
(* is one of those above.                                                  *)
LEMMA DepositPreserved == TypeInv /\ DepositInv /\ [Next]_vars => DepositInv'
<1> SUFFICES ASSUME TypeInv, DepositInv, UNCHANGED vars PROVE DepositInv'
  BY DepositOfOrders, DepositOfFunding, DepositOfLedger DEF Next
<1> QED
  BY DEF vars, virtualVars, fundingVars, busVars, DepositInv, Completed

(* No crash between the six writes of a deposit, in three services, no     *)
(* conflict and no second delivery loses it silently.                      *)
THEOREM SimDepositKept == Spec => []DepositKept
<1>1. TypeInv /\ DepositInv => DepositKept
  <2> SUFFICES ASSUME TypeInv, DepositInv, NEW t \in Deposits,
                      router[t] \notin {"absent", "queued"},
                      NEW r \in requests, r[1] = t, r \notin failed,
                      work[r].pc \notin {"new", "init", "add", "record"}
               PROVE  Completed(t)
    BY BusAssumption, TypeParts DEF DepositKept, DepositInv, TypeInv, FundingTypeOK
  <2>1. r \in Requests /\ BusTypeOK /\ VirtualTypeOK /\ WorkOK
    BY TypeParts DEF TypeInv, BusTypeOK
  <2>2. work[r].pc = "done"
    BY <2>1, BusAssumption DEF WorkOK, Trading, VirtualTypeOK, WorkRow, WorkPcs
  <2> QED
    BY <2>1, <2>2 DEF DepositInv
<1> QED
  BY <1>1, TypeInit, TypePreserved, DepositInit, DepositPreserved, PTL DEF Spec

-----------------------------------------------------------------------------
(* How an execution ends, on which EveryOrderEnds rests.                   *)

(* The event that ClassifyResult's branch for an answer records.           *)
EventOf(status) == IF status = "FILLED" THEN "ORDER_FILLED" ELSE "ORDER_ESCALATED"

(* An answered execution has a branch to take; one that is done has told   *)
(* its end; and none tells anything but that end, or before it.            *)
ToldOnce ==
  \A x \in Executions :
    /\ exec[x].pc = "answered" => exec[x].status \in {"FILLED", "TIMEOUT"}
    /\ exec[x].pc = "done" => <<x, EventOf(exec[x].status)>> \in reported
    /\ \A event : <<x, event>> \in reported =>
         exec[x].pc \in Ended /\ event = EventOf(exec[x].status)

(* At the start nothing is answered or told.                               *)
LEMMA ToldInit == Init => ToldOnce
  BY DEF Init, OrderInit, NotStarted, ToldOnce

(* Steps that neither answer nor report.                                   *)
LEMMA ToldOfMove ==
  ASSUME OrderTypeOK, ToldOnce, NEW x \in Executions, exec[x].pc \notin Ended,
         NEW pc \in Running \union {"dead"}, pc # "answered", SetExec(x, pc),
         UNCHANGED reported
  PROVE  ToldOnce'
<1>1. \A y \in Executions \ {x} : exec'[y] = exec[y]
  BY DEF SetExec, OrderTypeOK
<1>2. exec'[x].pc = pc
  BY DEF SetExec, OrderTypeOK
<1>3. pc \notin {"answered", "done"} /\ \A event : <<x, event>> \notin reported
  BY DEF Running, ToldOnce
<1> QED
  BY <1>1, <1>2, <1>3 DEF ToldOnce

(* A report is the one of the execution's answer, and its last step.       *)
LEMMA ToldOfReport ==
  ASSUME OrderTypeOK, ToldOnce, NEW x \in Executions, exec[x].pc = "answered",
         NEW pc \in Ended, SetExec(x, pc),
         \/ pc = "dead" /\ UNCHANGED reported
         \/ Report(x, EventOf(exec[x].status))
  PROVE  ToldOnce'
<1>1. \A y \in Executions \ {x} : exec'[y] = exec[y]
  BY DEF SetExec, OrderTypeOK
<1>2. exec'[x].pc = pc /\ exec'[x].status = exec[x].status
  BY DEF SetExec, OrderTypeOK
<1>3. \A event : <<x, event>> \notin reported
  BY DEF Ended, ToldOnce
<1>4. reported' = reported \/ reported' = reported \union {<<x, EventOf(exec[x].status)>>}
  BY DEF Report
<1>5. pc = "done" => <<x, EventOf(exec[x].status)>> \in reported'
  BY DEF Report
<1>6. pc # "answered"
  BY DEF Ended
<1> QED
  BY <1>1, <1>2, <1>3, <1>4, <1>5, <1>6 DEF ToldOnce

(* An answer finds an execution that has told nothing.                     *)
LEMMA ToldOfAnswer ==
  ASSUME OrderTypeOK, ToldOnce, NEW S \in SUBSET Executions,
         \A x \in S : exec[x].pc \in {"emitting", "waiting"},
         NEW status \in {"FILLED", "TIMEOUT"}, UNCHANGED reported,
         \A x \in S : exec'[x] = [pc |-> "answered", status |-> status],
         \A x \in Executions \ S : exec'[x] = exec[x]
  PROVE  ToldOnce'
<1>1. \A x \in S : \A event : <<x, event>> \notin reported
  BY DEF Ended, ToldOnce
<1> QED
  BY <1>1 DEF ToldOnce

(* The steps of the order workflow, one by one.                            *)
LEMMA ToldOfOrders == BusTypeOK /\ OrderTypeOK /\ ToldOnce /\ OrderNext => ToldOnce'
<1> SUFFICES ASSUME BusTypeOK, OrderTypeOK, ToldOnce, OrderNext PROVE ToldOnce'
  OBVIOUS
<1>1. ASSUME NEW x \in Executions, Start(x) \/ CreateOrder(x) \/ EmitRequest(x) \/ RouteFails(x)
      PROVE  ToldOnce'
  <2>1. /\ exec[x].pc \notin Ended /\ UNCHANGED reported
        /\ \E pc \in {"routing", "emitting", "waiting", "dead"} : SetExec(x, pc)
    BY <1>1 DEF Start, CreateOrder, EmitRequest, RouteFails, Ended
  <2> QED
    BY <2>1, ToldOfMove DEF Running
<1>2. ASSUME NEW x \in Executions, TimeOut(x) PROVE ToldOnce'
  <2>1. /\ exec[x].pc = "waiting" /\ UNCHANGED reported
        /\ exec'[x] = [pc |-> "answered", status |-> "TIMEOUT"]
        /\ \A y \in Executions \ {x} : exec'[y] = exec[y]
    BY <1>2 DEF TimeOut, OrderTypeOK
  <2> DEFINE S == {x}
  <2>2. /\ S \in SUBSET Executions
        /\ \A y \in S : exec[y].pc \in {"emitting", "waiting"}
        /\ \A y \in S : exec'[y] = [pc |-> "answered", status |-> "TIMEOUT"]
        /\ \A y \in Executions \ S : exec'[y] = exec[y]
    BY <2>1
  <2> HIDE DEF S
  <2> QED
    BY <2>1, <2>2, ToldOfAnswer
<1>3. ASSUME NEW x \in Executions, MarkFilled(x) \/ HandleTimeout(x) PROVE ToldOnce'
  <2>1. /\ exec[x].pc = "answered" /\ SetExec(x, "done")
        /\ Report(x, EventOf(exec[x].status))
    BY <1>3 DEF MarkFilled, HandleTimeout, EventOf
  <2> QED
    BY <2>1, ToldOfReport DEF Ended
<1>4. ASSUME NEW x \in Executions, MarkFails(x) PROVE ToldOnce'
  <2>1. /\ exec[x].pc = "answered" /\ SetExec(x, "dead")
        /\ UNCHANGED reported \/ Report(x, EventOf(exec[x].status))
    BY <1>4 DEF MarkFails, EventOf
  <2> QED
    BY <2>1, ToldOfReport DEF Ended
<1>5. ASSUME NEW a \in results, a.of \in Orders, ResolveCallback(a) PROVE ToldOnce'
  <2>1. Awaiting(a) \subseteq Executions
        /\ \A x \in Awaiting(a) : exec[x].pc \in {"emitting", "waiting"} /\ a.by = "sim"
    BY DEF Awaiting
  <2>2. Awaiting(a) # {} => a.status = "FILLED"
    BY <1>5, <2>1, OrderResults DEF BusTypeOK
  <2>3. /\ \A x \in Awaiting(a) : exec'[x] = [pc |-> "answered", status |-> a.status]
        /\ \A x \in Executions \ Awaiting(a) : exec'[x] = exec[x]
        /\ UNCHANGED reported
    BY <1>5, <2>1 DEF ResolveCallback
  <2>4. CASE Awaiting(a) = {}
    BY <2>3, <2>4 DEF ToldOnce
  <2>5. CASE Awaiting(a) # {}
    BY <2>1, <2>2, <2>3, <2>5, ToldOfAnswer
  <2> QED
    BY <2>4, <2>5
<1> QED
  BY <1>1, <1>2, <1>3, <1>4, <1>5 DEF OrderNext, Workflow, Resolve, ResolveCallback

(* Every execution of the order workflow has a branch for its answer and   *)
(* tells one end, its own: filled or escalated, never both and never       *)
(* before it has been answered.  One that is done has told it; a failed    *)
(* write alone leaves an end untold (order-state-machine.ts,               *)
(* callback-resolver.ts).                                                  *)
THEOREM SimToldOnce == Spec => []ToldOnce
<1>1. TypeInv /\ ToldOnce /\ [Next]_vars => ToldOnce'
  <2> SUFFICES ASSUME TypeInv, ToldOnce, [Next]_vars PROVE ToldOnce'
    OBVIOUS
  <2>1. BusTypeOK /\ OrderTypeOK
    BY TypeParts DEF TypeInv
  <2>2. CASE OrderNext
    BY <2>1, <2>2, ToldOfOrders
  <2>3. CASE UNCHANGED <<exec, reported>>
    BY <2>3 DEF ToldOnce
  <2> QED
    BY <2>2, <2>3 DEF Next, VirtualStep, FundingStep, orderVars, vars
<1> QED
  BY <1>1, ToldInit, TypeInit, TypePreserved, PTL DEF Spec
=============================================================================
