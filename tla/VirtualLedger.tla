---------------------------- MODULE VirtualLedger ----------------------------
(***************************************************************************)
(* broker-sim-adpt: the simulated broker's account of one investor, a cash *)
(* row, a position and a trade per order.  Requests are handled            *)
(* concurrently, and each handler reads and writes row by row; only a      *)
(* trade's rows, and an addition with its marker, are written together.    *)
(*                                                                         *)
(* No read of the cash row or the position is a consistent one, so each    *)
(* returns a value that the row has or had, however long ago.              *)
(*                                                                         *)
(* Amounts are in units: an order trades one share at a price of one, a    *)
(* transfer moves one.                                                     *)
(***************************************************************************)
EXTENDS BrokerBus

CONSTANTS
  Buys,       \* the orders that buy, the others sell
  Past,       \* orders traded by an account that exists from the start
  Initial,    \* what a new account holds
  AnyAge      \* bound: if FALSE, a read is one write behind at most

ASSUME VirtualLedgerAssumption ==
  /\ Buys \subseteq Orders
  /\ Past \subseteq Orders /\ IsFiniteSet(Past)
  /\ Initial \in Nat
  /\ AnyAge \in BOOLEAN

VARIABLES
  cash,      \* the VirtualCashBalance row, version 0 while it is absent
  position,  \* shares held
  trades,    \* orders with a VirtualTrade row
  markers,   \* requests with a ProcessedEvent marker
  recorded,  \* requests with a DepositDetected or WithdrawalCompleted row
  work,      \* the handler of each request
  failed,    \* requests dropped with an error event
  inits,     \* times the account was initialised
  misread,   \* orders for which executeTrade read an old position
  cashes,    \* what a read of the cash row may return
  positions  \* what a read of the position may return

virtualVars ==
  <<cash, position, trades, markers, recorded, work, failed, inits, misread,
    cashes, positions>>

Handler(pc) == [pc |-> pc, balance |-> 0, version |-> 0, shares |-> 0]

NoCash == [balance |-> 0, version |-> 0]
Shares(traded) == Cardinality(traded \intersect Buys) - Cardinality(traded \ Buys)

VirtualInit ==
  /\ \/ cash = NoCash /\ trades = {}
     \/ /\ cash = [balance |-> Initial - Shares(Past), version |-> 1 + Cardinality(Past)]
        /\ trades = Past
  /\ position = Shares(trades)
  /\ markers = {}
  /\ recorded = {}
  /\ work = [r \in Requests |-> Handler("new")]
  /\ failed = {}
  /\ inits = 0
  /\ misread = {}
  /\ cashes = {cash}
  /\ positions = {position}

(* What a row was can still be read: all of it, or what it was last.       *)
Older(value, next, older) ==
  IF next = value THEN older ELSE {next} \union (IF AnyAge THEN older ELSE {value})

Replicate ==
  /\ cashes' = Older(cash, cash', cashes)
  /\ positions' = Older(position, position', positions)

Goto(r, pc) == work' = [work EXCEPT ![r].pc = pc]
Drop(r) == work' = [work EXCEPT ![r] = Handler("done")]

-----------------------------------------------------------------------------
(* An order or a deposit first looks for the account.                      *)
FindAccount(r) ==
  /\ r \in OrderRequests \union DepositRequests
  /\ work[r].pc = "new"
  /\ \E seen \in cashes :
       Goto(r, IF seen.version = 0 THEN "init"
               ELSE IF r \in DepositRequests THEN "add" ELSE "load")
  /\ UNCHANGED <<cash, position, trades, markers, recorded, failed, inits, misread, busVars>>

(* initializeCashBalance is an unconditional put.                          *)
InitializeAccount(r) ==
  /\ work[r].pc = "init"
  /\ cash' = [balance |-> Initial, version |-> 1]
  /\ inits' = inits + 1
  /\ Goto(r, IF r \in DepositRequests THEN "add" ELSE "load")
  /\ UNCHANGED <<position, trades, markers, recorded, failed, misread, busVars>>

-----------------------------------------------------------------------------
(* processOrderSubmitted: the engine reads cash, then the position; an     *)
(* order the account cannot cover is dropped, with no row and no result.   *)
LoadCash(r) ==
  /\ work[r].pc = "load"
  /\ \E seen \in cashes :
       work' = [work EXCEPT ![r].pc = "validate", ![r].balance = seen.balance]
  /\ UNCHANGED <<cash, position, trades, markers, recorded, failed, inits, misread, busVars>>

OrderBy(r) == OrderOf[r[1]]

Validate(r) ==
  /\ work[r].pc = "validate"
  /\ \E held \in positions :
       IF (IF OrderBy(r) \in Buys THEN work[r].balance ELSE held) < 1
       THEN Drop(r) ELSE Goto(r, "version")
  /\ UNCHANGED <<cash, position, trades, markers, recorded, failed, inits, misread, busVars>>

(* executeTrade reads the version, long after the balance it goes with,    *)
(* and after it the position once more.                                    *)
ReadVersion(r) ==
  /\ work[r].pc = "version"
  /\ \E seen \in cashes :
       work' = [work EXCEPT ![r].pc = "shares", ![r].version = seen.version]
  /\ UNCHANGED <<cash, position, trades, markers, recorded, failed, inits, misread, busVars>>

ReadShares(r) ==
  /\ work[r].pc = "shares"
  /\ \E held \in positions :
       /\ work' = [work EXCEPT ![r].pc = "commit", ![r].shares = held]
       /\ misread' = IF held = position THEN misread ELSE misread \union {OrderBy(r)}
  /\ UNCHANGED <<cash, position, trades, markers, recorded, failed, inits, busVars>>

Signed(o) == IF o \in Buys THEN 1 ELSE -1

(* Mutant: no optimistic lock.                                             *)
CommitsUnlessTraded(r) == OrderBy(r) \notin trades

(* The conditions of the transaction: the version, and no such trade yet.  *)
Commits(r) == cash.version = work[r].version /\ OrderBy(r) \notin trades

(* A cancelled transaction is taken for a duplicate: no result, no error.  *)
Commit(r) ==
  /\ work[r].pc = "commit"
  /\ IF Commits(r)
     THEN /\ cash' = [balance |-> work[r].balance - Signed(OrderBy(r)),
                      version |-> cash.version + 1]
          /\ position' = work[r].shares + Signed(OrderBy(r))
          /\ trades' = trades \union {OrderBy(r)}
          /\ results' = results \union
                         {[of |-> OrderBy(r), by |-> "sim", status |-> "FILLED"]}
     ELSE UNCHANGED <<cash, position, trades, results>>
  /\ Drop(r)
  /\ UNCHANGED <<markers, recorded, failed, inits, misread, requests, faults>>

-----------------------------------------------------------------------------
(* A withdrawal the balance does not cover is dropped without a result,    *)
(* and so is one whose own debit, made before a crash, used it up.         *)
CheckCash(r) ==
  /\ r \in WithdrawalRequests
  /\ work[r].pc = "new"
  /\ \E seen \in cashes : IF seen.balance < 1 THEN Drop(r) ELSE Goto(r, "add")
  /\ UNCHANGED <<cash, position, trades, markers, recorded, failed, inits, misread, busVars>>

Amount(r) == IF r \in DepositRequests THEN 1 ELSE -1

(* Mutant: updateCashBalance without the marker.                           *)
AddUnguarded(r) ==
  /\ work[r].pc = "add"
  /\ cash' = [cash EXCEPT !.balance = @ + Amount(r)]
  /\ markers' = markers \union {r}
  /\ Goto(r, "record")
  /\ UNCHANGED <<position, trades, recorded, failed, inits, misread, busVars>>

(* Mutant: a marker that exists ends the handler.                          *)
AddOrSkip(r) ==
  /\ work[r].pc = "add"
  /\ IF r \in markers
     THEN UNCHANGED <<cash, markers>> /\ Drop(r)
     ELSE /\ cash' = [cash EXCEPT !.balance = @ + Amount(r)]
          /\ markers' = markers \union {r}
          /\ Goto(r, "record")
  /\ UNCHANGED <<position, trades, recorded, failed, inits, misread, busVars>>

(* guardedAddToCashBalance: marker and addition in one transaction, which  *)
(* a marker that exists turns into nothing.  The version stays.            *)
GuardedAdd(r) ==
  /\ work[r].pc = "add"
  /\ IF r \in markers
     THEN UNCHANGED <<cash, markers>>
     ELSE /\ cash' = [cash EXCEPT !.balance = @ + Amount(r)]
          /\ markers' = markers \union {r}
  /\ Goto(r, "record")
  /\ UNCHANGED <<position, trades, recorded, failed, inits, misread, busVars>>

(* The carrier row, whose first write is announced.                        *)
RecordCompletion(r) ==
  /\ work[r].pc = "record"
  /\ recorded' = recorded \union {r}
  /\ results' = IF r \in recorded THEN results
                ELSE results \union {[of |-> r[1], by |-> "sim", status |-> "COMPLETED"]}
  /\ Drop(r)
  /\ UNCHANGED <<cash, position, trades, markers, failed, inits, misread, requests, faults>>

-----------------------------------------------------------------------------
Transacting == {q \in Requests : work[q].pc \in {"add", "commit"}}

(* DynamoDB cancels a write on an item that another transaction holds.     *)
(* The error is not retryable: the request is dropped with an error event, *)
(* an order at its commit without one.                                     *)
Conflict(r) ==
  /\ work[r].pc \in {"init", "add", "commit"}
  /\ Transacting \ {r} # {}
  /\ failed' = IF work[r].pc = "commit" THEN failed ELSE failed \union {r}
  /\ Drop(r)
  /\ UNCHANGED <<cash, position, trades, markers, recorded, inits, misread, busVars>>

(* A crash, or SQS handing a finished request out again.                   *)
RedeliverRequest(r) ==
  /\ r \in requests /\ work[r].pc # "new"
  /\ Fault
  /\ work' = [work EXCEPT ![r] = Handler("new")]
  /\ UNCHANGED <<cash, position, trades, markers, recorded, failed, inits, misread, requests, results>>

-----------------------------------------------------------------------------
Handle(r) ==
  \/ FindAccount(r) \/ InitializeAccount(r)
  \/ LoadCash(r) \/ Validate(r) \/ ReadVersion(r) \/ ReadShares(r) \/ Commit(r)
  \/ CheckCash(r) \/ GuardedAdd(r) \/ RecordCompletion(r)

VirtualNext ==
  /\ \E r \in Requests : Handle(r) \/ Conflict(r) \/ RedeliverRequest(r)
  /\ Replicate
=============================================================================
