# Nestfolio in TLA+

Nestfolio is a robo-advisor built from some thirty AWS services: EventBridge
buses, SQS queues in front of Lambda handlers, one DynamoDB table per service,
change data capture from those tables back to the buses, and Step Functions
where a process has to wait. This directory models the parts of it in which
the order of events decides whether money and advice stay correct. It holds
TLA+ modules translated from the source, TLC configurations that check them on
small instances, and TLAPS proofs of the safety properties for instances of
any size.

Modelled are the path of a decision from its trigger to its orders
(`DecisionCycle`), what it buys and sells (`Advice`), the path of an order to
the broker's door (`Staging`), through it to the simulated broker (`SimBroker`)
or to Alpaca (`AlpacaBroker`), the account streams of the ledger with their tax
lots and read models (`Ledger`, `Portfolio`), the mandate that authorises all
of it (`Mandate`), and the library that carries every event (`Delivery`).
Sections 1 and 2 are the inventory, 3 to 6 say what the modules are and what
has been checked and proved, 7 what is left out, 8 the plan.

    tlc -workers 2 -config MCLedger.cfg MCLedger     # one run
    tlapm Ledger_proofs.tla                          # one module's proofs

Source paths are relative to the repository.

## 1. The system

Four domains, each with a hub bus and an adapter that forwards chosen events to
the other domains' buses:

    investor  --ONBOARDING_COMPLETED, MANDATE_*, DEPOSIT/WITHDRAWAL_INITIATED-->
    advisory  --DECISION_APPROVED, USER_CONFIRMED-->  execution
    execution --ORDER_FILLED, ORDER_REJECTED, DEPOSIT_DETECTED-->  ledger
    ledger    --BALANCE_UPDATED, PORTFOLIO_UPDATED, DRIFT-->  investor, advisory

Nearly every handler has one shape (`libs/event-processor`): an SQS message is
parsed, a handler turns it into *intents*, and the intents are executed one
after the other against the table. `record` puts a row if it is absent,
`projectVersioned` puts a row if its version is higher, `guardedWrite` does a
write once per event by means of a marker, `update` updates without a guard.
Each changed row leaves the table as an event. Deliveries are at least once and
unordered between rows; nothing spans two requests atomically except where the
code builds a DynamoDB transaction.

### Components with a model

For each: its state, its operations, what is hard, and when it is correct.
`PROJECT.json` says which of them are modelled in part and what is missing.

**ledger-ctrl account streams** (`services/ledger/ledger-ctrl`). State: per
tenant and stream (actual, simulated) a sequence counter, ledger entries keyed
by event id, a chain of snapshots, of which one is `latest`. Operations: record
an entry per incoming event or per trade of a proposal (take a number, put the
entry), reduce (load the latest snapshot, query entries above its watermark,
fold them, put the next version under a condition), publish the snapshot. Hard:
number and entry are two requests; executions of one account run concurrently;
reads are eventually consistent; killed invocations are retried. Correct when
numbers are unique, no entry enters an account twice, a save never undoes
another, and the account reaches the newest entry.

**ledger-ctrl tax lots** (same service, live orders only). State: a lot per
purchase, a disposition per sale and lot. Operations: open a lot; read the open
lots of a symbol and write each drawn lot back, oldest first, with a
disposition. Hard: none of it is one transaction, the lots are read by a query
that may show old rows and written back unconditionally, and a redelivery starts
over. Correct when shares sold equal shares disposed of and no lot gives more
than it had.

**ledger-bff and dashboard-bff read models**, with the ledger rows of
investor-bff and decision-workflow-ctrl. State: rows projected from the events
of a snapshot under `lastEventSequence`. Hard: three events of one save arrive
in any order; a row is fed by some of them only. Correct when each row comes to
show the newest snapshot.

**decision-workflow-ctrl decision cycle**
(`services/advisory/decision-workflow-ctrl`). State: one Step Functions
execution per trigger, the DecisionPacket row with a version and, while the
user is awaited, a task token. Operations: collect snapshots and mandate, invoke
two agents, assemble the packet, propose to compliance, ask the user; a callback
handler resumes the waiting task and updates the packet. Hard: the callback and
the execution write the same row; Step Functions and DynamoDB are called one
after the other; answers come late, twice, or after a timeout. Correct when a
status always has its reason and a decided packet stays decided.

**decision-workflow-ctrl packet assembly** (`assemble-packet.ts`). No state of
its own: target weights and the projected ledger row become trades. Hard:
rounding, trades left out as too small, a row behind the account. Correct when
the filled trades reach the target and cost no more than there is.

**Agent services** (`portfolio-engine-ctrl`, `advisory-narrative-ctrl`). State:
an invocation lock per event. Operations: take the lock, run the agent, record
completion or failure. Hard: the lock against a second delivery is also in the
way of a retry. Correct when a failed run is retried or answered.

**compliance-ctrl**. State: one ComplianceCheck per proposal, a mandate
projection. Operations: evaluate rules, record a verdict, project the mandate.
Hard: limits of two rules that make exceptions for each other's cases. Correct
when one proposal has one verdict and an executed one keeps the limits.

**advisory-bff decision read model**. State: DecisionReadModel rows under a
version guard. Operations: project images of the packet and the start and
failure signals; confirm and reject mutations that copy the token into an event.
Hard: images arrive out of order, devices show old rows. Correct when a decision
shown as decided stays so and the row ends equal to the packet.

**execution-ctrl order staging**. State: Order rows, StagedOrder rows, two
lagging indexes. Operations: expand an authorizing event into orders; at market
open list the staged orders, check each again, update it, delete its ticket.
Hard: two rows per staged order written and removed in separate requests,
redeliveries under other market hours, overlapping runs. Correct when no trade
of a handled message lacks its order, a decided order is not decided again by a
redelivery, and staged orders are worked off.

**broker-ctrl order life cycle**. State: an execution per delivered
ORDER_SUBMITTED, a BrokerOrder row with the execution's token. Operations:
route, wait, resolve a result by the row's token, classify, time out. Hard:
executions outnumber orders; results meet dead tokens. Correct when what is
reported as filled was traded and every execution ends.

**broker-ctrl funding** and investor-bff's view of it. State: the router's
handler, a carrier row per status of a transfer, the projected transfer row.
Hard: three services and six writes for one deposit, each of which can be the
last before a crash. Correct when a deposit is shown as settled or its failure
is on record.

**broker-sim-adpt virtual ledger**. State: a cash row with a version, positions,
trades, markers. Operations: create the account, trade in one transaction,
credit and debit with a marker. Hard: what a handler read is old when it
writes, and may have been old when it was read; the version guards some writes
and not others. Correct when position and cash are the sum of what happened.

**broker-alpaca-adpt and its circuit breaker**. State: mapping rows of orders
and transfers; the breaker, its healing executions, the feature flags of
investor-bff. Operations: check the breaker, call, map or reject; poll; open,
announce, heal, close, announce, escalate. Hard: a call that fails may have been
taken; opening, healing and flags are joined by events only. Correct when rows
tell the truth, an open breaker is closed or escalated, and features come back.

**investor-bff onboarding and mandate**, with four copies elsewhere. State:
profile and mandate with a version each. Operations: onboard, revoke, change
mode, go live, update; project. Hard: each copy hears of some events only, in
any order. Correct when a revocation known is never forgotten and the copies
agree in the end.

**event-processor egress and ingress** (`libs/event-processor`). State: the
position of the stream and its retries; messages with their receive counts;
rows, markers, totals. Operations: publish the changes of a batch, split, retry,
give up; receive, skip, parse, execute intents, report failures. Hard: every
step can be repeated, none can be undone, four counters decide when to give up.
Correct when what is passed or acknowledged has had its effect once.

### Components without a model

| component | state | why there is none |
|---|---|---|
| advisory-bff status aggregate | counts per tenant | a derived count, recomputed from lagging index shards; the last count written can be a stale one |
| reconciliation-ctrl | the two sides' positions | nothing sends the account check that would make the broker's side, so the comparison never runs |
| investor-ctrl | notifications | one record per event and template; nothing interleaves |
| investor-profile-ctrl, market-intelligence-ctrl | snapshots | the lock and the answer are those of the agents in `DecisionCycle` |
| market data adapters | objects in buckets | input and output; their trigger event is the malformed one of `Delivery` |
| agent-orchestrator | none | calls of language models, free choices in `DecisionCycle` |
| onboarding-bff | a wizard's answers | one user, one transaction at the end; its event is the input of `Mandate` |
| hubs and domain adapters | none | routing rules; `DecisionCycle` takes from execution-adpt which events reach the orders |
| front ends, UI libraries, infrastructure, developer tools | none of the server's | presentation, deployment, documentation |

How they interact, along one decision: a filled order, a deposit, drift or a new
mandate starts an execution of decision-workflow-ctrl. It invokes the agents by
an event that carries a task token; they answer by an event; the callback
handler hands the answer to Step Functions. The proposal goes to compliance-ctrl
the same way. The verdict goes to the callback, which resumes the execution, and
to execution-ctrl, which orders on it. At authority level L2 the packet's row,
token included, travels to advisory-bff, to the user's devices and back as an
event. execution-ctrl's orders go to broker-ctrl, which sends each to the
adapter of the investor's mode; its fills return to ledger-ctrl, whose snapshots
feed the read models and the next decision.

## 2. What is hard here

`PROJECT.json` lists each hazard at its line with the properties that watch it.
They fall into six groups.

1. *Two requests, one crash.* Counter and entry; Step Functions and packet;
   order and ticket; addition and carrier; opening and announcement. After the
   crash the message comes back and the handler starts from the beginning in a
   world it has half changed.
2. *Deduplication that fits one failure only.* A lock against duplicates that
   stops retries; deduplication by event id where two events mean one thing, or
   where a resent request has a fresh id.
3. *Reads that lag.* Replicas in the ledger, indexes in the staging, cash and
   position of the virtual ledger, the open lots of a symbol, rows of the read
   model on a device, the ledger row a packet is made from.
4. *Two writers of one row.* Execution and callback on the packet, two
   executions on one BrokerOrder, trade and deposit on the cash row, two sales
   on a tax lot.
5. *Timers and counters that give up.* Stage timeouts, the 300 s, the day and
   three-day waits, healing attempts, stream retries, receive counts.
6. *Arithmetic at a boundary.* Rounded weights, micro trades, limits with
   exceptions.

## 3. The modules

| module | what it is | extends |
|---|---|---|
| `Ledger` | one account stream of ledger-ctrl | |
| `LedgerAccount` | what the ledger promises, with no counter, reducer or versions | |
| `DecisionCycle` | one decision, from trigger to orders, across five services | |
| `Decision` | what a decision promises, with no execution, tokens, callbacks or versions | |
| `Staging` | the orders of one tenant in execution-ctrl | |
| `BrokerBus` | requests and results between broker-ctrl and an adapter | |
| `OrderLifecycle` | the order workflow of broker-ctrl | `BrokerBus` |
| `Funding` | router, carriers and projection of transfers | `BrokerBus` |
| `VirtualLedger` | the simulated broker | `BrokerBus` |
| `SimBroker` | an investor in simulation: the composition of the three | `OrderLifecycle`, `VirtualLedger`, `Funding` |
| `CircuitBreaker` | the breaker, its healing, the feature flags | `BrokerBus` |
| `AlpacaAdapter` | requests to Alpaca and their polling | `CircuitBreaker` |
| `AlpacaBroker` | an investor who trades for real: the composition | `OrderLifecycle`, `Funding`, `AlpacaAdapter` |
| `Mandate` | profile, mandate and their copies | |
| `LedgerIntake` | funding and order events at ledger-ctrl, with the tax lots | |
| `LedgerViews` | snapshots, their events, the rows projected from them | `LedgerIntake` |
| `Advice` | packet assembly and compliance rules | `LedgerViews` |
| `Portfolio` | one tenant's money through ledger, read models and a decision: the composition | `Advice` |
| `Egress` | from a table's changes to the bus | |
| `Ingress` | from a queue to a table | |
| `Delivery` | from one service's table to another's: the composition | `Egress`, `Ingress` |
| `Replica` | what a consumer's table owes its events, with no stream, queue, batches or retries | |
| `MCLedger`, `MCDecisionCycle`, `MCStaging`, `MCSimBroker`, `MCAlpacaBroker`, `MCMandate`, `MCPortfolio`, `MCDelivery` | instances for TLC | their module |
| `Ledger_proofs`, `DecisionCycle_proofs`, `Staging_proofs`, `SimBroker_proofs`, `AlpacaBroker_proofs`, `Mandate_proofs`, `Portfolio_proofs`, `Delivery_proofs` | theorems | their module, `TLAPS` |

Three conventions hold in all of them. A request to DynamoDB, Step Functions or
Alpaca is one step, and code between two requests of a handler belongs to the
step before or after it. Faults (a crash, a failed request, a redelivery nobody
asked for) are actions counted by `faults` and bounded by `MaxFaults`. A
definition named "Mutant" in its comment is a plausible mistake in the operator
after it; no action uses it, it is kept to show that the properties notice the
mistake. A composition takes its components' variables together: a step is a
step of one component and of what they share (`busVars`, `faults`).

### Ledger

| variable | in the code |
|---|---|
| `exec[<<m, k>>]` | the handler execution of the k-th receive of message m: which entry it is at and the number it took |
| `counter` | `Sequence#...` item, `lastSequence` |
| `seqOf[e]` | `sequenceNo` of the item `Event#<eventId>`, 0 when absent |
| `lagging`, `replica` | what an eventually consistent Query or GetItem may still miss |
| `pending`, `attempts` | the reducer's position in the table's stream and its retries of a batch |
| `red` | the running invocation of `replayAndReduce`: batch, snapshot read, snapshot to put |
| `snap` | `Snapshot#latest`: version, `lastEventSequence`, how often each entry's effect is in the account |
| `lateSave` | a put of a killed invocation that DynamoDB has yet to accept |

`NextSequence` and `PutLedgerEntry` are the two requests of each event handler;
`StoreEntry` is `putIfNotExists`. `LoadSnapshot`, `QueryEntries`, `SaveSnapshot`
and `SnapshotConflict` are the requests of the reducer in order; `ReducerFault`
kills it before its put, after it, or with the put under way, and
`LateSaveArrives` lets that put through. The account's arithmetic is abstracted
to a count per entry: that is what tells a double or lost application apart, and
`accountReducer` treats entries independently of how they were batched.
`queryEntriesSince` reads one page only, hence `PageSize` and `SkOrder`.

### LedgerAccount

Entries are recorded for good, and a group of recorded entries not yet in the
account may enter it, once. `Account` in `Ledger` maps `recorded` to the entries
with a number and `applied` to the counts of the latest snapshot.

### DecisionCycle

| variable | in the code |
|---|---|
| `sf` | the state of the Step Functions execution (`decision-state-machine.ts`); a waiting state is named by the task that waits |
| `agent[a]` | the invocation message of an agent and its lock `INV#<eventId>` |
| `check` | the ComplianceCheck row: absent, asked for, or the verdict L1, L2, BLOCKED |
| `packet` | status, `__version` and presence of the task token of the DecisionPacket row |
| `images` | events of that row and of the start and failure signals, in flight for good |
| `model`, `offered` | the DecisionReadModel row; some device shows the buttons |
| `events`, `handling`, `handled` | answers on the bus, those between the call to Step Functions and the update of the packet, those whose message is deleted |
| `orders` | events execution-ctrl has expanded |

`Execution` collects the states of the state machine with their catches and
timers: `StageTimeout` is a caught agent stage, `CycleTimeout` the day for the
verdict and the three days for the whole, `StateFails` a failing call in a state
without a Catch, `ProjectionsFail` the lookup that is caught and the missing
mandate row that is not. `RunAgent` and `SkipDuplicateInvocation` are the agent
handlers. `Callback` is `resume-state-machine.ts` wrapped around
`sfn-callback.ts`: `ResumeTask` (the token may be dead: the code goes on),
`ResumeFails`, `FailTask`, `DropWithoutToken`, then `ExecuteIntents`; a crash in
between is `CallbackCrash`. `Click` copies the token the read model has at that
moment, which may be none. A decision is assumed to hold a trade; an empty one
orders nothing. One execution is modelled: executions write no common row, each
has a fresh decision id.

### Decision

A verdict is given once. It decides by itself or has the user asked; an answer
decides what was asked, and only a later answer takes its place. Orders need a
verdict that allows them. What is shown has been so once and never goes back
from a decision to the question, or from the question to nothing. `Contract` in
`DecisionCycle` maps the status of the packet, of its images and of the read
model to the stages none, asked and the outcome (`Stage`), the ComplianceCheck
row to the verdict, and `orders` to whether there are any.

### Staging

| variable | in the code |
|---|---|
| `open` | `isMarketOpen()`; any change at any time |
| `exec[m]` | the execution of an authorizing event: its plan for each trade, the trade it is at |
| `order[o]` | status of the Order row `authorizingEventId#index` |
| `tickets` | orders with a StagedOrder row |
| `byTenant`, `byType` | what `tenantId-index` and `typename-timestamp-index` show of them |
| `run[r]` | an invocation of the staged-order processor: batch, ticket in hand, verdict |

`PlanOrders` is the handler: it decides every trade before any write.
`RecordOrder` and `RecordTicket` are its intents in order, each a put that only
succeeds on an absent row. `ListTickets`, `CheckTicket`, `UpdateOrderStatus` and
`DeleteTicket` are the requests of the processor; `RunFault` is its caught
error, which skips to the next ticket, or its death. `Redeliver` starts a
message over, from any point. The conflict checks of one message are one step:
they read an index that may lag anyway, and none of the message's own writes has
happened.

### The broker: BrokerBus, OrderLifecycle, Funding, VirtualLedger, SimBroker

| variable | in the code |
|---|---|
| `requests`, `results` | events of the ExecutionBus: what broker-ctrl asks (a fresh id each time it is sent) and what an adapter answers |
| `exec[x]` | an execution of `order-state-machine.ts` and the status it was answered with |
| `brokerOrder[o]` | the BrokerOrder row: state and `taskToken` |
| `reported` | NormalizedEvent rows: ORDER_FILLED, ORDER_ESCALATED |
| `router[t]`, `carriers` | the funding router's handler, the FundingEvent rows |
| `row[t]` | investor-bff's transfer row: the ordinal of its status |
| `cash`, `position`, `trades` | VirtualCashBalance, VirtualPosition, VirtualTrade rows |
| `markers`, `recorded` | ProcessedEvent markers, DepositDetected and WithdrawalCompleted rows |
| `work[r]` | the handler of a request: where it is, the balance, version and shares it has read |
| `cashes`, `positions` | what a read of the cash row and of the position may return: the rows as they are or as they once were |
| `misread` | orders for which `executeTrade` read an old position (history) |
| `inits`, `failed` | initialisations of the account, requests dropped with an error event |

`CreateOrder` is the unconditional put of `route-order.ts`, `EmitRequest` the
event after it. `ResolveCallback` looks the token up in the row, so that an
answer reaches the execution that wrote the row last; `TimeOut` is the 300 s.
`MarkFails` is a write of a Parallel that fails while its sibling may have
succeeded. In the simulator every read of the trade is a step, in the order of
the code: cash, position, *then* the version, then the position again; `Commit`
is the transaction. None of these reads is a consistent one, nor is the look for
the account or the balance check of a withdrawal: each takes any member of
`cashes` or `positions`, which `Replicate` extends at every write. `GuardedAdd`
is marker and addition; `RecordCompletion` the carrier row. `Conflict` is
DynamoDB's cancellation of a write on a row another transaction holds, which
`guardedWrite` does not retry. In `SimBroker` one account exists from the start
with a past trade, or is created by the first request.

### Alpaca: CircuitBreaker, AlpacaAdapter, AlpacaBroker

| variable | in the code |
|---|---|
| `live[r]` | the handler of a request in broker-alpaca-adpt |
| `accepted` | what Alpaca has taken, whatever it answered |
| `mapping[s]` | OrderMapping and TransferMapping rows |
| `polled` | transfers whose polling execution has ended |
| `breaker`, `openings`, `closings` | the CircuitBreaker row and its transitions |
| `stream` | BROKER_CIRCUIT_OPEN and BROKER_CIRCUIT_CLOSED in the order of their rows |
| `heals[h]` | executions of `circuit-breaker-heal.ts`, the second of an announcement by a duplicate |
| `flag`, `shown` | the feature flag with `lastEventAt`, the newest announcement investor-bff has handled |

Alpaca is a free choice at every call: it takes the request, refuses it, or
fails having taken it or not. An order's id is its idempotency key; a transfer
has none. `Open` is the conditional put, `WriteBreakerOpenEvent` the request
after it that a crash may prevent. `HealFails` is a failing call in a state of
the healing that neither retries nor catches. No read of the breaker row is a
consistent one: a handler may still call Alpaca while the breaker is open, and a
healing that reads the row of before the opening ends at once (`misled`).
`UpdateFlag` may happen for any announcement, again, and in any order. The
polling is modelled as far as it gets (section 6).

### Mandate

| variable | in the code |
|---|---|
| `profile`, `mandate` | InvestorProfile and Mandate rows of investor-bff |
| `announced` | their events with the row's image, in flight for good |
| `compliance`, `workflow` | MandateSnapshot of compliance-ctrl, of decision-workflow-ctrl |
| `dashboard`, `brokerMode` | InvestorSnapshot of dashboard-bff, ExecutionMode row of broker-ctrl |
| `onboardings` | how often ONBOARDING_COMPLETED was handled |

Each resolver is an action; what its write announces follows from the fields it
changes (`MandateEvents`), as change data capture dispatches on fields. Each
copy has its own set of event types, taken from its subscription.

### Portfolio: LedgerIntake, LedgerViews, Advice

| variable | in the code |
|---|---|
| `message`, `work` | the events of a tenant and their handler executions in ledger-ctrl |
| `recorded`, `booked` | entries by event id; entries per stream not yet reduced |
| `lots`, `disposed` | TaxLot rows, DispositionRecord rows |
| `images` | every value a TaxLot row has had, which is what the query may return of it |
| `saved`, `published` | `Snapshot#latest` per stream, the events of its saves |
| `rows` | the watched rows of the read models, each by the snapshot it was projected from |
| `packet`, `verdict` | the assembled packet, the ComplianceCheck row |
| `triggers`, `basis`, `shadowed` | amounts a trigger may carry; what the packet was made of (history); whether its trades were simulated |
| `torn` | symbols of which a lot was written from what it was not (history) |

`ReadLots`, `UpdateLot` and `PutDisposition` are the requests of
`tax-lot-manager.ts`. `ReadLots` takes each row from its `images`, of any age
(`QueriedLots`), and what it computes from them is written later, whatever the
rows are by then. `Tear` records where that goes wrong. It does in four ways and
the code guards against none: a sale draws on a lot it read as it no longer was;
it draws on one that another sale has read and not yet written down; a sale is
handled again after it has written a lot; a purchase is handled again after some
of its lot was sold. `ApplyEntry` is `accountReducer`: a command that throws
leaves the account as it is. `SnapshotToEvents` decides which events a save
makes, `Feeds` which events a row takes. `AssemblePacket`, `Violates`
(guardrails, concentration, the suitability check) and `Authority` are the
arithmetic of the source, in integers: an amount stands for cents, a weight is a
percentage. `PacketIsFunded` bounds an overdraft by `Overstated`, the cash that
row and trigger showed beyond what there was, and by the rounding. Two things
overstate: a deposit that is both in the row and in the trigger, and a recorded
withdrawal the row does not show, since only PORTFOLIO_UPDATED feeds it and a
change of cash alone does not emit that. Nothing in the code bounds
`Overstated`; the property says that nothing else overdraws, as long as the
weights are the whole at most and no withdrawal follows the packet. The code
ensures neither of these two. An approved trade is filled in full at the price
1, or not at all; how an order gets to its fill is the subject of `Staging` and
the two broker compositions.

### Delivery: Egress, Ingress

| variable | in the code |
|---|---|
| `tail`, `image` | the changes in a table's stream and what their images are good for |
| `first`, `ends`, `tries` | the stream's position, its batches (bisected on failure), its retries |
| `out` | what became of each change in the running invocation |
| `published`, `refused`, `given` | how often an event was put per change; NotRetryableErrors; the egress's dead-letter queue |
| `msg[m]` | one message per publication: where it is, its receive count, the intent it is at |
| `batch` | the messages of the running invocation |
| `recorded`, `marked`, `total`, `row` | the consumer's table: a row per event, ProcessedEvent markers, an accumulated total, a versioned row |

`Invoke` is `toRecords`: it skips a message received too often and throws on one
it cannot parse, which returns the whole batch. `ExecuteUpdate`,
`ExecuteRecord`, `ExecuteAccumulate` and `ExecuteProjectVersioned` are four
intents of one typical handler, each of which can fail or be followed by a
crash; services use some of them each. `Retry` is what the event source mapping
does with a failed batch: split it, retry a single change, give it up.

### Replica

An event leaves a mark only after it has happened; its row is written after the
row it waits for, then it is added, once, then it may move the projected row to
a newer version. `Table` in `Delivery` takes `recorded`, `total` and `row` as
they are; what has happened is the changes up to `tail` and the events of the
other producers. Of streams, batches, copies, receives and markers nothing is
left: that none of them shows in the table is what the refinement says.

## 4. The runs

Eight runs pass. Four more check one statement each that a document or comment
of the repository makes and the code does not keep; TLC ends them with a
counterexample.

| run | checks | shows |
|---|---|---|
| `ledger` | `TypeOK`, `ImplementsAccount`, `CatchesUp` | with crashes, late puts and stale reads the ledger implements `LedgerAccount`, so that no entry is applied twice or taken out again; where reads do not lag no recorded entry stays above the watermark |
| `decision` | `TypeOK`, `OrdersAuthorised`, `StatusJustified`, `ImplementsDecision`, `ReadModelSettles`, `AnswerRecorded`, `GenerationEnds` | whoever writes last, statuses have their reasons and the cycle implements `Decision`, so that decisions stay decided; blocked decisions are not ordered; verdicts and answers survive a crash of the callback; the read model ends equal to the packet and a cycle does not show GENERATING for ever unless it was aborted |
| `staging` | `TypeOK`, `EveryTradeOrdered`, `TicketsWorkedOff` | whatever crashes and redeliveries, each trade of a handled message has its order, and every ticket is worked off in the end |
| `broker_sim` | `TypeOK`, `FilledIsTraded`, `PositionMatchesTrades`, `CashMatchesTransfers`, `EveryOrderEnds`, `DepositAccounted` | across dead tokens, duplicates, conflicts and old reads, a reported fill was traded, positions add up unless a trade read an old position next to the current version, transfers add up, every execution ends and no deposit is lost without a trace |
| `alpaca` | `TypeOK`, `PlacedIsAccepted`, `OneClosePerOpening`, `FlagsComeBack`, `OpenIsAnswered`, `FailureIsShown` | a row that says placed is right; an open breaker is closed once, unless its healing escalates, dies or is misled by an old read, or its opening was never announced; features come back; a failed transfer is shown |
| `mandate` | `TypeOK`, `RevocationHolds`, `MandateSettles`, `ModesAgree` | with events in any order, no copy takes a revoked mandate for active again, and the copies come to agree with the rows |
| `portfolio` | `TypeOK`, `LotsAddUp`, `PacketReachesTarget`, `PacketIsFunded`, `ExecutedWithinLimits`, `RowsCatchUp` | the lots of a symbol add up until one of four unguarded writes tears it; rows catch up with the account; an executed packet reaches its target, overdraws by no more than what row and trigger showed too much, and keeps its limits |
| `delivery` | `TypeOK`, `PassedIsPublished`, `AcknowledgedIsWritten`, `ImplementsReplica`, `EveryChangeSettles` | what the stream has passed was published or kept, what is acknowledged is written exactly once, the table is a `Replica`, every change is written or has its end on record |
| `ledger_gap` | `EveryEntryReduced` fails | number 2 is put and reduced before number 1 is put: entry 1 stays below the watermark |
| `decision_l2` | `L2OrdersConfirmed` fails | an L2 verdict is ordered before the user is asked |
| `broker_sim_cash` | `CashMatchesTrades` fails | the second of two orders pays from a balance read before the first one paid |
| `delivery_poison` | `FailureIsKept` fails | a message that waits for another is skipped by the adapter and reaches no dead-letter queue |

### Bounds, and why they are enough

`Ledger`: one message with two entries, delivered twice, so that two executions
race for one entry and waste a number; one entry may lag; two faults, so that a
late put can meet a retry that was itself killed; three retries, which is more
than the faults and conflicts can use up (with fewer the stream drops the
batch, as the code does). The sort keys are in the opposite order of the
entries. A page holds both: the effect of a smaller page is known (section 6)
and would hide the interleavings.

`DecisionCycle`: one answer from one device and one fault. There is one answer
to each other task, so the sets of events and images are finite without a
further bound. The theorems hold for any number of devices and faults.

`Staging`: one message of two trades in one symbol, so that they conflict; two
overlapping runs of the processor (a scheduled run and a retry); one fault.

`SimBroker`: two submissions at a time, since every race in it is between two:
an order and its duplicate execution, two orders of opposite sides, an order and
a withdrawal, a deposit with a redelivered request, two withdrawals. One fault,
and two requests per transfer, which is one more than the faults can cause, so
`MaxRounds` stops nobody. With `AnyAge` false a read is one write behind at
most, which is enough for every order of an old read and a write of the other;
the theorems hold for reads of any age. A new account holds two units (100,000
dollars in the code), an order or transfer moves one: enough for a first, not
for a third.

`AlpacaBroker`: an order with its duplicate, or a deposit; one fault; two
attempts of a healing for the ten in the code, so that an attempt fails and
another is left. `MaxEvents` is six and never reached.

`Mandate`: versions up to three, two modes, onboarding up to twice. Three
changes are a change, one that overtakes it, and a revocation.

`Portfolio`: nineteen scenarios in four groups. Lots: two purchases and two
sales of one symbol in any order and overlapping, one of which ends within a lot
or spans both; and, each with a redelivery, two purchases with one sale and one
purchase with two. Rows of the lots may be read at any age. With any of the
conditions under which `Tear` marks a symbol left out, TLC finds `LotsAddUp`
violated there. Views: a deposit, a withdrawal that may come too soon, a
purchase and a sale of everything, on an empty and an old account, two rows
watched at a time (rows do not see each other). Decisions: on an empty account,
on one that holds a symbol, with a deposit the row shows or not, while a
purchase or a withdrawal is under way, and on one that is nearly invested; six
target allocations, whose weights lie on both sides of each limit, one of them
more than the whole. With `Overstated` or either of the other two premises of
`PacketIsFunded` left out TLC finds it violated there: by the deposit counted
twice and by the recorded withdrawal not shown. Simulation: a packet booked to
the simulated stream while it is filled. A new account holds two units for the
code's 10,000,000 cents.

`Delivery`: two changes whose images are good, violate their contract or cannot
be resolved, the second waiting for the first at the consumer, and a malformed
event of another producer; batches of two; one retry (three in the code), a
poison limit of two and a receive limit of three (five and ten), which keeps
their order; at most two deliveries of one event; one fault.

Each counterexample run has the smallest instance that shows it;
`delivery_poison`, `broker_sim_cash`, `decision_l2` and `ledger_gap` need no
fault at all.

Deadlock is not checked (`CHECK_DEADLOCK FALSE`) because these systems come to
rest when every message is handled; the liveness properties say what the rest
must look like. In `Staging` the market never stops turning, and deadlock is
checked.

### Fairness

No fault, no timer of the 24 or 72 hours and no act of a user is fair.

- `Ledger`: weak fairness of the first receive of a message, of a further one
  only when the earlier one failed (SQS hands a message out until it is
  deleted), of each request of an execution, of the reducer's steps together
  (the stream invokes it while there are records), of replication and of a put
  under way.
- `DecisionCycle`: weak fairness of the states of the execution that do not
  wait, of a stage timeout (Step Functions keeps its timers; an answer may come
  first), of compliance-ctrl, of each callback message (it stays in the queue
  until handled) and of the projector. Neither the agents nor execution-ctrl
  are fair: an agent may never answer.
- `Staging`: weak fairness of each message's execution, of the processor's
  steps (the schedule fires every weekday and Lambda runs it to its end), and of
  the indexes. Nothing is assumed of the market.
- `SimBroker`, `AlpacaBroker`, `Portfolio`, `Delivery`: weak fairness of
  `Progress`, all steps of the services that are neither faults nor choices of
  others, taken together. That is weak: some such step is taken while there is
  one. It is enough because none of them can repeat for ever (requests, retries,
  receives and attempts are counted, versions only rise), so every queue empties
  in the end. It stands for Step Functions going on with an execution, SQS
  handing a message out until it is deleted, and the streams delivering.
- `Mandate`: weak fairness of delivery. What the investor does is not promised.

`Delivery` has the limits of SQS and the streams in it. In the other modules a
message is handed out again after each fault, which stands for a number of
faults below those limits; `MaxFaults` keeps to it.

## 5. What is proved

TLAPS proves the following for any sets of messages, entries, orders, transfers,
devices and runs and any bound on faults, lag, retries and page size. The
assumptions are the ASSUMEs of the modules, which TLC evaluates in every run:
`LedgerAssumption`, `DecisionCycleAssumption`, `StagingAssumption`,
`BusAssumption` (an execution has an order; executions, orders and transfers are
told apart), `TokenAssumption`, `VirtualLedgerAssumption`, `BreakerAssumption`,
`ScenariosAssumption`, `MandateAssumption`, `LedgerIntakeAssumption` (events are
finitely many, of different times), `ViewsAssumption`, `AdviceAssumption` (a
weight is a percentage), `PortfolioAssumption`, `EgressAssumption`,
`IngressAssumption`, `DeliveryAssumption`. They say that bounds are numbers and
that what differs in the code differs here. `PortfolioAssumption` says where a
scenario may begin: well typed events and an account that is solvent, cash and
holdings together not less than nothing, which every account is that the reducer
made (`TypeInvariant`).

| theorem | property |
|---|---|
| `LedgerTypeCorrect`, `LedgerImplementsAccount` | `TypeOK`, `ImplementsAccount`: `Ledger` implements `LedgerAccount` |
| `LedgerAppliedOnce`, `LedgerSequenceUnique`, `LedgerSnapshotAdvances` | the account has an entry at most once, and none above its watermark; no two entries share a number; a save extends the snapshot before it |
| `LedgerNoneForgotten` | with current queries, one page and no batch given up, an entry is below the watermark or its record is still on the stream |
| `DecisionTypeCorrect`, `DecisionOrdersAuthorised`, `DecisionStatusJustified`, `DecisionImplements` | `TypeOK`, `OrdersAuthorised`, `StatusJustified`, `ImplementsDecision`: `DecisionCycle` implements `Decision` |
| `DecisionOneImagePerVersion`, `DecisionPacketNotReopened`, `DecisionDecidedStaysDecided` | a version of the packet has one image; the packet, and what is shown of it, stay decided |
| `DecisionAnswersKept`, `DecisionQuestionKept`, `DecisionPacketShown` | nothing is lost between two services: a deciding message is acknowledged once the packet is decided; an L2 verdict reaches the user or the execution has ended; the read model shows the packet or will take its image |
| `DecisionGenerationFollowed` | a cycle shown as generating is at work or was aborted, or its end will be shown |
| `StagingTypeCorrect`, `StagingEveryTradeOrdered` | `TypeOK`, `EveryTradeOrdered` |
| `StagingTicketHasOrder`, `StagingIngressDecidesOnce` | a ticket, also one a run has listed, has its order; only the processor changes an order's status |
| `StagingDeletedIsDecided` | a ticket is deleted only when its order is decided |
| `SimTypeCorrect`, `SimFilledIsTraded`, `SimPositionMatchesTrades`, `SimCashMatchesTransfers` | `TypeOK`, `FilledIsTraded`, `PositionMatchesTrades` (for an account initialised once, unless a trade that committed had read an old position), `CashMatchesTransfers` |
| `SimSettledWasMoved`, `SimRowAdvances` | a transfer shown as detected or settled has moved its money; its row is never set back |
| `SimDepositKept` | a requested deposit is still to be sent, in a handler, named by an error event, or completed |
| `SimToldOnce` | an execution has a branch for its answer and tells one end, its own, after it was answered |
| `AlpacaTypeCorrect`, `AlpacaPlacedIsAccepted`, `AlpacaOneClosePerOpening`, `AlpacaFlagsComeBack` | `TypeOK`, `PlacedIsAccepted`, `OneClosePerOpening`, `FlagsComeBack` |
| `AlpacaFailureKept`, `AlpacaOpeningAnswered` | a failed transfer has its result on the way or its status written, and no other is shown as ended; an open breaker has an opening to announce or a healing that is to start, at work, escalated, dead or misled by an old read |
| `MandateTypeCorrect`, `MandateRevocationHolds` | `TypeOK`, `RevocationHolds` |
| `MandateCopiesFollow` | each copy of a mandate or a mode agrees with its row, or an image it will take is on its way |
| `TypeCorrect`, `TaxLotsAddUp` | `TypeOK`, `LotsAddUp` of `Portfolio`: the lots of every symbol that no unguarded write has torn |
| `PacketReaches`, `PacketFunded`, `ExecutedInLimits` | `PacketReachesTarget`, `PacketIsFunded` (an overdraft is no more than what row and trigger showed too much, and the rounding), `ExecutedWithinLimits` |
| `TypeInvariant`, `VersionsTrue`, `ReducerKeepsAccount`, `PortfolioInvariant` | every snapshot is solvent; a version names one account of a stream and no row is ahead of the ledger; the account does not depend on the reducer's batches; the invariant behind the three properties above |
| `RowsFollowAccount` | each row of a read model shows its account, or an event it will take is on its way |
| `DeliveryTypeCorrect`, `DeliveryPassedIsPublished`, `DeliveryAcknowledgedIsWritten`, `DeliveryImplementsReplica` | `TypeOK`, `PassedIsPublished`, `AcknowledgedIsWritten`, `ImplementsReplica`: `Delivery` implements `Replica` |
| `DeliveryChangeKept` | a change is written, or its end is on record, or stream, bus, queue or invocation still have it |

**Ledger.** `SequenceUnique` is not inductive, because an execution between its
two requests holds a number no row shows yet. `HeldSequence` adds that such a
number is at most the counter, is on no recorded entry and is held by nobody
else. The snapshot properties need all snapshots in play: the saved one, the
replica's, the one the reducer has read, the one it is about to put, and a late
one. `WasRead(s)` says that a snapshot that was read is sound, no newer than the
saved one and equal to it when the versions agree. `WillBeSaved(c)` says that a
candidate whose version is the next one extends the saved snapshot. The
condition of the put asks for the next version, so a put that succeeds extends,
from however old a snapshot its writer began. `IInv` is kept by every step, and
each step changes the saved snapshot not at all or by `Grows`; that is
`SnapshotAdvances` and the `Apply` of the abstract account. `PutLedgerEntry` of
a new entry is its `Record`; everything else stutters.

**DecisionCycle.** The properties speak of three rows; what makes them inductive
is where the execution is when somebody writes them. `Phase`: before the
proposal is sent there is no verdict, and before assembly there is no packet.
`Asks`: an answer of the user implies that the execution has asked, hence that
the verdict was L2. `Images`: every image but the two signals is a version of the
packet, versions have one image, and decided versions come last. From the last
point and the guard of the projector follows `DecidedStaysDecided`: a higher
version than a decided one is decided. The two signals are harmless because the
start signal has version 0 and the failure signal exists only when the
execution ended before it had a verdict. For the refinement `AskedStays` says
the same of the question: a version after one that asks is asked or answered, so
neither the packet nor the read model goes back to nothing. Then each write of
the packet is `Ask`, `Decide` or a stutter (`WriteImplements`): the question
comes before any decision (`NotAsked`), and an update decides as its verdict
allows (`UpdateFacts`).

**Staging.** The key lemma is `OrderKept`: no step of any actor removes an order.
`Written` follows an execution through its trades: the orders before the one in
hand are there. `TicketHasOrder` follows a ticket from the table into the runs
that have listed it, although another run may delete it meanwhile. A run that is
about to delete a ticket has decided its order (`UpdatedIsDecided`), and a decided
order stays decided.

**SimBroker.** Three arguments. `FillTraced` follows a reported fill back: the
execution was answered FILLED, so a result was in flight, so the trade is in the
table; tokens lead from a row to an execution of the same order. `MoveTraced`
does the same from the shown row over carrier and result to the marker.
`AccountInv` is about the account: `Current` says that a handler's version is no
newer than the row's, and that at its commit, if the version is still the
latest, so are the shares it read, unless it read an old position to begin with
(`misread`). That holds because the version is read *before* the shares, even if
what was read is an old version: with one of those the commit fails. `ReadsOK`
says that no read returns a later version than the row's.
`PositionMatchesTrades` therefore names the one gap of the lock, a current
version with an old position, which the code does not close, and covers
everything else: old versions, old balances, a position that was old when the
order was validated. The balance is read before the version, which is why the
same argument fails for cash and `CashMatchesTrades` with it. `Fresh` covers the
time before the account exists. The lemmas about broker-ctrl alone mention no
adapter; the Alpaca proofs have them too.

**AlpacaBroker.** `PlacedIsAccepted` needs only what a handler holds between the
call and the put (`InHand`). For `OneClosePerOpening` closings are counted: each
takes an opening away, and each announcement takes one of the healings that
closed. `FlagsComeBack` is the longest: without second healings, when everything
is announced, the last announcement is a closing, because each healing announces
after the opening it heals.

**Mandate.** `Bounded`: a mandate's version is at most its profile's, plus one
for its revocation. `LastWord`: while the onboarding was handled once, the image
of the revocation is final and has the highest version, so no image of an active
mandate can pass the guard of a copy that has it.

**Portfolio.** Accounts and totals are sums over sets and folds over sequences,
which the community modules define by a `CHOOSE` of a recursive function. The
first sections of the proofs replace that, once, by a recursion over the subsets
of a finite set, whose existence, uniqueness and induction are proved with the
set `{n \in Nat : ...}` of sizes for which they hold. After that a sum is known by
`SumEmpty`, `SumAdd`, `SumRemove`, `SumMonotone`, and a fold by `FoldEmpty` and
`FoldAppend`. On these:

- *Types.* `TypeInv` keeps every account solvent (`Solvent`), not only well
  typed: an entry moves cash for shares at one price, and one that would leave
  less than nothing is refused. So the value of a packet is not negative.
- *Versions.* An entry raises the version by one, so what the reducer saves is
  newer than all snapshots of its stream. Hence `VersionsInv`, on which the guard
  of every row relies. `ReducerKeepsAccount` is the lemma that folding the first
  entries and then the rest is folding all.
- *Lots.* `LotsAddUp` looks at moments when no sale of the symbol is under way.
  In between a lot may be written down with its disposition still to come, so
  `LotOK` counts what is pending (`PendingOf`, `Taken`). `SaleOK` says that a lot a
  sale has still to write down is as the sale read it, and that it has no
  disposition before it writes one; `Apart`, that no two sales are about to write
  the same lot, so that neither changes what the other has read. All three are
  stated for a symbol that is not torn (`Whole`); `HandlerOK` holds for every
  symbol: only sales sell, and only of lots of their own. Sales that overlap on
  different lots, rows read old that are not drawn on or have not changed, and
  redeliveries before the first write are thus in the theorem. The split of a
  sale never takes more than the sale (`FifoSplit`), nor more than the lot it read
  has.
- *Decision.* `DecisionInv` ties the packet to its basis, its verdict to the rule
  that gave it, and every order event to a trade of the packet (`OrderOK`).
- *Account.* `HoldInv` and `CashInv` follow the account event by event since the
  packet was made: it holds what the packet found and what its recorded fills
  moved, and no fill is refused, since a sale asks for no more than is held. An
  event that is recorded moves its deposit from `Unrecorded` into the account,
  which leaves their sum alone.
- From there the three properties are arithmetic. A trade below a micro trade is
  dropped, any other moves the holding onto its target. The targets together
  exceed the value by the rounding only, and what is dropped is below a micro
  trade per symbol. What is executed is what the rules have seen, whose
  sums over trades are reindexed to sums over symbols.

**Delivery.** The two halves meet only in what is published, so each has its
invariant. `EgressInv`: the batches still to be processed follow one another
(`InOrder`), so passing one passes nothing of the next; what is "sent" in an
invocation is published. `IngressInv`: how far a message is in its intents says
what is written for its event (`WrittenSoFar`), and its marker says how often it
was added (`MarkedIsAdded`). The refinement adds `Causes`, which leads from a
message back to the change it stems from, and says that a message past its update
has found the row it waits for. Then the four intents are `Record`, `Add`,
`Project` or nothing, and every other step of either service is a stutter or
`Happen`.

**What liveness rests on.** A property that something is done in the end has two
halves: nothing can lose it, and the step that does it is taken. The first is an
invariant, "done, or a step to it is possible", and is proved for any bounds:
`DecisionAnswersKept`, `DecisionQuestionKept` and `DecisionPacketShown` for
`AnswerRecorded` and `ReadModelSettles`; `SimDepositKept` for `DepositAccounted`;
`AlpacaFailureKept` for `FailureIsShown`; `AlpacaOpeningAnswered` for
`OpenIsAnswered`; `MandateCopiesFollow` for `MandateSettles` and `ModesAgree`;
`RowsFollowAccount` for `RowsCatchUp`; `StagingTicketHasOrder` and
`StagingDeletedIsDecided` for `TicketsWorkedOff`; `DeliveryChangeKept` for
`EveryChangeSettles`; `DecisionGenerationFollowed` for `GenerationEnds`;
`SimToldOnce` for `EveryOrderEnds`; `LedgerNoneForgotten` for `CatchesUp`. The
arguments follow one message through its hands: `DepositInv` from the router over
the virtual ledger to the carrier, `VerdictWaits` from compliance-ctrl to the
execution. Where versions guard a copy, the invariant is that the newest image
agrees with the row (`FollowInv`), or that folding what is published into a row
gives the account (`RowsInv`); the copy is then current or behind that image. The
second half needs fairness and stays with TLC.

`LedgerNoneForgotten` needs what the code does not have by itself, and says so in
its statement: no query lags, a page holds all entries, and no batch uses up its
retries. Each is needed: an entry that a query misses, that is on a second page,
or whose batch is given up stays above the watermark with nothing on the stream.
That the snapshot is read without lag, which `CatchesUp` also supposes, is not
needed: a save on top of an old one meets a newer version, and is tried again.

**Only model-checked.** Everything under fairness, which TLAPS does not reason
about: `CatchesUp`, `ReadModelSettles`, `AnswerRecorded`, `GenerationEnds`,
`TicketsWorkedOff`, `EveryOrderEnds`, `DepositAccounted`, `MandateSettles`,
`ModesAgree`, `OpenIsAnswered`, `FailureIsShown`, `RowsCatchUp`,
`EveryChangeSettles`. Every invariant and every action property of the passing
runs has its theorem. The counterexamples are found by TLC and need no proof.

## 6. Where code and documents disagree

The runs that end in a counterexample are described in `PROJECT.json` with the
line of the code and the quoted statement: entries recorded out of order are
never reduced; L2 orders do not wait for the user; an optimistic lock whose
version is read too late; waiting messages that are skipped instead of kept.

Reading the code for the models showed more, which no run of its own records.
Where a document says otherwise it is named (paths under `docs/data-flows` unless
given).

**Ledger and read models**

- With a stale read the reducer may miss the very entry that woke it, and an
  account with more than one page (1 MB) of entries is reduced from the first
  page only. `EveryEntryReduced` fails for both reasons too.
- The reducer keeps the state when a command throws, so a SELL numbered before
  its BUY, or a WITHDRAWAL before its DEPOSIT, is lost to the account for good.
- An account starts with 10,000,000 cents (`account-state.ts:17`), the actual
  stream included, while a missing LedgerSnapshot row reads as cash 0.
- Events of the simulated and the actual stream feed the same rows of a tenant
  under one version guard (only one handler looks at the stream), although
  `docs/architecture/READ-MODEL-OWNERSHIP.md:73` and `:92` count the sequence
  per stream and expect one authoritative producer. `RowsCatchUp` is therefore
  stated per stream.
- The LedgerSnapshot row is fed by PORTFOLIO_UPDATED alone, which a change of
  cash does not emit: the next packet is made from old cash
  (`advisory-cycle.md:144` says it mirrors `cashBalanceCents`). A first deposit,
  on the other hand, is both in the row and in the trigger, and counts twice.
- A row of LedgerSnapshot that has not seen a recorded withdrawal makes the next
  packet spend the cash that is gone. `PacketIsFunded` has it in `Overstated`.
- Tax lots are done again when an event is delivered again, two sales that have
  read the same lot lose one's update, and so does a sale right after another
  whose query returns the lot of before it. `LotsAddUp` leaves out the symbols for
  which this has happened (`torn`).
- A day's first checkpoint stands; history rows are one per snapshot.

**Decisions**

- The L2 verdict and the user's confirmation are two events, so the trades of
  one decision are ordered twice, under different order ids.
- A failed agent run is not retried: its retry meets the lock the run left
  (`docs/architecture/SYSTEM-ARCHITECTURE.md:292`: failed handlers retry).
- One failed SendTaskSuccess makes the callback fail the very task that a retry
  would have resumed; the packet stays PENDING.
- The packet takes whichever answer comes last: after a confirmation, a late
  rejection from another device makes it REJECTED although its orders are placed.
- A missing mandate snapshot aborts the execution outside every Catch; no
  failure signal is sent, which is the exception in `GenerationEnds`.
- The failure signal and the packet's first version share version 1, so the
  first to arrive wins: the exception in `OneImagePerVersion` and
  `ReadModelSettles`.
- Suitability of an investor who holds anything is never checked, since the
  totals come out as NaN; the comment at
  `services/advisory/compliance-ctrl/src/rules/suitability-checker.ts:15` says
  exposure after the trades stays within bounds. Concentration
  looks at target weights only, so selling always passes. The cap in use is
  20/30/40 percent, not the 25/35/50 of `SYSTEM-ARCHITECTURE.md:364`.

**Orders and brokers**

- A staged order conflicts with its own ticket (same tenant, same symbol), so a
  lone order is rejected at market open (`staged-order-processor.ts:35`,
  against `order-execution.md:204`).
- A crash between order and ticket, then a redelivery after the open, leaves the
  order STAGED for good. Redelivered at night, an order submitted by day gets a
  ticket and is decided a second time.
- A refused simulated order writes no row and no result, so its execution waits
  out the 300 s and escalates (`order-execution.md:91` has a REJECTED trade).
- An Alpaca result names its order `nestfolioOrderId`, the callback reads
  `orderId`: every live order escalates by timeout, although
  `order-execution.md:115` has the callback resolve it.
- The polling reads fields the Lambda's answer does not have
  (`order-polling-definition.ts:44`, `transfer-polling-definition.ts:50`), so it
  dies at its first answer unless a transfer has failed; its timeout and its
  cancellation cannot be reached. Neither can MarkPartialFill and MarkRejected
  in broker-ctrl.
- A request answered with 5xx and sent again is refused as a duplicate: the
  order is recorded REJECTED though placed, which no property forbids:
  `PlacedIsAccepted` is about rows that say PLACED. A later put of PLACED over
  REJECTED emits nothing. A transfer has no idempotency key and is made twice.
- A redelivered funding router sends its request again under a fresh id, so a
  deposit is credited twice (`deposit.md:95`: idempotent). `DepositAccounted`
  says only that it is not lost.
- A trade that reads the current version and an old position passes the version
  check and overwrites the shares of an earlier trade: neither `getCashBalance`
  nor `getPosition` is a consistent read. `PositionMatchesTrades` leaves out
  trades that did so (`misread`).
- Two withdrawals in flight may both pass the check and overdraw the account; no
  property forbids it, `CashMatchesTransfers` counts each debit once. One that is
  redelivered after its own debit may fail the check and go unanswered
  (`withdrawal.md:185` calls the silent skip intended).
- Two first events both create the account, and the second undoes what was
  credited in between. This is the premise `inits <= 1`.
- A conflicting write is dropped: with an error event for a transfer, without
  one for an order.

**Breaker**

- After an escalation the breaker stays open until somebody closes it, which
  `broker-circuit-breaker.md:104` says. So it does when the healing's own
  GetItem returns the row of before the opening. A crash between opening and
  announcing leaves it open without any healing; a failed announcement of the
  closing, or a lost flag mutation, leaves the features off; so can two healings
  of one opening. These are the premises of `OpenIsAnswered` and `FlagsComeBack`.

**Mandate**

- ONBOARDING_COMPLETED handled twice puts profile and mandate back to version 1
  with a new id, and makes a second DepositIntent (`investor-onboarding.md:82`:
  idempotent); the copies keep the higher version. REVOKED back to ACTIVE even
  emits MANDATE_REVOKED, with an active image. The mandate properties are
  stated for an onboarding handled once.
- decision-workflow-ctrl never hears of a revocation; compliance-ctrl blocks
  what it proposes.
- broker-ctrl's mode row is written once: it follows the first change, the only
  one investor-bff has (going live).

**Event processor**

- The adapter skips at more than 5 receives, the queue allows 10, so no message
  that fails in a handler reaches the queue's dead-letter queue
  (`investor-onboarding.md:186`, `go-live.md:107`, `deposit.md:194` expect it
  there). A NotRetryableError ends with an error event, not in the dead-letter
  queue as `advisory-cycle.md:361` has it.
- A message that cannot be parsed fails its batch and ages its neighbours.
- The scheduled triggers of the market data adapters (`fetch-trigger.ts:26`)
  lack `userId` and `region` and cannot be parsed by their own queue.
- Egress retries publish again what was published (documented as at-least-once);
  a batch put with one entry that cannot be retried drops those that could.

## 7. What is not modelled

*Some old reads.* DynamoDB's default read may return an older row. That is
modelled for the reducer and its queries (`Ledger`), the indexes (`Staging`), cash
and position (`VirtualLedger`), the tax lots (`LedgerIntake`), the breaker row
(`CircuitBreaker`, `AlpacaAdapter`) and everything read from a projection (a
device's rows in `DecisionCycle`, the packet's ledger row, the copies of
`Mandate`). Taken to see the latest write are two reads of broker-ctrl's own rows:
the token in the BrokerOrder row by the callback, and the requested carrier by the
normalizer. compliance-ctrl's and the funding router's reads of a mandate and a
mode are free or fixed choices in `Portfolio` and the broker compositions.

*Markers expire.* A ProcessedEvent marker has a time to live; a redelivery
after it would count again.

*In modelled components.* Checkpoints, corporate actions and the append-only
rows (history, snapshots by time, recent activity); costs, gains and holding
periods of tax lots; the audit artifact of compliance-ctrl; notifications and
closing of an account in investor-bff; the holiday calendar (the market is a
free boolean); what the agents compute; repository methods no handler calls;
cancellations and account checks of Alpaca, which nothing requests; the grouped
variant of the egress (the ledger's reducer is in `Ledger`), stream filters, and
the intents `relate`, `sendTask` and puts to a bucket. `updateOrRetry` and
`accumulate` are modelled although no service calls them yet: they are
operations the library offers and documents.

*A second execution of the same trigger.* EventBridge may deliver one twice, the
decision id is fresh each time, so two independent cycles follow; they share no
row, and their orders differ in id.

*Left out for good.* The components of the second table of section 1. They keep
no state that two actors share, or only present it. They are most of the
repository's lines: front ends, deployment stacks, schemas, developer tooling.

## 8. The plan

Done: the order life cycle, the virtual ledger and funding, Alpaca with its
breaker, the mandate, tax lots, read models, the packet and its rules, ingress
and egress. What is left, by what an error would cost:

1. An abstract specification that both broker compositions implement: an order
   is open, then filled or escalated, once; a transfer moves its money once and
   is told once it is known. `FilledIsTraded`, `SettledWasMoved` and `FailureKept`
   are its core.
2. `Staging` as an implementation of an abstract order book: planned, recorded,
   decided.
3. `AdvisoryStatus`: the count of advisory-bff over index shards that lag, with
   the count that is written last.
4. The append-only rows of the read models (checkpoint, history, recent
   activity) on top of `LedgerViews`.
5. A composition of `Delivery` with one service's handler in place of its typical
   one, and the grouped variant of the egress.
6. `Reconciliation`, once account checks have a producer.

For each the same three facts are to be proved: an inductive invariant that
holds initially, is kept by each action, and implies the safety properties. A
disagreement gets a run only when it changes what a user sees.
