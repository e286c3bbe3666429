----------------------------- MODULE Portfolio ------------------------------
(***************************************************************************)
(* One tenant's money through the ledger, the read models and one          *)
(* decision.  A decision packet is assembled from what the read models     *)
(* know of the account and checked by compliance-ctrl; its trades are      *)
(* booked to the simulated stream at once and, if it is approved, filled   *)
(* by a broker and booked to the actual stream.                            *)
(*                                                                         *)
(* Execution is the business of Staging, SimBroker and AlpacaBroker; here  *)
(* an approved trade may be filled, in full and at the price 1, or not.    *)
(***************************************************************************)
EXTENDS Advice

CONSTANTS
  Scenarios,     \* where a behaviour starts
  OrderOf        \* the order of the packet's trade in a symbol

(* A scenario: the events published, the account before them as the read   *)
(* models have it, the rows watched, the trigger amounts advice may come   *)
(* with (none where there is no decision), the redeliveries spent, and     *)
(* whether the simulation of the packet is left out.                       *)
ASSUME PortfolioAssumption ==
  /\ OrderOf \in [Symbols -> Ids]
  /\ \A x, y \in Symbols : OrderOf[x] = OrderOf[y] => x = y
  /\ \A sc \in Scenarios :
       /\ sc.message \in [Ids -> Message]
       /\ SnapshotOK(sc.account) /\ sc.account.stream = "actual"
       /\ sc.account.cash + PositionsValue(sc.account) >= 0
       /\ sc.triggers \subseteq Nat
       /\ sc.faults \in 0 .. MaxFaults
       /\ sc.shadowed \in BOOLEAN
       /\ sc.triggers # {} =>
            /\ <<"LedgerSnapshot", "">> \in sc.watched
            /\ \A x \in Symbols : sc.message[OrderOf[x]] = NoMessage

VARIABLES
  triggers,     \* amounts a trigger of this tenant may carry
  basis,        \* what the packet was made of, and the account at that time
  shadowed      \* the packet's trades were booked to the simulated stream

vars == <<intakeVars, viewVars, adviceVars, triggers, basis, shadowed>>

NoBasis == [row |-> NoSnapshot, trigger |-> 0, account |-> NoSnapshot,
            unrecorded |-> 0, recorded |-> {}, allocation |-> <<>>]

Orders == {OrderOf[x] : x \in Symbols}

ActualRow(row) == row[1] \notin {"Simulation", "SimulationPosition"}

Init ==
  /\ IntakeInit /\ AdviceInit
  /\ \E sc \in Scenarios :
       /\ message = sc.message
       /\ faults = sc.faults
       /\ shadowed = sc.shadowed
       /\ triggers = sc.triggers
       /\ saved = [s \in Streams |-> IF s = "actual" THEN sc.account
                                     ELSE [NoSnapshot EXCEPT !.stream = s]]
       /\ published = {}
       /\ rows = [r \in sc.watched |-> IF ActualRow(r) THEN sc.account
                                      ELSE NoSnapshot]
  /\ basis = NoBasis

-----------------------------------------------------------------------------

(* The account with everything that is recorded.                           *)
Account(stream) == FoldLeft(ApplyEntry, Base(stream), booked[stream])

(* The row the state machine reads, of the snapshot it was projected from. *)
LedgerSnapshotRow == rows[<<"LedgerSnapshot", "">>]

(* Deposits that settled and are not in the ledger yet.                    *)
Unrecorded ==
  SumFunction([m \in {n \in Ids \ recorded : message[n].kind = "DEPOSIT"}
                 |-> message[m].amount])

Assemble ==
  /\ \E trigger \in triggers, allocation \in Allocations, risk \in RiskCategories :
       /\ AssemblePacket(LedgerSnapshotRow, trigger, allocation, risk)
       /\ basis' = [row |-> LedgerSnapshotRow, trigger |-> trigger,
                    account |-> Account("actual"),
                    unrecorded |-> Unrecorded, recorded |-> recorded,
                    allocation |-> allocation]
  /\ UNCHANGED <<intakeVars, viewVars, triggers, shadowed>>

Check ==
  /\ \E mandate \in Mandates : CheckCompliance(mandate)
  /\ UNCHANGED <<intakeVars, viewVars, triggers, basis, shadowed>>

Fill(t) == [kind |-> t.side, symbol |-> t.symbol, amount |-> t.amount, live |-> FALSE]

(* processSimulationEvent, on DECISION_PACKET_CREATED: the packet has the  *)
(* SELLs first.  A second delivery finds the entries of the first.         *)
Shadow ==
  LET of(side) == {Fill(t) : t \in {u \in packet.trades : u.side = side}} IN
  /\ packet.made /\ ~shadowed
  /\ shadowed' = TRUE
  /\ booked' = [booked EXCEPT !["simulated"] =
                  @ \o SetToSeq(of("SELL")) \o SetToSeq(of("BUY"))]
  /\ UNCHANGED <<message, work, recorded, lots, disposed, images, torn, faults,
                 viewVars, adviceVars, triggers, basis>>

(* The brokers: an approved trade is filled.                               *)
Execute(t) ==
  /\ verdict.result = "APPROVED"
  /\ message[OrderOf[t.symbol]] = NoMessage
  /\ message' = [message EXCEPT ![OrderOf[t.symbol]] = Fill(t)]
  /\ UNCHANGED <<work, recorded, booked, lots, disposed, images, torn, faults,
                 viewVars, adviceVars, triggers, basis, shadowed>>

HandleStep ==
  /\ \E m \in Ids : HandleEvent(m)
  /\ UNCHANGED <<viewVars, adviceVars, triggers, basis, shadowed>>

RedeliverStep ==
  /\ \E m \in Ids : RedeliverEvent(m)
  /\ UNCHANGED <<viewVars, adviceVars, triggers, basis, shadowed>>

ViewsStep ==
  /\ ViewsNext
  /\ UNCHANGED <<adviceVars, triggers, basis, shadowed>>

Next ==
  \/ HandleStep
  \/ RedeliverStep
  \/ ViewsStep
  \/ Assemble
  \/ Check
  \/ Shadow
  \/ \E t \in packet.trades : Execute(t)

Spec == Init /\ [][Next]_vars

(* Handlers run, the reducer and the projections are invoked again for as  *)
(* long as there is something left; nobody has to advise or to trade.      *)
Progress == HandleStep \/ ViewsStep

FairSpec == Spec /\ WF_vars(Progress)

-----------------------------------------------------------------------------
(* Properties                                                              *)

(* Types of the tenant's rows in the tables of ledger-ctrl, the read       *)
(* models, decision-workflow-ctrl and compliance-ctrl.  No position is     *)
(* ever negative: the reducer refuses a sale of more than is held.         *)
TypeOK ==
  /\ message \in [Ids -> Message]
  /\ work \in [Ids -> [pc : {"new", "lots", "update", "dispose", "done"},
                       todo : SUBSET Ids, sold : [Ids -> Nat], left : [Ids -> Nat]]]
  /\ recorded \subseteq Ids
  /\ booked \in [Streams -> Seq(Message)]
  /\ lots \in [Ids -> [status : {"none", "open", "closed"}, shares : Nat]]
  /\ disposed \in [Ids \X Ids -> Nat]
  /\ images \in [Ids -> SUBSET [status : {"none", "open", "closed"}, shares : Nat]]
  /\ torn \subseteq Symbols /\ shadowed \in BOOLEAN /\ faults \in 0 .. MaxFaults
  /\ \A s \in Streams : SnapshotOK(saved[s]) /\ saved[s].stream = s
  /\ \A e \in published : SnapshotOK(e[2])
  /\ \A r \in DOMAIN rows : SnapshotOK(rows[r])
  /\ verdict.result \in {"none", "BLOCKED", "APPROVED"}
  /\ verdict.level \in {"none", "L1", "L2"}

OpenShares(l) == IF lots[l].status = "open" THEN lots[l].shares ELSE 0

(* What a tax lot still holds and what its dispositions say was sold of it *)
(* make up what was bought, and the dispositions of a sale do not exceed   *)
(* the sale, in whatever order purchases and sales are handled, at the     *)
(* same time, again, or from an old image of the lots.  Only not of a      *)
(* symbol torn by one of these, none of which the code guards against: a   *)
(* sale drew on a lot that it read as it no longer was, or that another    *)
(* sale had read and not written down yet; a sale was handled again after  *)
(* its first lot was written down, or a purchase after some of its lot was *)
(* sold.                                                                   *)
LotsAddUp ==
  \A s \in Symbols \ torn :
    (\A m \in Ids : Selling(m) => message[m].symbol # s) =>
      /\ \A l \in LotsOf(s) :
           OpenShares(l) + SumFunction([m \in Ids |-> disposed[<<m, l>>]])
             = message[l].amount
      /\ \A m \in Ids : message[m].symbol = s =>
           SumFunction([l \in Ids |-> disposed[<<m, l>>]]) <= message[m].amount

(* The cash of the LedgerSnapshot row is left out: the row is fed by       *)
(* PORTFOLIO_UPDATED only, which a change of cash alone does not cause.    *)
Current(row) ==
  IF row[1] = "LedgerSnapshot"
  THEN rows[row].positions = saved["actual"].positions
  ELSE Shown(row, rows[row]) = Shown(row, saved["actual"])

(* Every row of the read models comes to show the account, however the     *)
(* events of its saves are delayed, reordered and repeated, as long as     *)
(* nothing is booked to the simulated stream of the tenant: once there is, *)
(* its snapshots reach the same rows, for only one handler looks at the    *)
(* stream.  That handler's rows come to show the simulated stream, and the *)
(* actual one never gets into them.                                        *)
RowsCatchUp ==
  /\ [](saved["simulated"].last = 0) =>
       <>[](\A row \in DOMAIN rows : ActualRow(row) => Current(row))
  /\ <>[](\A row \in DOMAIN rows :
            ~ActualRow(row) => Shown(row, rows[row]) = Shown(row, saved["simulated"]))

Executed ==
  /\ verdict.result = "APPROVED"
  /\ \A t \in packet.trades : OrderOf[t.symbol] \in recorded

(* The packet was made from the holdings the account had, and nobody else  *)
(* traded since.                                                           *)
Grounded ==
  /\ \A x \in Symbols : Quantity(basis.row, x) = Quantity(basis.account, x)
  /\ \A m \in Ids \ Orders :
       message[m].kind \in {"BUY", "SELL"} => m \in basis.recorded

After(x) == Quantity(Account("actual"), x)

Before(x) == Quantity(basis.account, x)

Target(x) == Goal(basis.allocation, x, packet.value)

MicroTrade == Max({1, Round(packet.value * MICRO_TRADE_EPSILON_BPS, 10000)})

(* When the trades of a packet are filled, every holding is at its target  *)
(* but for less than a micro trade, what the target does not name          *)
(* included: the packet is enough to get from the account to the target,   *)
(* and the reducer drops none of its entries.                              *)
PacketReachesTarget ==
  Executed /\ Grounded =>
    \A x \in Symbols : Magnitude(After(x) - Target(x)) < MicroTrade

(* What the packet counted on beyond the cash there was: a deposit that    *)
(* the row shows already and the trigger carries again, or a withdrawal    *)
(* that is recorded and that the row, which a change of cash alone does    *)
(* not refresh, does not show.                                             *)
Overstated ==
  Max({0, basis.row.cash + basis.trigger
            - (basis.account.cash + basis.unrecorded)})

(* The trades of a packet overdraw the account by no more than what it     *)
(* counted on and was not there, and the rounding, when no cash has been   *)
(* withdrawn since and the weights of the target are at most the whole     *)
(* (they are compared only with an exposure the agent states itself).      *)
PacketIsFunded ==
  /\ Executed /\ Grounded
  /\ SumFunction(basis.allocation) <= 100
  /\ \A m \in Ids : message[m].kind = "WITHDRAWAL" => m \in basis.recorded
  => Account("actual").cash + Unrecorded
       >= -Overstated - Cardinality(Symbols) * MicroTrade

(* No approved packet buys a holding past the concentration limit of the   *)
(* operating mode; what is done on the authority of the mandate alone      *)
(* stays within its thresholds for one trade and for the whole, an initial *)
(* build included, which the rules exempt from both; and an initial build  *)
(* leaves no more equity than the risk category allows.                    *)
ConcentrationHeld ==
  \A t \in packet.trades : t.side = "BUY" =>
    100 * (After(t.symbol) - 1)
      <= packet.value * GuardrailParams[verdict.mode].concentration

AuthorityHeld ==
  verdict.level = "L1" =>
    /\ \A x \in Symbols : 100 * Magnitude(After(x) - Before(x))
                            <= packet.value * GuardrailParams[verdict.mode].single
    /\ 100 * SumFunction([x \in Symbols |-> Magnitude(After(x) - Before(x))])
         <= packet.value * GuardrailParams[verdict.mode].turnover

SuitabilityHeld ==
  InitialBuild(packet) =>
    100 * (SumFunction([x \in {y \in Symbols : AssetClass[y] = "EQUITY"} |-> After(x)])
             - Cardinality(Symbols))
      <= packet.value * MaxEquity[packet.risk]

ExecutedWithinLimits ==
  Executed /\ Grounded => ConcentrationHeld /\ AuthorityHeld /\ SuitabilityHeld
=============================================================================
