------------------------------- MODULE Advice -------------------------------
(***************************************************************************)
(* The arithmetic of a decision: the packet decision-workflow-ctrl         *)
(* assembles from the projected ledger snapshot and the target allocation, *)
(* and the rules compliance-ctrl evaluates on it.  Amounts are integers,   *)
(* weights are percentages.                                                *)
(***************************************************************************)
EXTENDS LedgerViews

CONSTANTS
  Allocations,   \* target allocations: weights of the symbols they name
  AssetClass,    \* "EQUITY" or another class, for each symbol
  Mandates       \* mandate copies of compliance-ctrl, NoMandate among them

NoMandate == [level |-> "none", status |-> "none", operatingMode |-> "none",
              effective |-> FALSE]

RiskCategories == {"CONSERVATIVE", "MODERATE", "AGGRESSIVE"}

MICRO_TRADE_EPSILON_BPS == 100

ASSUME AdviceAssumption ==
  /\ AssetClass \in [Symbols -> STRING]
  /\ \A a \in Allocations : \E named \in SUBSET Symbols : a \in [named -> 0 .. 100]
  /\ \A mandate \in Mandates \ {NoMandate} :
       mandate.operatingMode \in {"CONSERVATIVE", "BALANCED", "AGGRESSIVE"}

VARIABLES
  packet,        \* the assembled packet, as RECOMMENDATION_PROPOSED has it
  verdict        \* the ComplianceCheck row

adviceVars == <<packet, verdict>>

NoPacket == [made |-> FALSE, value |-> 0, trades |-> {}, positions |-> {},
             risk |-> "MODERATE"]

NoVerdict == [result |-> "none", level |-> "none", mode |-> "none"]

AdviceInit == packet = NoPacket /\ verdict = NoVerdict

-----------------------------------------------------------------------------
(* assemble-packet.ts                                                      *)

(* Math.round(n / d)                                                       *)
Round(n, d) == (2 * n + d) \div (2 * d)

Goal(allocation, x, value) ==
  IF x \in DOMAIN allocation THEN Round(allocation[x] * value, 100) ELSE 0

Magnitude(n) == IF n < 0 THEN -n ELSE n

Trade(s, allocation, value, x) ==
  LET delta == Goal(allocation, x, value) - Quantity(s, x) IN
  [symbol |-> x,
   side   |-> IF delta > 0 THEN "BUY" ELSE "SELL",
   amount |-> Magnitude(delta),
   weight |-> IF x \in DOMAIN allocation THEN allocation[x] ELSE 0,
   class  |-> IF x \in DOMAIN allocation THEN AssetClass[x] ELSE "OTHER"]

(* Mutant: what is held and not in the target is kept.                     *)
TradesOfTargets(s, allocation, value) ==
  {t \in {Trade(s, allocation, value, x) : x \in DOMAIN allocation} :
     t.amount > 0 /\ t.amount >= Round(value * MICRO_TRADE_EPSILON_BPS, 10000)}

(* Every symbol of the target whose holding differs, and everything held   *)
(* that is not in the target, but for micro trades.                        *)
ProposedTrades(s, allocation, value) ==
  {t \in {Trade(s, allocation, value, x) : x \in DOMAIN allocation \union Held(s)} :
     t.amount > 0 /\ t.amount >= Round(value * MICRO_TRADE_EPSILON_BPS, 10000)}

(* Mutant: the amount of the trigger is added twice.                       *)
AssemblePacketTwice(snapshot, trigger, allocation, risk) ==
  /\ ~packet.made
  /\ LET value == PositionsValue(snapshot) + snapshot.cash + 2 * trigger IN
     packet' = [made |-> TRUE, value |-> value, risk |-> risk,
                trades |-> ProposedTrades(snapshot, allocation, value),
                positions |-> Held(snapshot)]
  /\ UNCHANGED verdict

(* A missing LedgerSnapshot row is the empty account; the amount of a      *)
(* deposit that triggered the cycle is added to what the row says.         *)
AssemblePacket(snapshot, trigger, allocation, risk) ==
  /\ ~packet.made
  /\ LET value == PositionsValue(snapshot) + snapshot.cash + trigger IN
     packet' = [made |-> TRUE, value |-> value, risk |-> risk,
                trades |-> ProposedTrades(snapshot, allocation, value),
                positions |-> Held(snapshot)]
  /\ UNCHANGED verdict

InitialBuild(p) == p.positions = {}

-----------------------------------------------------------------------------
(* compliance-ctrl: rules/                                                 *)

GuardrailParams ==
  [CONSERVATIVE |-> [single |-> 5,  turnover |-> 10, concentration |-> 20],
   BALANCED     |-> [single |-> 10, turnover |-> 25, concentration |-> 30],
   AGGRESSIVE   |-> [single |-> 20, turnover |-> 50, concentration |-> 40]]

MaxEquity == [CONSERVATIVE |-> 30, MODERATE |-> 60, AGGRESSIVE |-> 90]

Total(trades) == SumFunction([t \in trades |-> t.amount])

Oversized(p, mode) ==
  \E t \in p.trades : 100 * t.amount > p.value * GuardrailParams[mode].single

TurnsOver(p, mode) ==
  100 * Total(p.trades) > p.value * GuardrailParams[mode].turnover

(* The packet's positions carry symbol and market value, the rule looks    *)
(* for ticker and weight: it finds no position and takes 0 for the current *)
(* weight, so that a SELL always passes.                                   *)
Concentrated(p, mode) ==
  \E t \in p.trades :
    t.side = "BUY" /\ t.weight > GuardrailParams[mode].concentration

EquityChange(trades) ==
  LET equity(side) == {t \in trades : t.class = "EQUITY" /\ t.side = side}
      weight == [t \in trades |-> t.weight]
  IN  SumFunctionOnSet(weight, equity("BUY"))
        - SumFunctionOnSet(weight, equity("SELL"))

(* For the same reason the sum of the current weights is not a number as   *)
(* soon as there is a position, and no number exceeds the maximum.         *)
Unsuitable(p) ==
  InitialBuild(p) /\ EquityChange(p.trades) > MaxEquity[p.risk]

InForce(mandate) == mandate.status # "REVOKED" /\ mandate.effective

(* Mutant: the skip of an initial build covers the concentration limit.    *)
ViolatesTradesOnly(p, mandate) ==
  \/ ~InForce(mandate)
  \/ /\ ~InitialBuild(p)
     /\ \/ Oversized(p, mandate.operatingMode)
        \/ TurnsOver(p, mandate.operatingMode)
        \/ Concentrated(p, mandate.operatingMode)
  \/ Unsuitable(p)

(* Every violation is of severity BLOCKING.                                *)
Violates(p, mandate) ==
  \/ ~InForce(mandate)
  \/ /\ ~InitialBuild(p)
     /\ \/ Oversized(p, mandate.operatingMode)
        \/ TurnsOver(p, mandate.operatingMode)
  \/ Concentrated(p, mandate.operatingMode)
  \/ Unsuitable(p)

(* The thresholds count for the authority in an initial build too.         *)
Authority(p, mandate) ==
  IF \/ mandate.status = "REVOKED" \/ mandate.level = "ADVISORY"
     \/ Violates(p, mandate)
     \/ Oversized(p, mandate.operatingMode) \/ TurnsOver(p, mandate.operatingMode)
  THEN "L2" ELSE "L1"

CheckCompliance(mandate) ==
  /\ packet.made /\ verdict.result = "none"
  /\ verdict' =
       IF mandate = NoMandate
       THEN [result |-> "BLOCKED", level |-> "L2", mode |-> "CONSERVATIVE"]
       ELSE [result |-> IF Violates(packet, mandate) THEN "BLOCKED" ELSE "APPROVED",
             level |-> Authority(packet, mandate),
             mode |-> mandate.operatingMode]
  /\ UNCHANGED packet

=============================================================================
