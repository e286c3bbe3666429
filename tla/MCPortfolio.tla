---------------------------- MODULE MCPortfolio -----------------------------
(* Instances of Portfolio for TLC.                                         *)
EXTENDS Portfolio

EventIds == {"d1", "b1", "b2", "w1", "s1", "s2", "oA", "oB"}
EventAt == [b1 |-> 1, b2 |-> 2, s1 |-> 3, s2 |-> 4, d1 |-> 5, w1 |-> 6,
            oA |-> 7, oB |-> 8]
TwoSymbols == {"A", "B"}
OrderOfSymbol == [A |-> "oA", B |-> "oB"]
ClassOf == [A |-> "EQUITY", B |-> "FIXED_INCOME"]

(* Weights on both sides of each limit: concentration 20, 30 and 40,       *)
(* equity 30, 60 and 90, one trade 5, 10 and 20, turnover 10, 25 and 50;   *)
(* an allocation that does not name what is held, and one of more than the *)
(* whole.                                                                  *)
Targets ==
  {[A |-> 4, B |-> 5], [A |-> 15, B |-> 30], [A |-> 35, B |-> 40],
   [A |-> 95], [B |-> 8], [A |-> 90, B |-> 20]}

Mandate(level, status, effective, mode) ==
  [level |-> level, status |-> status, operatingMode |-> mode,
   effective |-> effective]

MandateCopies ==
  {NoMandate, Mandate("DISCRETIONARY", "ACTIVE", TRUE, "CONSERVATIVE"),
   Mandate("DISCRETIONARY", "ACTIVE", TRUE, "BALANCED"),
   Mandate("DISCRETIONARY", "ACTIVE", TRUE, "AGGRESSIVE"),
   Mandate("ADVISORY", "ACTIVE", TRUE, "AGGRESSIVE"),
   Mandate("DISCRETIONARY", "REVOKED", TRUE, "BALANCED"),
   Mandate("DISCRETIONARY", "ACTIVE", FALSE, "BALANCED")}

-----------------------------------------------------------------------------

Event(kind, symbol, amount, live) ==
  [kind |-> kind, symbol |-> symbol, amount |-> amount, live |-> live]

NoEvents == [m \in EventIds |-> NoMessage]

Actual(last, cash, positions) ==
  [stream |-> "actual", last |-> last, cash |-> cash, positions |-> positions]

Scenario(messages, account, watched) ==
  [message |-> messages, account |-> account, watched |-> watched,
   triggers |-> {}, faults |-> MaxFaults, shadowed |-> TRUE]

(* Live purchases and sales of one symbol: two lots, a sale that spans     *)
(* them or ends within the first, and another; a sale may be handled       *)
(* before the purchases, or at the same time as the other.  With one lot   *)
(* or one sale less, an event may be handled twice.                        *)
Trades(bought, sale, sold) ==
  [NoEvents EXCEPT !["b1"] = Event("BUY", "A", 2, TRUE),
                   !["b2"] = bought,
                   !["s1"] = Event("SELL", "A", sale, TRUE),
                   !["s2"] = sold]

LotScenarios ==
  LET bought == Event("BUY", "A", 2, TRUE)
      sold == Event("SELL", "A", 1, TRUE)
  IN  {Scenario(Trades(bought, n, sold), NoSnapshot, {}) : n \in {1, 3}}
      \union
      {[Scenario(messages, NoSnapshot, {}) EXCEPT !.faults = MaxFaults - 1] :
         messages \in {Trades(bought, 3, NoMessage), Trades(NoMessage, 1, sold)}}

(* A deposit, a withdrawal that may come too soon, a purchase and a sale   *)
(* of all of it on an empty or an old account, and two rows at a time.     *)
ViewScenarios ==
  {Scenario([NoEvents EXCEPT !["d1"] = Event("DEPOSIT", "A", 4, FALSE),
                             !["w1"] = Event("WITHDRAWAL", "A", 3, FALSE),
                             !["b1"] = Event("BUY", "A", 2, FALSE),
                             !["s1"] = Event("SELL", "A", 2, FALSE)],
            account, watched) :
     account \in {NoSnapshot, Actual(3, 5, [A |-> 2])},
     watched \in {{<<"PortfolioLatest", "">>, <<"Position", "A">>},
                  {<<"PortfolioSummary", "">>, <<"PositionSnapshot", "A">>},
                  {<<"TimeTravelAvailability", "">>, <<"CashBalance", "">>},
                  {<<"LedgerSnapshot", "">>}}}

Deciding(messages, account, amounts) ==
  [Scenario(messages, account, {<<"LedgerSnapshot", "">>})
     EXCEPT !.triggers = amounts]

(* A decision on an empty account and on one that holds a symbol, with a   *)
(* deposit that the row may show or not; while a purchase is under way,    *)
(* while a withdrawal is; and on an account that is nearly invested.       *)
DecisionScenarios ==
  {Deciding([NoEvents EXCEPT !["d1"] = Event("DEPOSIT", "A", 200, FALSE)],
            account, {0, 200}) :
     account \in {NoSnapshot, Actual(2, 100, [A |-> 100])}}
  \union
  {Deciding([NoEvents EXCEPT !["b1"] = Event("BUY", "A", 50, FALSE)],
            Actual(2, 200, [B |-> 40]), {0}),
   Deciding([NoEvents EXCEPT !["w1"] = Event("WITHDRAWAL", "A", 60, FALSE)],
            Actual(1, 100, <<>>), {0}),
   Deciding(NoEvents, Actual(2, 5, [A |-> 45]), {0})}

(* A decision whose trades are simulated while some are filled.            *)
SimulationScenarios ==
  {[Deciding(NoEvents, Actual(1, 100, <<>>), {0})
     EXCEPT !.shadowed = FALSE,
            !.watched = {<<"LedgerSnapshot", "">>} \union sim] :
     sim \in {{<<"Simulation", "">>}, {<<"SimulationPosition", "A">>}}}

AllScenarios ==
  LotScenarios \union ViewScenarios \union DecisionScenarios
    \union SimulationScenarios

=============================================================================
