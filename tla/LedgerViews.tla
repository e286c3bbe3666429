---------------------------- MODULE LedgerViews -----------------------------
(***************************************************************************)
(* What becomes of a tenant's two account streams: the reducer saves       *)
(* snapshots, the snapshot publisher of ledger-ctrl makes events of each   *)
(* save, and ledger-bff, dashboard-bff, investor-bff and                   *)
(* decision-workflow-ctrl project the events into rows of their own, each  *)
(* row under a guard on lastEventSequence.                                 *)
(*                                                                         *)
(* A row is modelled by the snapshot it was last projected from; Shown     *)
(* says which part of it the row holds.                                    *)
(***************************************************************************)
EXTENDS LedgerIntake

CONSTANT InitialCash    \* INITIAL_ACCOUNT_STATE.cashBalanceCents

ASSUME ViewsAssumption == InitialCash \in Nat

VARIABLES
  saved,       \* Snapshot#latest of each stream
  published,   \* the events of the saves; each may be delivered any time
  rows         \* the watched rows of the read models

viewVars == <<saved, published, rows>>

(* Positions holds every symbol that was ever bought, with quantity 0      *)
(* after an exit; never a negative one.                                    *)
SnapshotOK(s) ==
  \E symbols \in SUBSET Symbols :
    s \in [stream : Streams, last : Nat, cash : Int, positions : [symbols -> Nat]]

(* Sequence 0 stands for no snapshot.                                      *)
NoSnapshot == [stream |-> "actual", last |-> 0, cash |-> 0, positions |-> <<>>]

Held(s) == {x \in DOMAIN s.positions : s.positions[x] > 0}

PositionsValue(s) == SumFunctionOnSet(s.positions, DOMAIN s.positions)

-----------------------------------------------------------------------------
Quantity(s, x) == IF x \in DOMAIN s.positions THEN s.positions[x] ELSE 0

WithQuantity(s, x, q) ==
  [y \in DOMAIN s.positions \union {x} |-> IF y = x THEN q ELSE s.positions[y]]

(* Mutant: nothing checks that there is enough to sell.                    *)
ApplyEveryEntry(s, e) ==
  LET q == Quantity(s, e.symbol)
      n == CASE e.kind = "BUY" -> e.amount [] e.kind = "SELL" -> -e.amount [] OTHER -> 0
  IN  [s EXCEPT !.last = @ + 1, !.cash = @ - n,
                !.positions = IF n = 0 THEN @ ELSE WithQuantity(s, e.symbol, q + n)]

(* accountReducer: a SELL of more than is held, a WITHDRAWAL of more than  *)
(* the cash leaves the account as it is (the command throws, the reducer   *)
(* keeps the state); a BUY may overdraw.                                   *)
ApplyEntry(s, e) ==
  LET q == Quantity(s, e.symbol)
      numbered == [s EXCEPT !.last = @ + 1]
  IN  CASE e.kind = "DEPOSIT" -> [numbered EXCEPT !.cash = @ + e.amount]
        [] e.kind = "WITHDRAWAL" /\ e.amount <= s.cash ->
             [numbered EXCEPT !.cash = @ - e.amount]
        [] e.kind = "BUY" ->
             [numbered EXCEPT !.cash = @ - e.amount,
                              !.positions = WithQuantity(s, e.symbol, q + e.amount)]
        [] e.kind = "SELL" /\ e.amount <= q ->
             [numbered EXCEPT !.cash = @ + e.amount,
                              !.positions = WithQuantity(s, e.symbol, q - e.amount)]
        [] OTHER -> numbered

(* Mutant: a change of cash alone makes no event.                          *)
EventsIfMoved(current, previous) ==
  LET changed == current.positions # previous.positions IN
  {<<type, current>> : type \in
     {"LEDGER_ENTRY_RECORDED"}
     \union (IF changed THEN {"PORTFOLIO_UPDATED", "BALANCE_UPDATED"} ELSE {})}

(* snapshotToEvents, carried by rows of their own whose insertion          *)
(* publishes them.                                                         *)
SnapshotToEvents(current, previous) ==
  LET first == previous.last = 0
      types == {"LEDGER_ENTRY_RECORDED"}
        \union (IF first \/ current.cash # previous.cash
                THEN {"BALANCE_UPDATED"} ELSE {})
        \union (IF first \/ current.positions # previous.positions
                THEN {"PORTFOLIO_UPDATED"} ELSE {})
  IN  {<<type, current>> : type \in types}

(* What the reducer starts from: a stream without a snapshot has an account*)
(* with InitialCash, the actual stream too; no read model shows it before  *)
(* the first entry is reduced.                                             *)
Base(stream) ==
  IF saved[stream].last = 0 THEN [saved[stream] EXCEPT !.cash = InitialCash]
  ELSE saved[stream]

(* One run of the reducer: some of the entries booked, in their order.     *)
Reduce(stream) ==
  /\ \E k \in 1 .. Len(booked[stream]) :
       LET entries == SubSeq(booked[stream], 1, k)
           current == FoldLeft(ApplyEntry, Base(stream), entries)
       IN  /\ saved' = [saved EXCEPT ![stream] = current]
           /\ published' = published
                \union SnapshotToEvents(current, saved[stream])
           /\ booked' = [booked EXCEPT ![stream] = SubSeq(@, k + 1, Len(@))]
  /\ UNCHANGED <<message, work, recorded, lots, disposed, images, torn, faults,
                 rows>>

-----------------------------------------------------------------------------
(* The read models.  A row is <<typename, symbol>>, the symbol empty where *)
(* the tenant has one row.                                                 *)

(* Which events a row is projected from.  Only ledger-bff's handler of     *)
(* LEDGER_ENTRY_RECORDED looks at the stream.                              *)
Feeds(row, event) ==
  LET type == event[1]
      s == event[2]
  IN  CASE row[1] \in {"PortfolioLatest", "CashBalance"} ->
             type = "BALANCE_UPDATED"
        [] row[1] \in {"Position", "PositionSnapshot"} ->
             type = "PORTFOLIO_UPDATED" /\ row[2] \in DOMAIN s.positions
        [] row[1] = "PortfolioSummary" ->
             type \in {"BALANCE_UPDATED", "PORTFOLIO_UPDATED"}
        [] row[1] = "LedgerSnapshot" -> type = "PORTFOLIO_UPDATED"
        [] row[1] = "TimeTravelAvailability" -> type = "LEDGER_ENTRY_RECORDED"
        [] row[1] = "Simulation" ->
             type = "LEDGER_ENTRY_RECORDED" /\ s.stream = "simulated"
        [] row[1] = "SimulationPosition" ->
             /\ type = "LEDGER_ENTRY_RECORDED" /\ s.stream = "simulated"
             /\ row[2] \in DOMAIN s.positions

(* What the row holds of the snapshot; zeros stand for the row of a symbol *)
(* that was never bought, which is not there.                              *)
Shown(row, s) ==
  CASE row[1] \in {"PortfolioLatest", "CashBalance"} -> s.cash
    [] row[1] \in {"Position", "SimulationPosition"} -> Quantity(s, row[2])
    [] row[1] = "PositionSnapshot" ->
         IF row[2] \in DOMAIN s.positions
         THEN <<s.positions[row[2]], PositionsValue(s)>> ELSE <<0, 0>>
    [] row[1] = "PortfolioSummary" -> <<s.cash, Held(s), PositionsValue(s)>>
    [] row[1] \in {"Simulation", "LedgerSnapshot"} -> <<s.cash, s.positions>>
    [] row[1] = "TimeTravelAvailability" -> s.last

(* Mutant: the put is unconditional.                                       *)
AnyVersion(row, s) == TRUE

(* projectVersioned: the row is new or holds an older version; a stale or  *)
(* repeated event is dropped.                                              *)
NewerVersion(row, s) == rows[row].last < s.last

Project(row) ==
  /\ \E event \in published :
       /\ Feeds(row, event)
       /\ NewerVersion(row, event[2])
       /\ rows' = [rows EXCEPT ![row] = event[2]]
  /\ UNCHANGED <<intakeVars, saved, published>>

ViewsNext ==
  \/ \E stream \in Streams : Reduce(stream)
  \/ \E row \in DOMAIN rows : Project(row)

=============================================================================
