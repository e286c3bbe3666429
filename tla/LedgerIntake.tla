---------------------------- MODULE LedgerIntake ----------------------------
(***************************************************************************)
(* ledger-ctrl: the handler of funding and order events for one tenant,    *)
(* with its FIFO tax lots.  For every event it records a ledger entry;     *)
(* then, for the fill of a live order, a BUY puts a tax lot and a SELL     *)
(* reads the open lots, writes down each lot it draws on, oldest first,    *)
(* and puts one disposition per lot.  All of these are requests of their   *)
(* own, made again when the event is delivered again.  The lots are read   *)
(* by an eventually consistent query, and written back unconditionally.    *)
(*                                                                         *)
(* Ledger.tla has the two requests that record an entry and the reducer's  *)
(* retries; here an entry is recorded in one step.  Prices are 1.          *)
(***************************************************************************)
EXTENDS Integers, Sequences, FiniteSets, SequencesExt

CONSTANTS
  Ids,          \* events of this tenant, and the orders of its packet
  Symbols,
  At,           \* rank of an event's timestamp
  MaxFaults     \* bound on crashes and redeliveries in one behaviour

ASSUME LedgerIntakeAssumption ==
  /\ IsFiniteSet(Ids)
  /\ At \in [Ids -> Nat]
  /\ \A a, b \in Ids : At[a] = At[b] => a = b
  /\ MaxFaults \in Nat

VARIABLES
  message,      \* the events that were published
  work,         \* the handler execution of each event
  recorded,     \* sort keys Event#<eventId> in the ledger
  booked,       \* entries of each stream the reducer has not consumed
  lots,         \* TaxLot rows, one for the BUY that put it
  disposed,     \* quantitySold of the DispositionRecord of a sale and a lot
  images,       \* every value a TaxLot row has had, its absence included
  torn,         \* symbols of which a lot was written from what it was not
  faults

intakeVars == <<message, work, recorded, booked, lots, disposed, images, torn,
               faults>>

Streams == {"actual", "simulated"}

Message == [kind : {"none", "DEPOSIT", "WITHDRAWAL", "BUY", "SELL"},
            symbol : Symbols, amount : Nat, live : BOOLEAN]

NoMessage == [kind |-> "none", symbol |-> CHOOSE s \in Symbols : TRUE,
              amount |-> 0, live |-> FALSE]

NoLot == [status |-> "none", shares |-> 0]

Waiting == [pc |-> "new", todo |-> {}, sold |-> [l \in Ids |-> 0],
            left |-> [l \in Ids |-> 0]]

IntakeInit ==
  /\ work = [m \in Ids |-> Waiting]
  /\ recorded = {}
  /\ booked = [s \in Streams |-> <<>>]
  /\ lots = [l \in Ids |-> NoLot]
  /\ disposed = [p \in Ids \X Ids |-> 0]
  /\ images = [l \in Ids |-> {NoLot}]
  /\ torn = {}

Goto(m, pc) == work' = [work EXCEPT ![m].pc = pc]

Finished(m) == work' = [work EXCEPT ![m] = [Waiting EXCEPT !.pc = "done"]]

-----------------------------------------------------------------------------

HasLots(m) == message[m].live /\ message[m].kind \in {"BUY", "SELL"}

(* putIfNotExists: a second delivery of the event finds its entry, which   *)
(* is logged only; the tax lots are done again.                            *)
RecordEntry(m) ==
  /\ message[m].kind # "none" /\ work[m].pc = "new"
  /\ recorded' = recorded \union {m}
  /\ booked' = IF m \in recorded THEN booked
               ELSE [booked EXCEPT !["actual"] = Append(@, message[m])]
  /\ IF HasLots(m) THEN Goto(m, "lots") ELSE Finished(m)
  /\ UNCHANGED <<message, lots, disposed, images, torn, faults>>

PutLot(l, row) ==
  /\ lots' = [lots EXCEPT ![l] = row]
  /\ images' = [images EXCEPT ![l] = @ \union {row}]

Tear(m, broken) ==
  torn' = IF broken THEN torn \union {message[m].symbol} ELSE torn

(* An unconditional put of the lot of this order: handled again, it undoes *)
(* what was sold of the lot since.                                         *)
OpenLot(m) ==
  LET lot == [status |-> "open", shares |-> message[m].amount] IN
  /\ work[m].pc = "lots" /\ message[m].kind = "BUY"
  /\ PutLot(m, lot)
  /\ Finished(m)
  /\ Tear(m, lots[m] \notin {NoLot, lot})
  /\ UNCHANGED <<message, recorded, booked, disposed, faults>>

LotsOf(s) == {l \in Ids : lots[l].status # "none" /\ message[l].symbol = s}

(* What the query may return: each row as it is, or as it once was.        *)
QueriedLots(s) ==
  {read \in [LotsOf(s) -> UNION {images[l] : l \in LotsOf(s)}] :
     \A l \in LotsOf(s) : read[l] \in images[l]}

(* Mutant: each lot is drawn on for the whole sale.                        *)
WholeFromLot(l, held, open, quantity) == Min({held[l], quantity})

(* The share of a sale that falls on a lot: what the lots acquired earlier *)
(* leave of it, and at most the lot.                                       *)
FromLot(l, held, open, quantity) ==
  LET older == {k \in open : At[k] < At[l]}
      remaining == quantity - SumFunctionOnSet(held, older)
  IN  IF remaining <= 0 THEN 0 ELSE Min({held[l], remaining})

Selling(m) == work[m].pc \in {"update", "dispose"}

(* A sale has read the lot and has yet to write it down.                   *)
Claimed(l) == \E k \in Ids : work[k].pc = "update" /\ l \in work[k].todo

(* getOpenLotsBySymbol, and the split of the sale over the lots read.      *)
ReadLots(m) ==
  /\ work[m].pc = "lots" /\ message[m].kind = "SELL"
  /\ \E read \in QueriedLots(message[m].symbol) :
       LET open == {l \in DOMAIN read : read[l].status = "open"}
           held == [l \in Ids |-> IF l \in open THEN read[l].shares ELSE 0]
           sold == [l \in Ids |-> IF l \in open
                      THEN FromLot(l, held, open, message[m].amount) ELSE 0]
           drawn == {l \in open : sold[l] > 0}
       IN  /\ IF drawn = {} THEN Finished(m)
              ELSE work' = [work EXCEPT ![m] =
                     [pc |-> "update", todo |-> drawn, sold |-> sold,
                      left |-> [l \in Ids |-> held[l] - sold[l]]]]
           /\ Tear(m, \E l \in drawn : read[l] # lots[l] \/ Claimed(l))
  /\ UNCHANGED <<message, recorded, booked, lots, disposed, images, faults>>

Oldest(set) == CHOOSE l \in set : \A k \in set : At[l] <= At[k]

(* closeTaxLot leaves the quantity; updateTaxLotQuantity writes what the   *)
(* execution computed when it read the lots.                               *)
UpdateLot(m) ==
  /\ work[m].pc = "update"
  /\ LET l == Oldest(work[m].todo) IN
       /\ PutLot(l, IF work[m].left[l] = 0 THEN [lots[l] EXCEPT !.status = "closed"]
                    ELSE [lots[l] EXCEPT !.shares = work[m].left[l]])
       /\ work' = [work EXCEPT ![m] =
            IF work[m].todo = {l}
            THEN [@ EXCEPT !.pc = "dispose",
                           !.todo = {k \in Ids : work[m].sold[k] > 0}]
            ELSE [@ EXCEPT !.todo = work[m].todo \ {l}]]
  /\ UNCHANGED <<message, recorded, booked, disposed, torn, faults>>

PutDisposition(m) ==
  /\ work[m].pc = "dispose"
  /\ LET l == Oldest(work[m].todo) IN
       /\ disposed' = [disposed EXCEPT ![<<m, l>>] = work[m].sold[l]]
       /\ IF work[m].todo = {l} THEN Finished(m)
          ELSE work' = [work EXCEPT ![m].todo = @ \ {l}]
  /\ UNCHANGED <<message, recorded, booked, lots, images, torn, faults>>

(* A lot has been written down for the sale: handled again, it sells again.*)
Begun(m) ==
  \E l \in Ids :
    \/ disposed[<<m, l>>] > 0
    \/ work[m].sold[l] > 0 /\ (work[m].pc = "dispose" \/ l \notin work[m].todo)

(* SQS hands the event out again: its execution died between two requests, *)
(* or finished and was not acknowledged.                                   *)
RedeliverEvent(m) ==
  /\ work[m].pc # "new"
  /\ faults < MaxFaults
  /\ faults' = faults + 1
  /\ work' = [work EXCEPT ![m] = Waiting]
  /\ Tear(m, Begun(m))
  /\ UNCHANGED <<message, recorded, booked, lots, disposed, images>>

HandleEvent(m) ==
  RecordEntry(m) \/ OpenLot(m) \/ ReadLots(m) \/ UpdateLot(m) \/ PutDisposition(m)

=============================================================================
