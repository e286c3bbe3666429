------------------------------ MODULE Replica ------------------------------
(***************************************************************************)
(* What a consumer's table owes to the events it is made of, with no       *)
(* stream, no queue, no batches and no retries: an event leaves a mark     *)
(* only after it has happened; its writes come in the handler's order,     *)
(* each of them has its effect once, and the row it waits for was there    *)
(* before; the projected row only ever moves to a newer version.           *)
(* Delivery.tla is shown to implement this.                                *)
(***************************************************************************)
EXTENDS Integers

CONSTANTS
  Events,     \* a number each, which is also the version it carries
  Awaits      \* the event whose row an event waits for, or itself

VARIABLES
  happened,   \* events of the producers so far
  recorded,   \* events with a row of their own
  added,      \* how often each event was added to the total
  row         \* the version of the projected row

rvars == <<happened, recorded, added, row>>

Init ==
  /\ happened \subseteq Events
  /\ recorded = {} /\ added = [e \in Events |-> 0] /\ row = 0

Happen(e) ==
  /\ happened' = happened \union {e}
  /\ UNCHANGED <<recorded, added, row>>

Record(e) ==
  /\ e \in happened
  /\ Awaits[e] = e \/ Awaits[e] \in recorded
  /\ recorded' = recorded \union {e}
  /\ UNCHANGED <<happened, added, row>>

Add(e) ==
  /\ e \in recorded /\ added[e] = 0
  /\ added' = [added EXCEPT ![e] = 1]
  /\ UNCHANGED <<happened, recorded, row>>

Project(e) ==
  /\ e \in recorded /\ added[e] = 1 /\ row < e
  /\ row' = e
  /\ UNCHANGED <<happened, recorded, added>>

Next == \E e \in Events : Happen(e) \/ Record(e) \/ Add(e) \/ Project(e)

Spec == Init /\ [][Next]_rvars
=============================================================================
