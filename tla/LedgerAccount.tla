--------------------------- MODULE LedgerAccount ---------------------------
(***************************************************************************)
(* What the ledger promises about one account stream, with no sequence     *)
(* counter, no reducer, no snapshot versions: ledger entries are recorded  *)
(* for good, and each recorded entry enters the materialised account at    *)
(* most once and never leaves it.  Ledger.tla is shown to implement this.  *)
(***************************************************************************)
EXTENDS Integers

CONSTANT Entries    \* the ids of the ledger entries of the account

VARIABLES
  recorded,         \* the entries the ledger holds
  applied           \* how often each entry is part of the account

avars == <<recorded, applied>>

Init ==
  /\ recorded = {}
  /\ applied = [e \in Entries |-> 0]

Record(e) ==
  /\ e \notin recorded
  /\ recorded' = recorded \union {e}
  /\ UNCHANGED applied

(* A group of entries, all recorded and none yet in the account, enters it *)
(* together.                                                               *)
Apply(group) ==
  /\ group # {}
  /\ \A e \in group : applied[e] = 0
  /\ applied' = [e \in Entries |-> IF e \in group THEN 1 ELSE applied[e]]
  /\ UNCHANGED recorded

Next ==
  \/ \E e \in Entries : Record(e)
  \/ \E group \in SUBSET recorded : Apply(group)

Spec == Init /\ [][Next]_avars

=============================================================================
