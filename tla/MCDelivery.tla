----------------------------- MODULE MCDelivery -----------------------------
(* An instance of Delivery for TLC: the second change waits for the row of *)
(* the first, and a third event lacks its context.                         *)
EXTENDS Delivery

AllEvents == 1 .. Last + 1
TriggerEvents == {Last + 1}
AwaitsFirst == [e \in AllEvents |-> IF e = Last THEN 1 ELSE e]

ChangesAwaitFirst == [e \in Changes |-> IF e = Last THEN 1 ELSE e]
=============================================================================
