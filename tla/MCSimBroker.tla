----------------------------- MODULE MCSimBroker -----------------------------
EXTENDS SimBroker

CONSTANTS x1, x2, x3, o1, o2, o3, d1, w1, w2

(* x1 and x2 are started by the same order.                                *)
OneOrderTwice == [x \in {x1, x2, x3} |-> IF x = x3 THEN o2 ELSE o1]

Pairs == {{x1, x2}, {x1, x3}, {x3, w1}, {d1, w1}, {w1, w2}}
TwoOrders == {{x1, x3}}
=============================================================================
