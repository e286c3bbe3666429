----------------------------- MODULE MCStaging -----------------------------
(* An instance of Staging for TLC: one decision with two trades that share *)
(* a symbol.                                                               *)
EXTENDS Staging, TLC

CONSTANTS m1, o1, o2

OneMessage == {m1}
TwoOrders == {o1, o2}
OneMessageOrders == (m1 :> <<o1, o2>>)
SameSymbol == (o1 :> "VTI") @@ (o2 :> "VTI")
=============================================================================
