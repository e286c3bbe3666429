-------------------------- MODULE MCDecisionCycle --------------------------
(* Instances of DecisionCycle for TLC: the clicks are model values.        *)
EXTENDS DecisionCycle
=============================================================================
