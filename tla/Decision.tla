------------------------------ MODULE Decision ------------------------------
(***************************************************************************)
(* What a decision cycle promises, with no execution, no task tokens, no   *)
(* callbacks and no versions: a verdict is given once and decides, or has  *)
(* the user asked; an answer decides only what was asked, and only a later *)
(* answer takes its place; nothing is ordered without a verdict that       *)
(* allows it; and what the user is shown was so once, and never goes back. *)
(* DecisionCycle.tla is shown to implement this.                           *)
(***************************************************************************)
EXTENDS Integers

VARIABLES
  verdict,    \* compliance's verdict, or "none"
  decision,   \* "none", "asked", or the outcome
  been,       \* what the decision has been so far
  shown,      \* what of it the user is shown
  ordered     \* its trades are ordered

dvars == <<verdict, decision, been, shown, ordered>>

Outcomes ==
  [L1 |-> {"APPROVED"}, L2 |-> {"CONFIRMED", "REJECTED"}, BLOCKED |-> {"BLOCKED"}]

(* A question comes after none, and an outcome after the question.         *)
Rank(d) == IF d = "none" THEN 0 ELSE IF d = "asked" THEN 1 ELSE 2

Init ==
  /\ verdict = "none" /\ decision = "none" /\ been = {"none"}
  /\ shown = "none" /\ ordered = FALSE

Judge ==
  /\ verdict = "none"
  /\ verdict' \in DOMAIN Outcomes
  /\ UNCHANGED <<decision, been, shown, ordered>>

Become(d) ==
  /\ decision' = d /\ been' = been \union {d}
  /\ UNCHANGED <<verdict, shown, ordered>>

Ask == verdict = "L2" /\ decision = "none" /\ Become("asked")

Decide ==
  /\ verdict # "none"
  /\ verdict = "L2" => decision # "none"
  /\ \E d \in Outcomes[verdict] : Become(d)

Show ==
  /\ \E d \in been : Rank(shown) <= Rank(d) /\ shown' = d
  /\ UNCHANGED <<verdict, decision, been, ordered>>

Order ==
  /\ verdict \in {"L1", "L2"}
  /\ ordered' = TRUE
  /\ UNCHANGED <<verdict, decision, been, shown>>

Next == Judge \/ Ask \/ Decide \/ Show \/ Order

Spec == Init /\ [][Next]_dvars
=============================================================================
