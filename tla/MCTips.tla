------------------------------- MODULE MCTips -------------------------------
(***************************************************************************)
(* The constants of the run of Tips that are not model values.             *)
(***************************************************************************)
EXTENDS Tips, TLC

CONSTANTS o1, p1, p2

\* Both payments are of the same order.
OneOrder == [p \in Payments |-> o1]

\* A tip that can be handed out in two parts, and one that cannot.
TwoAndOne == [p \in Payments |-> IF p = p1 THEN 2 ELSE 1]

Same == Permutations(Tablets)
=============================================================================
