----------------------------- MODULE TouchLedger ------------------------------
(***************************************************************************)
(* What capturing an account on several tablets promises of each touch: it *)
(* is kept in an account, and from there it either reaches the kitchen     *)
(* once or is thrown away, whatever is retried and whoever sends.          *)
(***************************************************************************)
CONSTANT Touches

VARIABLE fate

Init == fate = [x \in Touches |-> "unborn"]

\* Some touches move together from one fate to the next.
Pass(from, to) ==
    \E some \in SUBSET Touches :
        /\ some # {}
        /\ \A x \in some : fate[x] = from
        /\ fate' = [x \in Touches |-> IF x \in some THEN to ELSE fate[x]]

Capture == Pass("unborn", "held")

Cook == Pass("held", "cooked")

Drop == Pass("held", "dropped")

Next == Capture \/ Cook \/ Drop

Spec == Init /\ [][Next]_fate
=============================================================================
