---------------------------- MODULE MCCashDrawers ----------------------------
(***************************************************************************)
(* The constants of the runs of CashDrawers that are not model values.     *)
(***************************************************************************)
EXTENDS CashDrawers, TLC

CONSTANTS t1, t2, r1, r2, e1, p1, p2

\* Both payments are of the same expense.
OneExpense == [p \in Pays |-> e1]

\* Both tablets run everything about the expenses of one drawer.
ExpenseOps == [t \in Tablets |-> {"open", "close", "pay", "count", "cancel"}]

\* What each runs in several steps, crossed with the openings, closes, corrections and moves of
\* the sales of the other.
DrawerOps ==
    [t \in Tablets |-> {"open", "close", "sell", "correct"} \cup
                       IF t = t1 THEN {"cash", "update"} ELSE {"transfer"}]

Same == Permutations(Tablets)
=============================================================================
