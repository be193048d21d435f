--------------------------- MODULE MCOrderAccount ---------------------------
(***************************************************************************)
(* The constants of the runs of OrderAccount that are not model values.    *)
(***************************************************************************)
EXTENDS OrderAccount, TLC

CONSTANTS o1, o2, l1, l2, cash, card, platform

MCPrice == [l \in Lines |-> 1]

PriceTwo == [l \in Lines |-> 2]

NoFee == [o \in Orders |-> 0]

\* o1 is delivered for a fee, o2 is not.
FeeOnFirst == [o \in Orders |-> IF o = o1 THEN 1 ELSE 0]
=============================================================================
