----------------------------- MODULE MCSharedBill -----------------------------
(***************************************************************************)
(* The bills the runs of SharedBill begin with.                            *)
(***************************************************************************)
EXTENDS SharedBill, TLC

CONSTANTS t1, t2, k1, k2

Piece(o, qty, unit) == [home |-> o, qty |-> qty, unit |-> unit]

\* A discount that does not divide and a delivery fee, drinks nobody cooks.
Discounted ==
    [discount |-> (1 :> 5) @@ (2 :> 0) @@ (3 :> 0), fee |-> (1 :> 2) @@ (2 :> 0) @@ (3 :> 0), needsPrep |-> FALSE,
     payments |-> 3, rows |-> 3, parts |-> {2, 3}, typed |-> {4}, keys |-> {},
     lines |-> <<Piece(1, 2, 9), Piece(1, 2, 7)>>]

\* Two orders of odd prices, cooked.
TwoOrders ==
    [discount |-> [o \in 1..3 |-> 0], fee |-> (1 :> 0) @@ (2 :> 3) @@ (3 :> 0), needsPrep |-> TRUE,
     payments |-> 1, rows |-> 3, parts |-> {}, typed |-> {4}, keys |-> {k1, k2},
     lines |-> <<Piece(1, 2, 5), Piece(2, 2, 3)>>]

SmallBills == {Discounted, TwoOrders}

Same == Permutations(Tablets) \cup Permutations(MoveKeys)
=============================================================================
