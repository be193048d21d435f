SPECIFICATION Spec
CONSTANTS
    t1 = t1  t2 = t2  k1 = k1  k2 = k2
    Tablets = {t1, t2}
    Orders = {1, 2, 3}
    Bills <- SmallBills
    MoveKeys = {k1, k2}
    MaxPieces = 2
INVARIANTS
    TypeOK
    PiecesPaidOnce
    PaymentsFit
    NothingInvented
    MovedOnce
    NoWaitCycle
    BoardShowsPending
PROPERTIES
    LastPartSettles
SYMMETRY Same
CHECK_DEADLOCK FALSE
