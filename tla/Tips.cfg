SPECIFICATION Spec
CONSTANTS
    o1 = o1  p1 = p1  p2 = p2
    Registers = {r1, r2}
    FirstToSell = r1
    Orders = {o1}
    Payments = {p1, p2}
    OrderOf <- OneOrder
    CashPayments = {p1}
    Tablets = {t1, t2}
    Tip <- TwoAndOne
    MaxShifts = 3
SYMMETRY Same
INVARIANTS
    TipsConserved
CHECK_DEADLOCK FALSE
