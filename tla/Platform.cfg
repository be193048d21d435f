SPECIFICATION Spec
CONSTANTS
    t1 = t1  t2 = t2  o1 = o1  n1 = n1
    Tablets = {t1, t2}
    MaxCopies = 1
    Cap = 1
    MaxDrops = 0
    Orders = {o1}
    Notices = {n1}
    OrderOf <- MCOrderOf
    MaxShifts = 2
    MaxDay = 2
SYMMETRY Same
INVARIANTS
    SoldAsAccepted
    PaidInItsCount
CHECK_DEADLOCK FALSE
