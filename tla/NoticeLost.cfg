SPECIFICATION Spec
CONSTANTS
    t1 = t1  t2 = t2  o1 = o1  n1 = n1
    Tablets = {t1}
    MaxCopies = 1
    Cap = 1
    MaxDrops = 0
    Orders = {o1}
    Notices = {n1}
    OrderOf <- MCOrderOf
    MaxShifts = 0
    MaxDay = 1
INVARIANT
    ConfirmedIsRegistered
CHECK_DEADLOCK FALSE
