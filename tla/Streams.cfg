SPECIFICATION Spec
CONSTANTS
    t1 = t1  t2 = t2  o1 = o1  n1 = n1
    Tablets = {t1}
    MaxCopies = 2
    Cap = 1
    MaxDrops = 1
    Orders = {o1}
    Notices = {n1}
    OrderOf <- MCOrderOf
    MaxShifts = 0
    MaxDay = 1
INVARIANT
    TypeOK
PROPERTIES
    ScreensFollow
    StopsInTime
CHECK_DEADLOCK FALSE
