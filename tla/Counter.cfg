SPECIFICATION Spec
CONSTANTS
    o1 = o1  o2 = o2  l1 = l1  l2 = l2
    cash = cash  card = card  platform = platform
    NoLine = NoLine  NoRow = NoRow  NoHold = NoHold
    Orders = {o1}
    Lines = {l1, l2}
    Keys = {k1, k2}
    Methods = {cash}
    DrawerMethods = {cash}
    PlatformMethods = {}
    PlatformOrders = {}
    NeedsPrep = {l1}
    Price <- MCPrice
    Fee <- FeeOnFirst
    Asked = {"lista"}
    MaxAmount = 2
    MaxDiscount = 1
    MaxTip = 0
    MaxShifts = 1
INVARIANTS
    NumbersUnique
    CancelledKeepsNoSale
    StockOnce
    BillFollowsLines
PROPERTIES
    NeverOverpaid
    CancelledIsFinal
CHECK_DEADLOCK FALSE
