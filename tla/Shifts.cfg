SPECIFICATION Spec
CONSTANTS
    o1 = o1  o2 = o2  l1 = l1  l2 = l2
    cash = cash  card = card  platform = platform
    NoLine = NoLine  NoRow = NoRow  NoHold = NoHold
    Orders = {o1}
    Lines = {l1}
    Keys = {k1, k2}
    Methods = {cash, card}
    DrawerMethods = {cash}
    PlatformMethods = {}
    PlatformOrders = {}
    NeedsPrep = {}
    Price <- PriceTwo
    Fee <- NoFee
    Asked = {}
    MaxAmount = 2
    MaxDiscount = 0
    MaxTip = 1
    MaxShifts = 2
INVARIANTS
    TypeOK
    RefundsCovered
    SignedStands
    ShiftsReconcile
PROPERTIES
    LedgerImplemented
CHECK_DEADLOCK FALSE
