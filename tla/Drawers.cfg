SPECIFICATION Spec
CONSTANTS
    t1 = t1  t2 = t2  r1 = r1  r2 = r2  e1 = e1  p1 = p1  p2 = p2
    Tablets = {t1, t2}
    Registers = {r1, r2}
    FirstToSell = r1
    Expenses = {e1}
    Pays = {}
    ExpenseOf <- OneExpense
    CashPays = {}
    Ops <- DrawerOps
    Later = {}
    MaxTime = 3
    MaxShifts = 2
    MaxMoves = 2
    MaxFixes = 2
INVARIANTS
    SignedCoversDrawer
    ReversedOnce
    OpenShiftCounted
PROPERTIES
    SalesStayWithShift
CHECK_DEADLOCK FALSE
