SPECIFICATION Spec
CONSTANTS
    t1 = t1  t2 = t2  r1 = r1  r2 = r2  e1 = e1  p1 = p1  p2 = p2
    Tablets = {t1, t2}
    Registers = {r1}
    FirstToSell = r1
    Expenses = {e1}
    Pays = {p1, p2}
    ExpenseOf <- OneExpense
    CashPays = {p1}
    Ops <- ExpenseOps
    Later = {}
    MaxTime = 5
    MaxShifts = 2
    MaxMoves = 3
    MaxFixes = 0
SYMMETRY Same
INVARIANTS
    TypeOK
    PaidFromOneDrawer
    SignedCoversDrawer
    PendingCanBeCounted
CHECK_DEADLOCK FALSE
