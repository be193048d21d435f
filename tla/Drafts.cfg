CONSTANTS
    t1 = t1
    t2 = t2
    a1 = a1
    n1 = n1
    n2 = n2
    x1 = x1
    x2 = x2
    Tablets = {t1, t2}
    Touches = {x1, x2}
    Accounts = {a1}
    News = {n1, n2}
    Plain = {x1, x2}
    NoDraft = NoDraft
    NoTouch = NoTouch
    MaxVersion = 3
SPECIFICATION Spec
SYMMETRY Same
INVARIANTS TypeOK NoWaitCycle
PROPERTIES KeepsLedger DropsOnlySeen SendsWhatIsStored
CHECK_DEADLOCK FALSE
