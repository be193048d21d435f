SPECIFICATION Spec
CONSTANTS
    k1 = k1  k2 = k2  bread = bread
    s1 = s1  w1 = w1  d1 = d1
    Clerks = {k1, k2}
    Items = {bread}
    Sales = {}
    Losses = {w1}
    Deliveries = {}
    Parts <- MCParts
    MaxCounts = 2
SYMMETRY Same
INVARIANT
    DiscardedCoversNothing
CHECK_DEADLOCK FALSE
