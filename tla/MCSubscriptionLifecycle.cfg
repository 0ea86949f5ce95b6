SPECIFICATION Spec
CONSTANTS
    o1 = o1
    o2 = o2
    p1 = p1
    p2 = p2
    silver = silver
    gold = gold
    base = base
    vip = vip
    svip = svip
    Orders = {o1, o2}
    Procs = {p1, p2}
    Plans = {silver, gold}
    PlanOf <- MCPlanOf
    Upgrade <- MCUpgrade
    Duration <- MCDuration
    MaxPurchase <- MCMaxPurchase
    BaseGroup = base
    NoGroup = NoGroup
    NoOrder = NoOrder
    NoPlan = NoPlan
    MaxSubs = 2
    MaxTime = 3
SYMMETRY ProcSymmetry
INVARIANTS OrdersCreateOnce
PROPERTIES NoEarlyDowngrade
CHECK_DEADLOCK FALSE
