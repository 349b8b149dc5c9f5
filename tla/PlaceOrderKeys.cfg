\* Two requests with one key, under every fault.
CONSTANTS
    g1 = g1
    g2 = g2
    k1 = k1
    k2 = k2
    Groups <- TwoGroups
    Inventories <- OneInventory
    InitialQuantity <- MCQuantity2
    MaxQuantity = 1
    Demands <- UnitDemands
    ReservationExpiry = 1
    Horizon = 2
    FulfillRuns = {}
    BatchSize = 1
    NoGroup = NoGroup
    Keys <- OneKey
    KeyOf <- SameKey
    ChargeAttempts = 2
    StaleAfter = 0
    ReconcileRuns = {j1}
    ReconcileLimit = 1
    Faults = {"crash", "ackLost", "release", "redis"}
SPECIFICATION Spec
SYMMETRY RequestSymmetry
INVARIANTS
    OrderInv
    ChargedOncePerKey
    ToldConfirmedIsConfirmed
CHECK_DEADLOCK FALSE
