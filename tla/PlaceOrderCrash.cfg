\* A request that dies between its insert and its charge.
CONSTANTS
    g1 = g1
    g2 = g2
    k1 = k1
    k2 = k2
    Groups <- OneGroup
    Inventories <- OneInventory
    InitialQuantity <- MCQuantity1
    MaxQuantity = 1
    Demands <- UnitDemands
    ReservationExpiry = 1
    Horizon = 3
    FulfillRuns = {}
    BatchSize = 1
    NoGroup = NoGroup
    Keys <- OneKey
    KeyOf <- SameKey
    ChargeAttempts = 1
    StaleAfter = 0
    ReconcileRuns = {j1}
    ReconcileLimit = 1
    Faults = {"crash"}
SPECIFICATION Spec
INVARIANT
    NoOrderSilentlyLost
CHECK_DEADLOCK FALSE
