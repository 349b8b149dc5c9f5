\* A second request with the key of one that failed.
CONSTANTS
    g1 = g1
    g2 = g2
    k1 = k1
    k2 = k2
    Groups <- TwoGroups
    Inventories <- OneInventory
    InitialQuantity <- MCQuantity1
    MaxQuantity = 1
    Demands <- UnitDemands
    ReservationExpiry = 1
    Horizon = 2
    FulfillRuns = {}
    BatchSize = 1
    NoGroup = NoGroup
    Keys <- OneKey
    KeyOf <- SameKey
    ChargeAttempts = 1
    StaleAfter = 0
    ReconcileRuns = {}
    ReconcileLimit = 1
    Faults = {}
SPECIFICATION Spec
INVARIANT
    FailedAttemptCanBeRetried
CHECK_DEADLOCK FALSE
