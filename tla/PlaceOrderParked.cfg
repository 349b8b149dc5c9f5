\* A parked order, its reservation expiring before its charge is settled.
CONSTANTS
    g1 = g1
    g2 = g2
    k1 = k1
    k2 = k2
    Groups <- OneGroup
    Inventories <- OneInventory
    InitialQuantity <- MCQuantity1
    MaxQuantity = 1
    Demands <- UnitDemands
    ReservationExpiry = 1
    Horizon = 3
    FulfillRuns = {}
    BatchSize = 1
    NoGroup = NoGroup
    Keys <- OneKey
    KeyOf <- SameKey
    ChargeAttempts = 1
    StaleAfter = 0
    ReconcileRuns = {}
    ReconcileLimit = 1
    Faults = {}
SPECIFICATION Spec
PROPERTY
    ParkedIsNotWronglyFailed
CHECK_DEADLOCK FALSE
