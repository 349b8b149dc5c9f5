\* An order confirmed after its reservation lapsed and the stock was reserved again.
CONSTANTS
    g1 = g1
    g2 = g2
    k1 = k1
    k2 = k2
    Groups <- TwoGroups
    Inventories <- OneInventory
    InitialQuantity <- MCQuantity1
    MaxQuantity = 1
    Demands <- UnitDemands
    ReservationExpiry = 1
    Horizon = 3
    FulfillRuns = {}
    BatchSize = 1
    NoGroup = NoGroup
    Keys <- TwoKeys
    KeyOf <- OwnKey
    ChargeAttempts = 1
    StaleAfter = 0
    ReconcileRuns = {j1}
    ReconcileLimit = 2
    Faults = {}
SPECIFICATION Spec
INVARIANT
    NoOversell
CHECK_DEADLOCK FALSE
