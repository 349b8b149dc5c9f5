\* Two parked orders and one without a reference, batches of two, two runs.
CONSTANTS
    g1 = g1
    g2 = g2
    g3 = g3
    k1 = k1
    k2 = k2
    k3 = k3
    Groups <- MCGroups
    Parked <- MCParked
    Inventories <- OneInventory
    InitialQuantity <- MCQuantity
    MaxQuantity = 1
    Demands <- UnitDemands
    ReservationExpiry = 1
    Horizon = 3
    FulfillRuns = {}
    BatchSize = 1
    NoGroup = NoGroup
    Keys <- MCKeys
    KeyOf <- MCKeyOf
    ChargeAttempts = 1
    StaleAfter = 0
    ReconcileRuns = {j1, j2}
    ReconcileLimit = 2
    Faults = {}
SPECIFICATION BacklogSpec
INVARIANT
    ResolvedByItsOwnCharge
PROPERTY
    BacklogIsDrained
CHECK_DEADLOCK FALSE
