\* One order of two items next to every job, with crashes and failing compensation.
CONSTANTS
    g1 = g1
    g2 = g2
    k1 = k1
    k2 = k2
    Groups <- OneGroup
    Inventories <- TwoInventories
    InitialQuantity <- MCQuantity1
    MaxQuantity = 1
    Demands <- UnitDemands
    ReservationExpiry = 2
    Horizon = 4
    FulfillRuns = {w1}
    BatchSize = 2
    NoGroup = NoGroup
    Keys <- OneKey
    KeyOf <- SameKey
    ChargeAttempts = 2
    StaleAfter = 0
    ReconcileRuns = {j1, j2}
    ReconcileLimit = 1
    Faults = {"crash", "release"}
SPECIFICATION FairSpec
INVARIANTS
    OrderInv
    TypeOK
    ConfirmedIsPaid
    ConfirmedRowsConfirmedOrder
    CompensationComplete
    ConfirmedInTimeIsBacked
    LostOnlyByCrash
PROPERTIES
    OnlyOwnRequestUnconfirms
    ImplementsReservations
    EveryOrderSettles
CHECK_DEADLOCK FALSE
