\* Three orders for one inventory, one or two units each, and two fulfillment
\* runs that may overlap.
CONSTANTS
    g1 = g1
    g2 = g2
    g3 = g3
    Groups <- MCGroups3
    Inventories <- OneInventory
    InitialQuantity <- MCQuantity2
    MaxQuantity = 2
    Demands <- SingleDemands
    ReservationExpiry = 1
    Horizon = 2
    FulfillRuns = {w1, w2}
    BatchSize = 1
    NoGroup = NoGroup
SPECIFICATION Spec
SYMMETRY GroupSymmetry
INVARIANTS
    TypeOK
    OversellAccounted
    StockConserved
PROPERTIES
    ImplementsLedger
CHECK_DEADLOCK FALSE
