\* Two fulfillment runs at work at the same time: the books.
CONSTANTS
    g1 = g1
    g2 = g2
    g3 = g3
    Groups <- MCGroups2
    Inventories <- OneInventory
    InitialQuantity <- MCQuantity2
    MaxQuantity = 1
    Demands <- SingleDemands
    ReservationExpiry = 1
    Horizon = 2
    FulfillRuns = {w1, w2}
    BatchSize = 1
    NoGroup = NoGroup
SPECIFICATION Spec
INVARIANT
    FulfilledExactlyOnce
CHECK_DEADLOCK FALSE
