\* Two orders over two inventories with one unit each, one item or both:
\* the inductive invariant, what a step may never do, and progress.
CONSTANTS
    g1 = g1
    g2 = g2
    g3 = g3
    Groups <- MCGroups2
    Inventories <- TwoInventories
    InitialQuantity <- MCQuantity1
    MaxQuantity = 1
    Demands <- PairDemands
    ReservationExpiry = 1
    Horizon = 2
    FulfillRuns = {w1}
    BatchSize = 1
    NoGroup = NoGroup
SPECIFICATION FairSpec
INVARIANTS
    ReservationInv
    FulfilledExactlyOnce
    PartialOnlyAfterExpiry
    WholeUntilExpiry
PROPERTIES
    RowsMoveForward
    NoRowStaysActive
    TimelyConfirmedIsShipped
CHECK_DEADLOCK FALSE
