\* Three requests of one client, two a window of five ticks, process clocks that
\* differ from Redis' by one tick and scripts that run up to one tick late.
CONSTANTS
    r1 = r1
    r2 = r2
    r3 = r3
    alice = alice
    Requests <- MCRequests
    Clients <- MCClients
    ClientOf <- MCClientOf
    Window = 5
    MaxRequests = 2
    Skew = 1
    Delay = 1
    Horizon = 9
SPECIFICATION Spec
SYMMETRY RequestSymmetry
INVARIANTS
    LimiterInv
    RecentWithinLimit
PROPERTY
    RefusedOnlyAtLimit
CHECK_DEADLOCK FALSE
