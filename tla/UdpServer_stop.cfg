\* A Windows service: nothing but the work itself keeps run() going, and
\* allocations, the storage and the lookup of the destination may fail.
SPECIFICATION FairSpec
CONSTANTS
    Budget = 3
    Sizes = {2}
    NumSinks = 2
    Routes <- TwoRoutes
    t1 = t1
    t2 = t2
    Threads = {t1}
    SignalWait = FALSE
    CanThrow = TRUE
    Outages = TRUE
    Forwarding = TRUE
    MaxDatagrams = 2
PROPERTIES
    StopEnds
    DeafServerExits
CHECK_DEADLOCK FALSE
