\* A Windows service in which allocations may fail, the storage of a sink and
\* the lookup of the destination too.
SPECIFICATION FairSpec
CONSTANTS
    Budget = 3
    Sizes = {2}
    NumSinks = 2
    Routes <- TwoRoutes
    t1 = t1
    t2 = t2
    Threads = {t1}
    SignalWait = FALSE
    CanThrow = TRUE
    Outages = TRUE
    Forwarding = TRUE
    MaxDatagrams = 2
PROPERTY
    DeafServerReturns
CHECK_DEADLOCK FALSE
