\* Two sinks, two threads, and a budget that two of three datagrams fill.
SPECIFICATION Spec
CONSTANTS
    Budget = 4
    Sizes = {2}
    NumSinks = 2
    Routes <- TwoRoutes
    t1 = t1
    t2 = t2
    Threads = {t1, t2}
    SignalWait = TRUE
    CanThrow = FALSE
    Outages = FALSE
    Forwarding = FALSE
    MaxDatagrams = 3
SYMMETRY ThreadSymmetry
INVARIANTS
    QueuedWithinBudget
    CountersMatch
    NeverDeaf
    AllDelivered
CHECK_DEADLOCK FALSE
