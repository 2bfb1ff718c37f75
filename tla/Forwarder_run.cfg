SPECIFICATION FairSpec
CONSTANTS
    Hosts = {"literal", "name", "off"}
    Accepted = {}
    Excluded = {2}
    NoFacility = NoFacility
    Facilities <- AllFacilities
    MessageSizes = {1, 25, 30}
    MaxSizes = {0, 20, 25}
    FirstRetryDelay = 1
    MaxRetryDelay = 5
    MaxMessages = 2
INVARIANTS
    OneSearch
    DropsAccounted
    FailureReportedOnce
    WithinMaxSize
PROPERTIES
    NothingStartsAfterStop
    StopEnds
    EventuallyForwards
