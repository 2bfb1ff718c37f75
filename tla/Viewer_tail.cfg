SPECIFICATION FairSpec
CONSTANTS
    MaxFiles = 1
    Matching = {1, 3, 4}
    Batch = 2
    MaxResponseBytes = 2
    MaxRows = 2
    MaxRecords = 4
    MaxFails = 1
    MaxUser = 1
INVARIANTS
    RowsContiguous
PROPERTIES
    CatchesUp
