\* Every hazard at once, on one file: what no environment can break.
SPECIFICATION Spec
CONSTANTS
    NumFiles = 1
    LineSize <- TwoByteLines
    MaxSize = 2
    Cap = 2
    MaxFilesChoices = {0, 1, 2}
    IncludeMalformed = TRUE
    Hazards = {"fault", "crash", "delete", "lower", "alloc"}
    MaxMsgs = 5
INVARIANTS
    ChainOrdered
    SizeBounded
