\* Storage faults and crashes; text and JSONL; max_files may only grow.
SPECIFICATION FairSpec
CONSTANTS
    NumFiles = 2
    LineSize <- TwoByteLines
    MaxSize = 2
    Cap = 2
    MaxFilesChoices = {0, 1, 2}
    IncludeMalformed = FALSE
    Hazards = {"fault", "crash"}
    MaxMsgs = 5
INVARIANTS
    RetryPending
    
PROPERTIES
    ImplementsRetainedLog
    SinkRecovers
