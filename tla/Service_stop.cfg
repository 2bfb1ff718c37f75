SPECIFICATION FairSpec
CONSTANTS
    MaxProcesses = 2
    MaxCommands = 1
INVARIANTS
    RestartsBounded
    StopFreesTheImage
    WatcherAstrayOnlyByItself
PROPERTIES
    StoppedStaysStopped
    StopEnds
CHECK_DEADLOCK FALSE
