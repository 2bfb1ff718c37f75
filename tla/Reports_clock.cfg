SPECIFICATION ReportsSpec
CONSTANTS
    FirstDelay = 1
    MaxDelay = 3
    ReportInterval = 4
    RetryInterval = 2
    Slack = 1
    MaxTime = 11
INVARIANTS
    ErrorsAccounted
    LinesBounded
    OutageAccounted
    NeverSilentLong
CHECK_DEADLOCK FALSE
