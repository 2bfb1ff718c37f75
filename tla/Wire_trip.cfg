SPECIFICATION Spec
CONSTANTS
    MaxField = 4
    MaxTag = 8
    KMaxDatagramBytes = 19
    HostNames <- MCHostNames
    OptionSets <- MCOptionSets
    RawDatagrams <- MCRawDatagrams
INVARIANTS
    RoundTrip
    OneLinePerDatagram
    JsonlIsUtf8
    ExitTruthful
CHECK_DEADLOCK FALSE
