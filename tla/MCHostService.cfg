CONSTANTS
    MaxRecords = 1
    MaxRequests = 1
    Gop = 2
SPECIFICATION FairSpec
INVARIANTS
    FailedBackendsHoldNothing
    CleanupReleases
    RecordingStartsWithKey
    RequestIsKept
PROPERTIES
    ForeignOnlyByFallback
    SignalStops
CHECK_DEADLOCK FALSE
