CONSTANTS
    MaxSessions = 4
    MaxFailures = 1
    MaxTerminations = 1
SPECIFICATION FairSpec
CHECK_DEADLOCK FALSE
INVARIANTS
    NoDanglingUse
    WindowIsRight
    NoSessionLeaks
PROPERTIES
    DisconnectReturns
    StoppedThreadsEnd
