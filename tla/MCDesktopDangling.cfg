CONSTANTS
    MaxSessions = 3
    MaxFailures = 0
    MaxTerminations = 0
SPECIFICATION Spec
CHECK_DEADLOCK FALSE
INVARIANT RunKeepsItsSession
