CONSTANTS
    HandshakeRetry = 1
    PeerTimeout = 1
    Keepalive = 0
    HealthTimeout = 1
    InitialBackoff = 2
    MaxBackoff = 3
    MaxAttempts = 2
    Connectors = {"client"}
    AcceptsVersion <- AllAccept
    TcpReachable = TRUE
    Commands = {}
    MaxLosses = 0
    MaxCrashes = 0
    Outages = {"client"}
    Duplicates = FALSE
    Redials = FALSE
    Timely = FALSE
SPECIFICATION Spec
INVARIANTS
    ConnectedHasSession
    BackoffBounded
