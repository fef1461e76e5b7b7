CONSTANTS
    HandshakeRetry = 1
    PeerTimeout = 2
    Keepalive = 1
    HealthTimeout = 2
    InitialBackoff = 1
    MaxBackoff = 2
    MaxAttempts = 2
    Connectors = {"client"}
    AcceptsVersion <- AllAccept
    TcpReachable = FALSE
    Commands = {"PAUSE"}
    MaxLosses = 0
    MaxCrashes = 0
    Outages = {}
    Duplicates = FALSE
    Redials = FALSE
    Timely = TRUE
SPECIFICATION Spec
PROPERTY PauseHolds
