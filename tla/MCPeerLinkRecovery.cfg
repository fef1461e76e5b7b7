CONSTANTS
    HandshakeRetry = 1
    PeerTimeout = 5
    Keepalive = 1
    HealthTimeout = 6
    InitialBackoff = 1
    MaxBackoff = 2
    MaxAttempts = 2
    Connectors = {"client"}
    AcceptsVersion <- AllAccept
    TcpReachable = FALSE
    Commands = {}
    MaxLosses = 2
    MaxCrashes = 1
    Outages = {}
    Duplicates = FALSE
    Redials = FALSE
    Timely = TRUE
SPECIFICATION FairSpec
PROPERTIES
    LinkRecovers
    DeadClientIsDropped
    LosslessLinkHolds
