CONSTANTS
    MaxChunk = 2
    FrameSizes = {2, 3, 5}
    MaxFrames = 3
    MaxInFlight = 4
    MaxLosses = 2
    MaxFailures = 1
    MaxTimeouts = 0
    Ordered = TRUE
    MaxRepeats = 0
SPECIFICATION FairSpec
CHECK_DEADLOCK FALSE
PROPERTIES
    Delivers
    EveryFrameIsShown
