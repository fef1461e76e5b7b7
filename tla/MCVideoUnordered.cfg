CONSTANTS
    MaxChunk = 2
    FrameSizes = {2, 3, 5}
    MaxFrames = 3
    MaxInFlight = 3
    MaxLosses = 1
    MaxFailures = 0
    MaxTimeouts = 1
    Ordered = FALSE
    MaxRepeats = 1
SPECIFICATION Spec
CHECK_DEADLOCK FALSE
INVARIANTS
    FramesAreWhole
    ShownOnce
    BufferCovers
