CONSTANTS
    Capacity = 2
    Tickers = {"t1"}
    Day = 1
    MaxTime = 2
    MaxAdds = 2
    RbCapacity = 2
    SeqNumbers = 4
    HoldTimeout = 1
    MaxPackets = 5
    RbInFlight = 2
    RbLosses = 1
    MaxRepeats = 1
    Requests = {"r1", "r2", "r3"}
    MaxSlots = 2
    MaxBackoff = 3
    BaseDelays = {0, 2}
    Budgets = {1, 3}
    Replies = {"wait", "remove", "replace"}
    MaxInFlight = 2
    MaxLosses = 1
    FrameTimes = {0, 1, 2, 3}
    Duration = 2
    Memory = 3
    Wrap = 16
    Threads = {"t1", "t2"}
    MaxSaves = 3
    MaxRestarts = 1
SPECIFICATION AllSpec
INVARIANTS
    FiresOnce
    NoneSkipped
    DeliveredOnce
    NoGaps
    BudgetIsSpent
    LockStep
    
    SaveIsComplete
    KillSafe
    
PROPERTIES
    DueFires
    HeldIsDelivered
    YoungStay
CHECK_DEADLOCK FALSE
