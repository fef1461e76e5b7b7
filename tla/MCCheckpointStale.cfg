CONSTANTS
    Threads = {t1}
    MaxSaves = 3
    MaxRestarts = 1
SPECIFICATION Spec
INVARIANT MostRecent
CHECK_DEADLOCK FALSE
