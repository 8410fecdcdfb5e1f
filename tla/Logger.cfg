SPECIFICATION FairSpec
CONSTANTS
    Threads = {t1, t2}
    Followed = {t1}
    Room = 1
    Reserved = 4
    MaxRuns = 2
INVARIANTS StopFlushes
PROPERTIES Persisted CallsReturn
CHECK_DEADLOCK FALSE
