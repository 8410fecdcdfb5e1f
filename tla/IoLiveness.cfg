SPECIFICATION FairSpec
CONSTANTS
    Tasks = {t1, t2}
    Callers = {p1}
    Delays = {0, 1}
    StopMsg = 3
    EvMax = 4
    Urgent = FALSE
    MaxTime = 1
    MaxRuns = 1
    MaxCalls = 2
    MaxSignals = 0
PROPERTIES StopReturns WakeupRunsTodo TimerFires
CHECK_DEADLOCK FALSE
