SPECIFICATION Spec
CONSTANTS
    Tasks = {t1, t2}
    Callers = {p1}
    Delays = {0, 2}
    StopMsg = 3
    EvMax = 4
    Urgent = TRUE
    MaxTime = 2
    MaxRuns = 2
    MaxCalls = 0
    MaxSignals = 1
SYMMETRY TaskSymmetry
INVARIANTS TimerArmed OneRequestEach
PROPERTIES NeverEarly
CHECK_DEADLOCK FALSE
