SPECIFICATION Spec
CONSTANTS
    Threads = {t1, t2, t3, t4, t5}
    Followed = {}
    Room = 1
    Reserved = 4
    MaxRuns = 1
SYMMETRY ThreadSymmetry
INVARIANTS RingAlive
CHECK_DEADLOCK FALSE
