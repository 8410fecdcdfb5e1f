SPECIFICATION FairSpec
CONSTANTS
    Coros = {c1, c2}
    Null = Null
    SqEntries = 2
    CqEntries = 2
    TimedOps = TRUE
    EbusyKernel = TRUE
    MaxSqe = 6
INVARIANTS TypeOK CqAccounting TokenConservation
PROPERTIES ResumedByItsRequest CompletionDelivered
