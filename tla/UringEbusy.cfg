SPECIFICATION FairSpec
CONSTANTS
    Coros = {c1, c2, c3}
    Null = Null
    SqEntries = 2
    CqEntries = 2
    TimedOps = TRUE
    EbusyKernel = TRUE
    MaxSqe = 7
PROPERTIES SqeEventuallyTaken
