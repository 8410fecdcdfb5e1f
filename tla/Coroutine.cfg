SPECIFICATION FairSpec
CONSTANTS
  NumChildren = 2
  NumJobs = 2
  Modes = {"threads", "loop", "context"}
INVARIANTS RunByOne WaitsForAll ExceptionArrives NoFrameLeaks
PROPERTIES AllFinish
CHECK_DEADLOCK FALSE
