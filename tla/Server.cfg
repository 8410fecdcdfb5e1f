SPECIFICATION FairSpec
CONSTANTS
  Zero <- MCZero
  Modes = {"http", "echo", "client"}
  NumConns = 2
  Limit = 4
  NumBlocks = 1
  BlockSize = 2
  BufferSize = 6
  AtLeast = 2
  Scripts <- MCScripts
  Files <- MCFiles
INVARIANTS DescriptorOwned BlockOwned ResponsesFramed RightAnswers
PROPERTIES AllReleased
CHECK_DEADLOCK FALSE
