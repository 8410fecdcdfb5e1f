SPECIFICATION FairSpec
CONSTANTS
  Zero = 0
  PeerBytes <- MCPeerBytes
  Kinds = {"flex", "fixed"}
  InitSize = 3
  AtLeast = 2
  Lengths = {1, 2}
  MaxCalls = 4
INVARIANTS BufferAccounts WriteDelivers 
PROPERTIES CallEnds
CHECK_DEADLOCK FALSE
