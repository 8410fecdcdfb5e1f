SPECIFICATION Spec
CONSTANTS
    IntMax = 127
    Digits10 = 2
    MaxPacked = 2
    IntBits = 8
    BufferSize = 3
    InlineSize = 2
    Calls <- MCCalls
    Reused <- MCReused
INVARIANTS OutputRight  CheckedRunsClean GrammarRight
PROPERTIES WrittenStays
CHECK_DEADLOCK FALSE
