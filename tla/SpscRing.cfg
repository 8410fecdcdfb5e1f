SPECIFICATION FairSpec
CONSTANTS
    Values = {a, b}
    Raw = Raw
    Capacity = 4
    IndexMod = 8
INVARIANTS NoOverwrite
PROPERTIES RefinesQueue EmplaceReturns
