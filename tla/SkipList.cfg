SPECIFICATION Spec
CONSTANTS
    Keys = {1, 2}
    Cells = {1, 2, 3}
    MAX_LEVEL = 3
INVARIANTS WellFormed
PROPERTIES RefinesSorted
