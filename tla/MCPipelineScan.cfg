SPECIFICATION Spec
SYMMETRY WorkerSymmetry
CONSTANTS
    Paths = {p1}
    Workers = {w1, w2}
    Capacity = 1
    MaxEdits = 3
    MaxCrashes = 1
    Removals = TRUE
    Faults = TRUE
INVARIANT
    ScanFindsEveryDifference
