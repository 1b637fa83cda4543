SPECIFICATION Spec
SYMMETRY WorkerSymmetry
CONSTANTS
    Paths = {p1}
    Workers = {w1, w2}
    Capacity = 1
    MaxEdits = 2
    MaxCrashes = 0
    Removals = FALSE
    Faults = FALSE
INVARIANT
    DoubleWorkIsNotIncorrect
