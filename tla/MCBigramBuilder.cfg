SPECIFICATION FairSpec
CONSTANTS
    Items = {i1, i2, i3}
    Keys = {ka, kb}
    Threads = {t1, t2}
    MaxColumns = 3
    CounterModulus = 4
    MinDensityPct <- NoDensity
INVARIANTS
    TypeOK
    ColumnsAreDistinct
    NoFalseNegatives
PROPERTY
    BuildTerminates
