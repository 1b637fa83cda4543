SPECIFICATION FairSpec
CONSTANTS
    Docs <- MCDocs
    Readers = {r1}
    MaxVersion = 3
    MaxPages = 2
    MaxWindows = 1
    OverflowLimit = 3
    TombstoneDen = 1
INVARIANTS
    TypeOK
    ViewMatchesDatabase
    NoDoubleVisibility
    OverlayBounded
PROPERTIES
    UntornReadsAreExact
    ImplementsSearchView
    ThresholdsAreActedOn
