SPECIFICATION FairSpec
CONSTANTS
    Queries = {"a", "("}
    Blank = ""
    BadRegex = {"("}
    MaxHits = 2
    MaxEdits = 3
    MaxPanics = 1
INVARIANTS
    TypeOK
    SelectionInList
PROPERTIES
    AppliedHitsAnswerQuery
    LatestQueryAnswered
    QuitEnds
