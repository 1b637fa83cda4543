SPECIFICATION Spec
CONSTANTS
    Byte <- MCByte
    Lower <- MCLower
    Printable <- MCPrintable
    MaxClassExpand = 2
    NumProbes = 3
    NestLimit = 4
    Texts <- MCTexts
    Terms <- MCTerms
    Expressions <- MCGrouped
    MaxUntracked = 1
INVARIANT
    BigramsAreGuaranteed
