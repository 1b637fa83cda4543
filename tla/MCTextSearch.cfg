SPECIFICATION Spec
CONSTANTS
    Char <- MCChar
    Byte <- MCByte
    Space = " "
    FormFeed = "ff"
    Whitespace <- MCWhitespace
    Control <- MCControl
    AsciiBlank <- MCAsciiBlank
    Lower <- MCLower
    Utf8 <- MCUtf8
    Deunicode <- MCDeunicode
    Window = 4
    Overlap = 2
    PreviewMaxBytes = 2
    Printable <- MCPrintable
    MaxClassExpand = 2
    NumProbes = 3
    NestLimit = 3
    Docs <- MCDocs
    Filename <- MCFilename
    Texts <- MCTexts
    Queries <- MCQueries
    Patterns <- MCPatterns
    Limits = {1, 2, 9}
    Context = 2
    FrizbeeLimit = 2
    MaxScore = 2
    MaxUntracked = 1
INVARIANTS
    TypeOK
    LiteralSearchIsExact
    PhraseIsFound
    RegexSearchIsExact
    FuzzyBandsAreSeparate
    SnippetShowsMatch
