SPECIFICATION Spec
CONSTANTS
    Char <- MCChar
    Byte <- MCByte
    Space = " "
    FormFeed = "ff"
    Whitespace <- MCWhitespace
    Control <- MCControl
    AsciiBlank <- MCAsciiBlank
    Lower <- MCLower
    Utf8 <- MCUtf8
    Deunicode <- MCDeunicode
    Window = 5
    Overlap = 3
    PreviewMaxBytes = 3
    Outputs <- MCOutputs
INVARIANTS
    TypeOK
    PhrasesUnsplit
    PhrasesSearchable
    ChunkKeysUnique
    ChunksAreWindows
    PageNumbersMatchOutput
    OnlyWhiteIsEmpty
PROPERTY
    ExtractionEnds
