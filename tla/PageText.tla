------------------------------- MODULE PageText -------------------------------
(***************************************************************************)
(* What happens to the text of a document between pdftotext and the index  *)
(* (normalize.rs and the pure functions of extract.rs): it is split into   *)
(* pages, a page is cut into windows, a window is folded to lower-case     *)
(* ASCII for searching and shortened for the list of results.              *)
(*                                                                         *)
(* A text is a sequence of characters, and what it is encoded or folded to *)
(* is a sequence of bytes. Only the classes of a character matter: whether *)
(* it is white, a control character or the form feed, how many bytes it    *)
(* has and what deunicode makes of it.                                     *)
(***************************************************************************)
EXTENDS ByteStrings

CONSTANTS
    Char,             \* the characters (Unicode scalar values) that occur
    Space,            \* ' ', as a character and as a byte
    FormFeed,         \* '\x0c', which ends a page
    Whitespace,       \* char::is_whitespace
    Control,          \* char::is_control
    AsciiBlank,       \* the bytes below 0x20 and ' '
    Utf8,             \* the encoding of a character
    Deunicode,        \* its transliteration (the deunicode crate)
    Window,           \* CHUNK_WINDOW_CHARS
    Overlap,          \* CHUNK_OVERLAP_CHARS
    PreviewMaxBytes   \* PREVIEW_MAX_BYTES

ASSUME TextAssumption ==
    /\ FormFeed \in Whitespace /\ Space \in Whitespace /\ Whitespace \cup Control \subseteq Char
    /\ Space \in AsciiBlank /\ AsciiBlank \subseteq Byte
    /\ Utf8 \in [Char -> Seq(Byte) \ {<<>>}] /\ Deunicode \in [Char -> Seq(Byte)]
    /\ PreviewMaxBytes \in Nat

\* CHUNK_WINDOW_CHARS - CHUNK_OVERLAP_CHARS is unsigned and must not be zero.
ASSUME WindowAssumption == Window \in Nat /\ Overlap \in Nat /\ Overlap < Window

Step == Window - Overlap

-----------------------------------------------------------------------------
(* Pages.                                                                  *)

\* str::trim of it is empty.
IsWhite(text) == \A i \in DOMAIN text : text[i] \in Whitespace

\* The number of the page that position i of text is on, or ends.
PageAt(text, i) == Cardinality({j \in 1 .. i - 1 : text[j] = FormFeed}) + 1

\* Mutant: Empty pages inside the document are not counted.
SplitDropsEmptyPages(text) ==
    LET On(k)     == {i \in DOMAIN text : PageAt(text, i) = k}
        Before(k) == {i \in DOMAIN text : PageAt(text, i) < k}
        Page(k)   == SubSeq(text, Cardinality(Before(k)) + 1,
                            Cardinality(Before(k)) + Cardinality({i \in On(k) : text[i] # FormFeed}))
        all       == [k \in 1 .. PageAt(text, Len(text)) |-> Page(k)]
    IN  Sift(all, {k \in DOMAIN all : all[k] # <<>>})

\* The pieces between the form feeds, empty ones too, without the empty piece
\* after a form feed that ends the text. Page k starts after what is before it.
SplitPages(text) ==
    LET On(k)     == {i \in DOMAIN text : PageAt(text, i) = k}
        Before(k) == {i \in DOMAIN text : PageAt(text, i) < k}
        Page(k)   == SubSeq(text, Cardinality(Before(k)) + 1,
                            Cardinality(Before(k)) + Cardinality({i \in On(k) : text[i] # FormFeed}))
    IN  IF text = <<>> THEN <<>> ELSE [k \in 1 .. PageAt(text, Len(text)) |-> Page(k)]

-----------------------------------------------------------------------------
(* Folding.                                                                *)

Encode(text)  == Spelled(text, Utf8)
ByteLen(text) == Len(Encode(text))

\* Mutant: Every blank gives a space of its own.
CollapseNothing(s, blanks) ==
    LET out == [i \in DOMAIN s |-> IF s[i] \in blanks THEN Space ELSE s[i]]
    IN  IF out # <<>> /\ Last(out) = Space THEN Front(out) ELSE out

\* A run of blanks gives one space, at the beginning and at the end none.
CollapseBlanks(s, blanks) ==
    LET Push(out, c) ==
            IF c \notin blanks THEN Append(out, c)
            ELSE IF out = <<>> \/ Last(out) = Space THEN out
            ELSE Append(out, Space)
        out[n \in 0 .. Len(s)] == IF n = 0 THEN <<>> ELSE Push(out[n - 1], s[n])
        all == out[Len(s)]
    IN  IF all # <<>> /\ Last(all) = Space THEN Front(all) ELSE all

\* deunicode, then lower case. What deunicode trims is collapsed anyway.
Fold(text) == Lowercase(Spelled(text, Deunicode))

NormalizeForIndex(text) == CollapseBlanks(Fold(text), AsciiBlank)

CollapseWhitespaceForDisplay(text) == CollapseBlanks(text, Whitespace \cup Control)

TakeCharsWithinBytes(text, maxBytes) ==
    SubSeq(text, 1, Max({n \in 0 .. Len(text) : ByteLen(SubSeq(text, 1, n)) <= maxBytes}))

MakePreview(text) == TakeCharsWithinBytes(CollapseWhitespaceForDisplay(text), PreviewMaxBytes)

-----------------------------------------------------------------------------
(* Windows.                                                                *)

Chunk(pageNo, chunkOrd, from, to) ==
    [page_no |-> pageNo, chunk_ord |-> chunkOrd, from |-> from, to |-> to]

\* The characters from..to of a page, as the set of chunks they make.
BuildChunk(page, pageNo, chunkOrd, from, to) ==
    IF from >= to \/ IsWhite(SubSeq(page, from + 1, to)) THEN {} ELSE {Chunk(pageNo, chunkOrd, from, to)}

\* All windows of a page of n characters, in a closed form: the window with
\* ordinal k starts at k * Step, and the last is the first to reach the end.
WindowsOf(n) ==
    LET last == IF n <= Window THEN 0 ELSE (n - Overlap - 1) \div Step
    IN  {<<k, k * Step, AtMost(k * Step + Window, n)>> : k \in 0 .. last}

\* The chunks of a document.
ChunksOf(pages) ==
    UNION {UNION {BuildChunk(pages[p], p, w[1], w[2], w[3]) : w \in WindowsOf(Len(pages[p]))} :
              p \in DOMAIN pages}
===============================================================================
