------------------------------- MODULE Extraction -------------------------------
(***************************************************************************)
(* One worker of the extraction pool (extract_pdf and chunk_page in        *)
(* extract.rs). It runs pdftotext, splits what that prints into pages and  *)
(* cuts a page that is too long into windows that overlap, one per turn of *)
(* a loop, so that a phrase at a cut is in one of the windows as a whole.  *)
(*                                                                         *)
(* A chunk is its page, its ordinal and the range of characters it takes   *)
(* from the page; its text columns are functions of these (ChunkText,      *)
(* ChunkNorm). The chunks are a set: they are read back in the order of    *)
(* their columns. The other fields of the row are in Pipeline.             *)
(***************************************************************************)
EXTENDS PageText

CONSTANTS
    Outputs   \* what pdftotext may print: texts

ASSUME OutputsAssumption == Outputs \subseteq Seq(Char)

VARIABLES
    pc,      \* "idle", "page" (the loop over pages), "window" (chunk_page), "done"
    stdout,  \* what pdftotext printed
    pageNo,  \* the page in hand
    start,   \* start_char of the next window
    ord,     \* chunk_ord of the next window
    chunks,  \* all_chunks
    doc      \* the ExtractedDoc that is returned

vars == <<pc, stdout, pageNo, start, ord, chunks, doc>>

NoDoc == [status |-> "none", page_count |-> 0, chunks |-> {}]
ExtractedDoc(status, pageCount, cs) == [status |-> status, page_count |-> pageCount, chunks |-> cs]

pages == SplitPages(stdout)
page  == pages[pageNo]

\* The columns text_utf8 and text_norm_ascii of a chunk.
ChunkText(c) == SubSeq(pages[c.page_no], c.from + 1, c.to)
ChunkNorm(c) == NormalizeForIndex(ChunkText(c))

-----------------------------------------------------------------------------
Init ==
    /\ pc = "idle"
    /\ stdout = <<>>
    /\ pageNo = 0 /\ start = 0 /\ ord = 0
    /\ chunks = {}
    /\ doc = NoDoc

Return(d) ==
    /\ doc' = d
    /\ pc' = "done"

\* pdftotext cannot be run, cannot read the file, or exits nonzero.
PdftotextFails ==
    /\ pc = "idle"
    /\ Return(ExtractedDoc("error", 0, {}))
    /\ UNCHANGED <<stdout, pageNo, start, ord, chunks>>

PrintsNothing(text) ==
    /\ pc = "idle"
    /\ IsWhite(text)
    /\ stdout' = text
    /\ Return(ExtractedDoc("empty", 0, {}))
    /\ UNCHANGED <<pageNo, start, ord, chunks>>

PrintsText(text) ==
    /\ pc = "idle"
    /\ ~IsWhite(text)
    /\ stdout' = text
    /\ pageNo' = 1
    /\ pc' = "page"
    /\ UNCHANGED <<start, ord, chunks, doc>>

\* Mutant: The page number is only counted up for pages with text.
SkipWhitePageUncounted ==
    /\ pc = "page"
    /\ pageNo <= Len(pages)
    /\ IsWhite(page)
    /\ UNCHANGED vars

SkipWhitePage ==
    /\ pc = "page"
    /\ pageNo <= Len(pages)
    /\ IsWhite(page)
    /\ pageNo' = pageNo + 1
    /\ UNCHANGED <<pc, stdout, start, ord, chunks, doc>>

TakeShortPage ==
    /\ pc = "page"
    /\ pageNo <= Len(pages)
    /\ ~IsWhite(page)
    /\ Len(page) <= Window
    /\ chunks' = chunks \cup BuildChunk(page, pageNo, 0, 0, Len(page))
    /\ pageNo' = pageNo + 1
    /\ UNCHANGED <<pc, stdout, start, ord, doc>>

BeginWindows ==
    /\ pc = "page"
    /\ pageNo <= Len(pages)
    /\ ~IsWhite(page)
    /\ Len(page) > Window
    /\ start' = 0
    /\ ord' = 0
    /\ pc' = "window"
    /\ UNCHANGED <<stdout, pageNo, chunks, doc>>

\* Mutant: The windows do not overlap.
NextStartWithoutOverlap == start + Window

NextStart == start + Step

\* Mutant: The first window does not use up its ordinal.
NextOrdFromOne == IF start = 0 THEN ord ELSE ord + 1

NextOrd == ord + 1

\* Mutant: The loop goes on while another window can begin.
ReachesEndByStart(end) == start + Step >= Len(page)

\* Mutant: The loop runs until a window begins behind the page.
ReachesEndLate(end) == start >= Len(page)

\* Mutant: A white window is taken for the end of the page.
ReachesEndOrWhite(end) == end = Len(page) \/ IsWhite(SubSeq(page, start + 1, end))

ReachesEnd(end) == end = Len(page)

\* One turn of the loop of chunk_page.
NextWindow ==
    LET end == AtMost(start + Window, Len(page)) IN
    /\ pc = "window"
    /\ chunks' = chunks \cup BuildChunk(page, pageNo, ord, start, end)
    /\ \/ /\ ReachesEnd(end)
          /\ pc' = "page"
          /\ pageNo' = pageNo + 1
          /\ UNCHANGED <<start, ord>>
       \/ /\ ~ReachesEnd(end)
          /\ start' = NextStart
          /\ ord' = NextOrd
          /\ UNCHANGED <<pc, pageNo>>
    /\ UNCHANGED <<stdout, doc>>

Finish ==
    /\ pc = "page"
    /\ pageNo > Len(pages)
    /\ Return(ExtractedDoc(IF chunks = {} THEN "empty" ELSE "ok", Len(pages), chunks))
    /\ UNCHANGED <<stdout, pageNo, start, ord, chunks>>

\* The document goes to the writer and the worker takes the next job.
NextJob ==
    /\ pc = "done"
    /\ pc' = "idle"
    /\ stdout' = <<>>
    /\ pageNo' = 0 /\ start' = 0 /\ ord' = 0
    /\ chunks' = {}
    /\ doc' = NoDoc

ExtractStep == SkipWhitePage \/ TakeShortPage \/ BeginWindows \/ NextWindow \/ Finish

Next ==
    \/ PdftotextFails
    \/ \E text \in Outputs : PrintsNothing(text)
    \/ \E text \in Outputs : PrintsText(text)
    \/ SkipWhitePage
    \/ TakeShortPage
    \/ BeginWindows
    \/ NextWindow
    \/ Finish
    \/ NextJob

\* The worker runs on once pdftotext has ended.
Spec == Init /\ [][Next]_vars /\ WF_vars(ExtractStep)

-----------------------------------------------------------------------------
(* Properties.                                                             *)

Done(status) == pc = "done" /\ doc.status = status

ChunkType == [page_no : Nat, chunk_ord : Nat, from : Nat, to : Nat]

\* Every chunk is a non-empty range of a page that exists, a window in hand
\* begins inside its page, and only an Ok document carries chunks (extract.rs,
\* "Only status = DocStatus::Ok carries chunks").
TypeOK ==
    /\ pc \in {"idle", "page", "window", "done"}
    /\ stdout \in Seq(Char)
    /\ pageNo \in 0 .. Len(pages) + 1 /\ start \in Nat /\ ord \in Nat
    /\ chunks \subseteq ChunkType
    /\ \A c \in chunks : c.page_no \in DOMAIN pages /\ c.from < c.to /\ c.to <= Len(pages[c.page_no])
    /\ pc = "window" => pageNo \in DOMAIN pages /\ start < Len(page)
    /\ doc.chunks = IF Done("ok") THEN chunks ELSE {}
    /\ Done("ok") => chunks # {}

\* Whether some chunk takes the characters i .. j of page p as a whole.
InOneChunk(cs, p, i, j) == \E c \in cs : c.page_no = p /\ c.from < i /\ j <= c.to

\* Every stretch of a page that is not white and no longer than one more than
\* the overlap is in one chunk as a whole: no cut goes through it. In
\* particular every character that is not white is in a chunk.
PhrasesUnsplit ==
    Done("ok") =>
        \A p \in DOMAIN pages : \A i, j \in DOMAIN pages[p] :
            i <= j /\ j <= i + Overlap /\ ~IsWhite(SubSeq(pages[p], i, j)) => InOneChunk(chunks, p, i, j)

\* What is left of a folded text when blanks only separate: a reference for
\* what collapse_whitespace and trimming do.
SingleSpaced(s) ==
    LET Blank(i) == s[i] \in AsciiBlank
        kept     == {i \in DOMAIN s : \/ ~Blank(i)
                                      \/ i > 1 /\ ~Blank(i - 1) /\ \E j \in i .. Len(s) : ~Blank(j)}
    IN  Sift([i \in DOMAIN s |-> IF Blank(i) THEN Space ELSE s[i]], kept)

\* The words of such a stretch, typed in small letters with single spaces, are
\* found in the normalised text of a chunk of that page.
PhrasesSearchable ==
    Done("ok") =>
        \A p \in DOMAIN pages : \A i, j \in DOMAIN pages[p] :
            LET typed == SingleSpaced(Fold(SubSeq(pages[p], i, j))) IN
            i <= j /\ j <= i + Overlap /\ ~IsWhite(SubSeq(pages[p], i, j)) =>
                \E c \in chunks : c.page_no = p /\ Occurrences(typed, ChunkNorm(c)) # {}

\* No two chunks have the same page and ordinal: the table chunks has
\* UNIQUE(doc_id, page_no, chunk_ord), and a conflict loses the document.
ChunkKeysUnique ==
    \A c, d \in chunks : c.page_no = d.page_no /\ c.chunk_ord = d.chunk_ord => c = d

\* The loop makes exactly the windows of the closed form: none is missing,
\* none is inside another, ordinals count the white ones too.
ChunksAreWindows == Done("ok") => chunks = ChunksOf(pages)

\* A chunk's text stands in what pdftotext printed, behind one form feed less
\* than its page number says: pages are numbered as a viewer numbers them.
PageNumbersMatchOutput ==
    \A c \in chunks :
        \E i \in Occurrences(ChunkText(c), stdout) :
            Cardinality({j \in 1 .. i : stdout[j] = FormFeed}) = c.page_no - 1

\* Of the documents pdftotext could read, those are stored as empty of which all
\* that was printed is white, and no others: one with white pages or windows
\* keeps the text it has (extract.rs, the two returns of DocStatus::Empty).
OnlyWhiteIsEmpty == Done("empty") \/ Done("ok") => (Done("empty") <=> IsWhite(stdout))

\* A document that has text comes to an end, however long its pages are.
ExtractionEnds == pc = "page" ~> pc = "done"
===============================================================================
