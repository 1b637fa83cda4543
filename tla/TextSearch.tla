------------------------------- MODULE TextSearch -------------------------------
(***************************************************************************)
(* The three searches over the index of a few documents (query/). It puts  *)
(* together what the other modules take apart: the rows come from raw text *)
(* (PageText), base and overlay hold them (LiveIndex), the prefilter rules *)
(* out some of them (BigramTrees), and the rest is verified, limited,      *)
(* ranked and shown with a snippet.                                        *)
(*                                                                         *)
(* A change of the index is one step here, and so is a search: how they    *)
(* interleave is the matter of LiveIndex. chunk_id only breaks ties inside *)
(* a page, where it grows with chunk_ord, and is left out.                 *)
(***************************************************************************)
EXTENDS PageText, BigramTrees

CONSTANTS
    Docs,          \* the doc_ids
    Filename,      \* documents.filename of each
    Texts,         \* the texts pdftotext prints of each
    Queries,       \* what may be typed in literal and fuzzy mode
    Patterns,      \* what may be typed in regex mode: [source, hir]
    Limits,        \* how many hits are asked for
    Context,       \* SNIPPET_CONTEXT_BYTES
    FrizbeeLimit,  \* FRIZBEE_LIMIT
    MaxScore,      \* bound on the scores of the fuzzy matcher
    MaxUntracked   \* bound on the occurring bigrams the index has dropped

ASSUME SearchAssumption ==
    /\ Docs \subseteq Nat /\ IsFiniteSet(Docs)
    /\ Filename \in [Docs -> Seq(Char)]
    /\ DOMAIN Texts = Docs /\ \A d \in Docs : Texts[d] \subseteq Seq(Char) \ {<<>>}
    /\ Queries \subseteq Seq(Char)
    /\ \A p \in Patterns : p.source \in Seq(Byte) /\ p.hir \in Hirs
    /\ Limits \subseteq Nat /\ {Context, FrizbeeLimit, MaxScore, MaxUntracked} \subseteq Nat
    /\ Utf8[Space] = <<Space>> /\ Lower[Space] = Space
    /\ \A c \in Char : 2 * Len(Utf8[c]) <= Context + 2

VARIABLES
    text,        \* the text each document has in the database, <<>> for none
    base,        \* BaseIndex.chunks
    tracked,     \* the bigrams of the base that its bigram index has columns for
    tombstones,  \* Overlay.tombstones: positions in base
    overflow,    \* Overlay.overflow, in the order of insertion
    request,     \* the search in hand
    hits         \* what it returned

indexVars == <<text, base, tracked, tombstones, overflow>>
vars      == <<indexVars, request, hits>>

-----------------------------------------------------------------------------
(* Rows.                                                                   *)

RowsOf(d, t) ==
    LET pages == SplitPages(t)
        Body(c) == SubSeq(pages[c.page_no], c.from + 1, c.to)
    IN  {[doc |-> d, page_no |-> c.page_no, chunk_ord |-> c.chunk_ord,
          text_utf8 |-> Body(c), text_norm_ascii |-> NormalizeForIndex(Body(c))] : c \in ChunksOf(pages)}

\* Rows in ORDER BY doc_id, chunk_ord; windows of two pages may tie.
Layouts(rows) ==
    {s \in SetToSeqs(rows) :
        \A i, j \in DOMAIN s : i < j => \/ s[i].doc < s[j].doc
                                        \/ s[i].doc = s[j].doc /\ s[i].chunk_ord <= s[j].chunk_ord}

LiveRows == UNION {RowsOf(d, text[d]) : d \in Docs}

BigramsIn(rows) == UNION {TextBigrams(r.text_norm_ascii) : r \in rows}

NoRequest == [mode |-> "none"]

Init ==
    /\ text = [d \in Docs |-> <<>>]
    /\ base = <<>> /\ tracked = {}
    /\ tombstones = {} /\ overflow = <<>>
    /\ request = NoRequest /\ hits = <<>>

-----------------------------------------------------------------------------
(* Changes of the index (see LiveIndex).                                   *)

Replace(d, rows) ==
    /\ request = NoRequest
    /\ tombstones' = tombstones \cup {i \in DOMAIN base : base[i].doc = d}
    /\ \E new \in Layouts(rows) : overflow' = Sift(overflow, {i \in DOMAIN overflow : overflow[i].doc # d}) \o new
    /\ UNCHANGED <<base, tracked, request, hits>>

UpsertDoc(d, t) ==
    /\ text' = [text EXCEPT ![d] = t]
    /\ Replace(d, RowsOf(d, t))

RemoveDoc(d) ==
    /\ text[d] # <<>>
    /\ text' = [text EXCEPT ![d] = <<>>]
    /\ Replace(d, {})

\* Mutant: The overlay is left as it is.
RebuildKeepingOverlay ==
    /\ request = NoRequest
    /\ base' \in Layouts(LiveRows)
    /\ \E dropped \in UNION {kSubset(n, BigramsIn(LiveRows)) : n \in 0 .. MaxUntracked} :
          tracked' = BigramsIn(LiveRows) \ dropped
    /\ UNCHANGED <<text, tombstones, overflow, request, hits>>

\* The index keeps the columns that are neither too rare nor too dense.
Rebuild ==
    /\ request = NoRequest
    /\ base' \in Layouts(LiveRows)
    /\ \E dropped \in UNION {kSubset(n, BigramsIn(LiveRows)) : n \in 0 .. MaxUntracked} :
          tracked' = BigramsIn(LiveRows) \ dropped
    /\ tombstones' = {} /\ overflow' = <<>>
    /\ UNCHANGED <<text, request, hits>>

-----------------------------------------------------------------------------
(* Hits and their snippets.                                                *)

Has(sub, s)  == Occurrences(sub, s) # {}
Find(sub, s) == Min(Occurrences(sub, s))

\* A place in text_utf8: a byte offset and a number of bytes.
Place(offset, len) == [offset |-> offset, len |-> len]

\* An offset in text_norm_ascii, remapped in proportion and rounded.
NormPlace(row, offset, len) ==
    LET n == Len(row.text_norm_ascii)
        b == ByteLen(row.text_utf8)
    IN  Place(IF n = 0 THEN 0 ELSE AtMost((2 * b * offset + n) \div (2 * n), b), len)

\* Mutant: The context is counted from the beginning of the match only.
WindowAroundStart(t, place) ==
    LET center == ByteLen(TakeCharsWithinBytes(t, place.offset))
        left   == TakeCharsWithinBytes(t, Max({center - Context, 0}))
        right  == TakeCharsWithinBytes(t, AtMost(center + Context, ByteLen(t)))
    IN  CollapseWhitespaceForDisplay(SubSeq(t, Len(left) + 1, Len(right)))

\* Both ends are moved back to a character boundary.
RenderWindow(t, place) ==
    LET center == ByteLen(TakeCharsWithinBytes(t, place.offset))
        left   == TakeCharsWithinBytes(t, Max({center - Context, 0}))
        right  == TakeCharsWithinBytes(t, AtMost(AtMost(center + place.len, ByteLen(t)) + Context, ByteLen(t)))
    IN  CollapseWhitespaceForDisplay(SubSeq(t, Len(left) + 1, Len(right)))

MakeHit(row, place) ==
    [doc |-> row.doc, page_no |-> row.page_no, chunk_ord |-> row.chunk_ord,
     snippet |-> RenderWindow(row.text_utf8, place)]

-----------------------------------------------------------------------------
(* Candidates and the walks over them.                                     *)

\* Base rows that no tombstone hides and the prefilter does not rule out.
BaseCandidates(tree) ==
    LET untracked == BigramsOf[tree] \ tracked
        Passes(i) == i \notin tombstones /\ Includes(tree, untracked, base[i].text_norm_ascii)
    IN  Sift(base, {i \in DOMAIN base : Passes(i)})

\* Overflow rows keep a bigram set of their own, without stride-2 pairs.
OverflowMatches(needle) ==
    Sift(overflow, {i \in DOMAIN overflow :
        Windows("consec", needle, 1) \subseteq Windows("consec", overflow[i].text_norm_ascii, 1)})

\* The hits so far, and more until the list is full.
Walk(found, more, limit) == found \o SubSeq(more, 1, AtMost(Len(more), limit - Len(found)))

\* The terms of a phrase: where they begin and end.
Terms(phrase) ==
    {p \in (DOMAIN phrase) \X (DOMAIN phrase) :
        /\ p[1] <= p[2] /\ \A i \in p[1] .. p[2] : phrase[i] # Space
        /\ p[1] = 1 \/ phrase[p[1] - 1] = Space
        /\ p[2] = Len(phrase) \/ phrase[p[2] + 1] = Space}

Term(phrase, p) == SubSeq(phrase, p[1], p[2])

\* cheap_rank, smaller is better. An offset behind the snippet is the sentinel.
RankKey(hit, phrase) ==
    LET snippet  == Lowercase(Encode(hit.snippet))
        found    == {p \in Terms(phrase) : Has(Term(phrase, p), snippet)}
        isPhrase == phrase # <<>> /\ Has(phrase, snippet)
        offset   == CASE isPhrase   -> Find(phrase, snippet)
                      [] ~isPhrase /\ found # {} -> Min({Find(Term(phrase, p), snippet) : p \in found})
                      [] OTHER      -> Len(snippet) + 1
    IN  <<IF isPhrase THEN 0 ELSE 1, -Cardinality(found), offset, hit.page_no, hit.doc, hit.chunk_ord>>

\* str::trim
Trim(s) ==
    LET solid == {i \in DOMAIN s : s[i] \notin AsciiBlank}
    IN  IF solid = {} THEN <<>> ELSE SubSeq(s, Min(solid), Max(solid))

\* Hits that compare as equal keep their order.
CheapRank(found, q) ==
    LET indices == SortedBy([i \in DOMAIN found |-> RankKey(found[i], Trim(q)) \o <<i>>])
    IN  [k \in DOMAIN found |-> found[indices[k]]]

-----------------------------------------------------------------------------
(* Literal and regex search.                                               *)

\* Mutant: The query keeps its blanks.
NeedleUncollapsed(q) == Fold(q)

Needle(q) == NormalizeForIndex(q)

\* The hits of the rows that have the needle.
VerifyLiteral(needle, rows) ==
    LET found == Sift(rows, {i \in DOMAIN rows : Has(needle, rows[i].text_norm_ascii)})
        At(r) == NormPlace(r, Find(needle, r.text_norm_ascii), Len(needle))
    IN  [k \in DOMAIN found |-> MakeHit(found[k], At(found[k]))]

\* Mutant: The overflow is only looked at when the base has nothing.
LiteralHitsFromEither(q, limit) ==
    LET needle == Needle(q)
        inBase == Walk(<<>>, VerifyLiteral(needle, BaseCandidates(LiteralQuery(needle))), limit)
        inOver == VerifyLiteral(needle, OverflowMatches(needle))
    IN  IF needle = <<>> \/ limit = 0 THEN <<>>
        ELSE CheapRank(IF inBase # <<>> THEN inBase ELSE Walk(inBase, inOver, limit), needle)

LiteralHits(q, limit) ==
    LET needle == Needle(q)
        inBase == Walk(<<>>, VerifyLiteral(needle, BaseCandidates(LiteralQuery(needle))), limit)
        inOver == VerifyLiteral(needle, OverflowMatches(needle))
    IN  IF needle = <<>> \/ limit = 0 THEN <<>> ELSE CheapRank(Walk(inBase, inOver, limit), needle)

\* Where the engine finds the expression first, and as far as it goes there:
\* of two ends the expressions of the runs prefer the later.
MatchAt(hir, s) ==
    LET start == Min({i \in 0 .. Len(s) : Ends(hir, s, i) # {}})
    IN  Place(start, Max(Ends(hir, s, start)) - start)

\* The hits of the rows whose original text the expression matches.
VerifyRegex(hir, rows) ==
    LET found == Sift(rows, {i \in DOMAIN rows : Matches(hir, Encode(rows[i].text_utf8))})
    IN  [k \in DOMAIN found |-> MakeHit(found[k], MatchAt(hir, Encode(found[k].text_utf8)))]

\* Mutant: Overflow rows go through the prefilter, with the bigrams they keep.
RegexOverflowFiltered(tree) ==
    Sift(overflow, {i \in DOMAIN overflow :
        Evaluate(tree, {}, Windows("consec", overflow[i].text_norm_ascii, 1)) # {FALSE}})

\* Every overflow row is verified.
RegexOverflow(tree) == overflow

RegexHits(pattern, limit) ==
    LET tree   == Decompose[pattern.hir].query
        inBase == Walk(<<>>, VerifyRegex(pattern.hir, BaseCandidates(tree)), limit)
        inOver == VerifyRegex(pattern.hir, RegexOverflow(tree))
    IN  IF pattern.source = <<>> \/ limit = 0 THEN <<>>
        ELSE CheapRank(Walk(inBase, inOver, limit), pattern.source)

-----------------------------------------------------------------------------
(* Fuzzy search: the band of filenames, then the band of bodies.           *)

FilenameNorm(d) == NormalizeForIndex(Filename[d])

\* BaseIndex.filename_norms has the documents that have rows in the base.
DocsWithFilenameMatch(needle) ==
    {d \in {base[i].doc : i \in DOMAIN base} :
        \A p \in Terms(needle) : Has(Term(needle, p), FilenameNorm(d))}

\* The first base row that is not hidden, or else the first overflow row.
Representatives(d) ==
    LET inBase == {i \in DOMAIN base : base[i].doc = d /\ i \notin tombstones}
        inOver == {r \in ToSet(overflow) : r.doc = d}
        First(r, s) == LexLess(<<r.page_no, r.chunk_ord>>, <<s.page_no, s.chunk_ord>>)
    IN  IF inBase # {} THEN {base[Min(inBase)]}
        ELSE {r \in inOver : \A s \in inOver \ {r} : First(r, s)}

\* The sum of the terms' first offsets, the length, the document.
FilenameKey(needle, d) ==
    LET Offsets(n) == {Find(Term(needle, p), FilenameNorm(d)) : p \in {t \in Terms(needle) : t[1] = n}}
        sum[n \in 0 .. Len(needle)] ==
            IF n = 0 THEN 0 ELSE sum[n - 1] + IF Offsets(n) = {} THEN 0 ELSE Min(Offsets(n))
    IN  <<sum[Len(needle)], Len(FilenameNorm(d)), d>>

FilenameHits(needle, limit) ==
    LET rows   == UNION {Representatives(d) : d \in DocsWithFilenameMatch(needle)}
        sorted == SortedBy([r \in rows |-> FilenameKey(needle, r.doc)])
    IN  [k \in 1 .. AtMost(Len(sorted), limit) |-> MakeHit(sorted[k], NormPlace(sorted[k], 0, Len(needle)))]

\* Mutant: Documents of the filename band take part.
AllBodyCandidates(needle) == BaseCandidates(FuzzyQuery(needle)) \o overflow

BodyCandidates(needle) ==
    LET all == BaseCandidates(FuzzyQuery(needle)) \o overflow
    IN  Sift(all, {i \in DOMAIN all : all[i].doc \notin DocsWithFilenameMatch(needle)})

\* What the matcher gets to see of a row, next to its path.
RankText(row) == <<Filename[row.doc], row.page_no, MakePreview(row.text_utf8)>>

FuzzyPlace(needle, row) ==
    NormPlace(row, IF Has(needle, row.text_norm_ascii) THEN Find(needle, row.text_norm_ascii) ELSE 0, Len(needle))

\* The rank strings that are made: none on the cheap path.
RankTexts(rows) == IF Len(rows) > FrizbeeLimit THEN {} ELSE {RankText(r) : r \in ToSet(rows)}

\* match_list_parallel: the candidates with a score, best first. The score is
\* the matcher's business, and only depends on the text it gets.
FrizbeeHits(needle, rows, score) ==
    LET Score(i) == score[RankText(rows[i])]
        at == SortedBy([i \in {j \in DOMAIN rows : Score(j) > 0} |-> <<-Score(i), i>>])
    IN  [k \in DOMAIN at |-> MakeHit(rows[at[k]], FuzzyPlace(needle, rows[at[k]]))]

BodyHits(needle, rows, score, slots) ==
    IF Len(rows) > FrizbeeLimit THEN Walk(<<>>, VerifyLiteral(needle, rows), slots)
    ELSE FrizbeeHits(needle, rows, score)

FuzzyHits(needle, limit, score) ==
    LET band  == FilenameHits(needle, limit)
        slots == limit - Len(band)
        body  == IF slots = 0 THEN <<>> ELSE BodyHits(needle, BodyCandidates(needle), score, slots)
        both  == band \o body
    IN  IF needle = <<>> \/ limit = 0 THEN <<>> ELSE SubSeq(both, 1, AtMost(Len(both), limit))

-----------------------------------------------------------------------------
(* search() is called, and its hits go back to the caller.                 *)

Answer(mode, q, limit, found) ==
    /\ request' = [mode |-> mode, query |-> q, limit |-> limit]
    /\ hits' = found
    /\ UNCHANGED indexVars

LiteralSearch(q, limit) ==
    /\ request = NoRequest
    /\ Answer("literal", q, limit, LiteralHits(q, limit))

RegexSearch(pattern, limit) ==
    /\ request = NoRequest
    /\ Answer("regex", pattern, limit, RegexHits(pattern, limit))

FuzzySearch(q, limit) ==
    /\ request = NoRequest
    /\ \E score \in [RankTexts(BodyCandidates(Needle(q))) -> 0 .. MaxScore] :
          Answer("fuzzy", q, limit, FuzzyHits(Needle(q), limit, score))

Return ==
    /\ request # NoRequest
    /\ request' = NoRequest
    /\ hits' = <<>>
    /\ UNCHANGED indexVars

Next ==
    \/ \E d \in Docs : \E t \in Texts[d] : UpsertDoc(d, t)
    \/ \E d \in Docs : RemoveDoc(d)
    \/ Rebuild
    \/ \E q \in Queries, limit \in Limits : LiteralSearch(q, limit)
    \/ \E pattern \in Patterns, limit \in Limits : RegexSearch(pattern, limit)
    \/ \E q \in Queries, limit \in Limits : FuzzySearch(q, limit)
    \/ Return

Spec == Init /\ [][Next]_vars

-----------------------------------------------------------------------------
(* Properties.                                                             *)

Answered(mode) == request.mode = mode

\* The row a hit stands for, if the database still has it.
RowsOfHit(h) ==
    {r \in LiveRows : r.doc = h.doc /\ r.page_no = h.page_no /\ r.chunk_ord = h.chunk_ord}

\* Tombstones are positions in the base, the index only has columns for what
\* occurs in it, and no search returns more than it was asked for.
TypeOK ==
    /\ text \in [Docs -> {<<>>} \cup UNION {Texts[d] : d \in Docs}]
    /\ tombstones \subseteq DOMAIN base
    /\ tracked \subseteq BigramsIn(ToSet(base))
    /\ request.mode \in {"none", "literal", "regex", "fuzzy"}
    /\ Answered("none") => hits = <<>>
    /\ ~Answered("none") => Len(hits) <= request.limit

\* The hits are rows the database has, each of them once, and rows of expected;
\* a list that is not full has all of those.
Exactly(expected) ==
    /\ \A k \in DOMAIN hits : RowsOfHit(hits[k]) # {} /\ RowsOfHit(hits[k]) \subseteq expected
    /\ \A k, m \in DOMAIN hits : RowsOfHit(hits[k]) = RowsOfHit(hits[m]) => k = m
    /\ Len(hits) < request.limit => Len(hits) = Cardinality(expected)

\* A literal search returns the rows whose normalised text has the normalised
\* query in it, wherever base, overlay and prefilter keep them.
LiteralSearchIsExact ==
    Answered("literal") =>
        Exactly({r \in LiveRows : Needle(request.query) # <<>> /\ Has(Needle(request.query), r.text_norm_ascii)})

\* What is printed on a page of a document is found on that page when it is
\* typed, cut by a window or not, if it is no longer than one more than the
\* overlap, is not all white and folds to something.
PhraseIsFound ==
    Answered("literal") /\ Needle(request.query) # <<>> /\ Len(hits) < request.limit =>
        \A d \in Docs : \A p \in DOMAIN SplitPages(text[d]) :
            /\ Len(request.query) <= Overlap + 1 /\ ~IsWhite(request.query)
            /\ request.query \in SubSeqs(SplitPages(text[d])[p])
            => \E k \in DOMAIN hits : hits[k].doc = d /\ hits[k].page_no = p

\* The index holds the text as it is but for its case.
IsPlain(row) == row.text_norm_ascii = Lowercase(Encode(row.text_utf8))

\* A regex search returns rows that the expression matches, and all of them, in
\* overlay and base alike, as long as nothing was folded away that it may match
\* and it hides no edge (see BigramTrees).
RegexSearchIsExact ==
    Answered("regex") =>
        LET matching == {r \in LiveRows : Matches(request.query.hir, Encode(r.text_utf8))}
        IN  IF request.query.source # <<>> /\ (\A r \in matching : IsPlain(r)) /\ ~JoinsAHiddenEdge(request.query.hir)
            THEN Exactly(matching)
            ELSE \A k \in DOMAIN hits : RowsOfHit(hits[k]) # {} /\ RowsOfHit(hits[k]) \subseteq matching

\* A fuzzy search returns first one row of each document of the base whose name
\* has every term, then rows of other documents, none of them twice, and none
\* that was removed or replaced (query/mod.rs:16-18, fuzzy.rs:4-13).
FuzzyBandsAreSeparate ==
    Answered("fuzzy") =>
        LET needle == Needle(request.query)
            named  == IF needle = <<>> THEN {} ELSE {d \in DocsWithFilenameMatch(needle) : RowsOf(d, text[d]) # {}}
            size   == AtMost(Cardinality(named), request.limit)
        IN  /\ size <= Len(hits) /\ (needle = <<>> => hits = <<>>)
            /\ \A k \in DOMAIN hits : RowsOfHit(hits[k]) # {} /\ (hits[k].doc \in named <=> k <= size)
            /\ \A k, m \in DOMAIN hits : k # m =>
                  RowsOfHit(hits[k]) # RowsOfHit(hits[m]) /\ (k <= size => hits[k].doc # hits[m].doc)

\* The list of hits shows the text as it is. Of the control characters, the one
\* behind "~" is kept in the index and not shown.
IsShownAsItIs(row) == CollapseWhitespaceForDisplay(row.text_utf8) = row.text_utf8

\* The snippet of a hit shows what was found: the match of an expression, and
\* the literal query where folding changed nothing but case and the display
\* nothing at all. The rounded offset, the context and the moves to a boundary
\* never leave part of it out.
SnippetShowsMatch ==
    \A k \in DOMAIN hits : \A r \in RowsOfHit(hits[k]) :
        /\ Answered("regex") =>
              LET s == Encode(r.text_utf8)
                  m == MatchAt(request.query.hir, s)
                  shown == CollapseWhitespaceForDisplay(
                              SubSeq(r.text_utf8, Len(TakeCharsWithinBytes(r.text_utf8, m.offset)) + 1,
                                     Len(TakeCharsWithinBytes(r.text_utf8, m.offset + m.len))))
              IN  Has(shown, hits[k].snippet)
        /\ Answered("literal") /\ IsPlain(r) /\ IsShownAsItIs(r) =>
              Has(Needle(request.query), Lowercase(Encode(hits[k].snippet)))
===============================================================================
