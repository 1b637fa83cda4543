---------------------------- MODULE ExtractionProofs ----------------------------
(***************************************************************************)
(* Theorems about Extraction, for every page, window and overlap. The      *)
(* inductive invariant IInv says what the finished part of the loops has   *)
(* done: the finished pages hold every short stretch as a whole, the page  *)
(* in hand those that begin at or before the next window, and the keys of  *)
(* the chunks so far are behind the next one.                              *)
(***************************************************************************)
EXTENDS Extraction, TextLemmas

LEMMA PagesTyped ==
    ASSUME NEW text \in Seq(Char)
    PROVE  SplitPages(text) \in Seq(Seq(Char))
<1>1. CASE text = <<>>
  BY <1>1 DEF SplitPages
<1>2. CASE text # <<>>
  BY <1>2, SplitPagesProperties
<1> QED BY <1>1, <1>2

-----------------------------------------------------------------------------
(* The inductive invariant.                                                *)

\* The stretches of page p that begin at or before n are in one of cs each.
UnsplitUpTo(cs, ps, p, n) ==
    \A i, j \in DOMAIN ps[p] :
        i <= n /\ i <= j /\ j <= i + Overlap /\ ~IsWhite(SubSeq(ps[p], i, j)) => InOneChunk(cs, p, i, j)

\* The chunks so far are of finished pages, or of earlier windows of this one.
ChunksBehind ==
    \A c \in chunks : \/ c.page_no < pageNo
                      \/ pc = "window" /\ c.page_no = pageNo /\ c.chunk_ord < ord

IInv ==
    /\ TypeOK
    /\ pc # "done" => doc = NoDoc
    /\ pc \in {"page", "window"} => pageNo >= 1
    /\ pc = "idle" => chunks = {} /\ pageNo = 0
    /\ Done("ok") => pageNo = Len(pages) + 1
    /\ \A p \in DOMAIN pages : p < pageNo => UnsplitUpTo(chunks, pages, p, Len(pages[p]))
    /\ pc = "window" => UnsplitUpTo(chunks, pages, pageNo, start)
    /\ ChunksBehind
    /\ ChunkKeysUnique

LEMMA AtMostBounds ==
    ASSUME NEW n \in Int, NEW limit \in Int
    PROVE  AtMost(n, limit) \in {n, limit} /\ AtMost(n, limit) <= n /\ AtMost(n, limit) <= limit
BY DEF AtMost

LEMMA BuildChunkTyped ==
    ASSUME NEW pg, NEW p \in Nat, NEW o \in Nat, NEW from \in Nat, NEW to \in Nat,
           NEW c \in BuildChunk(pg, p, o, from, to)
    PROVE  /\ c = Chunk(p, o, from, to) /\ c \in ChunkType
           /\ c.page_no = p /\ c.chunk_ord = o /\ c.from = from /\ c.to = to /\ from < to
BY DEF BuildChunk, Chunk, ChunkType

\* A chunk that is not white is added behind the others: the set keeps its
\* shape, nothing that was in one chunk is lost, and what lies inside the new
\* window is in one chunk.
LEMMA AddWindow ==
    ASSUME IInv, pageNo \in DOMAIN pages, stdout' = stdout,
           NEW o \in Nat, NEW from \in Nat, NEW to \in Nat, from < to, to <= Len(page),
           \A c \in chunks : c.page_no < pageNo \/ (c.page_no = pageNo /\ c.chunk_ord < o),
           chunks' = chunks \cup BuildChunk(page, pageNo, o, from, to)
    PROVE  /\ chunks' \subseteq ChunkType
           /\ \A c \in chunks' : c.page_no \in DOMAIN pages /\ c.from < c.to /\ c.to <= Len(pages[c.page_no])
           /\ \A c \in chunks' : c.page_no < pageNo \/ (c.page_no = pageNo /\ c.chunk_ord < o + 1)
           /\ ChunkKeysUnique'
           /\ \A p, n : UnsplitUpTo(chunks, pages, p, n) => UnsplitUpTo(chunks', pages, p, n)
           /\ \A i, j \in DOMAIN page :
                 from < i /\ i <= j /\ j <= to /\ ~IsWhite(SubSeq(page, i, j)) => InOneChunk(chunks', pageNo, i, j)
<1>1. pages \in Seq(Seq(Char)) /\ page \in Seq(Char) /\ pages' = pages /\ pageNo \in Nat
  <2>1. pages \in Seq(Seq(Char))
    BY PagesTyped DEF IInv, TypeOK, pages
  <2>2. pageNo \in Nat /\ page \in Seq(Char)
    BY <2>1 DEF page
  <2> QED BY <2>1, <2>2 DEF pages
<1>2. \A c \in BuildChunk(page, pageNo, o, from, to) :
        c = Chunk(pageNo, o, from, to) /\ c \in ChunkType
        /\ c.page_no = pageNo /\ c.chunk_ord = o /\ c.from = from /\ c.to = to
  BY <1>1, BuildChunkTyped
<1>3. chunks \subseteq ChunkType
      /\ \A c \in chunks : c.page_no \in DOMAIN pages /\ c.from < c.to /\ c.to <= Len(pages[c.page_no])
  BY DEF IInv, TypeOK
<1>4. chunks' \subseteq ChunkType
  BY <1>2, <1>3
<1>5. \A c \in chunks' : c.page_no \in DOMAIN pages /\ c.from < c.to /\ c.to <= Len(pages[c.page_no])
  BY <1>2, <1>3 DEF page
<1>6. \A c \in chunks' : c.page_no < pageNo \/ (c.page_no = pageNo /\ c.chunk_ord < o + 1)
  <2>1. \A c \in chunks : c.chunk_ord \in Nat
    BY <1>3 DEF ChunkType
  <2> QED BY <1>1, <1>2, <2>1
<1>7. ChunkKeysUnique'
  <2> SUFFICES ASSUME NEW c \in chunks', NEW d \in chunks', c.page_no = d.page_no, c.chunk_ord = d.chunk_ord
               PROVE  c = d
    BY DEF ChunkKeysUnique
  <2>1. \A e \in chunks : e.page_no \in Nat /\ e.chunk_ord \in Nat
    BY <1>3 DEF ChunkType
  <2>2. CASE c \in chunks /\ d \in chunks
    BY <2>2 DEF IInv, ChunkKeysUnique
  <2>3. CASE c \in chunks /\ d \notin chunks
    BY <1>1, <1>2, <2>1, <2>3
  <2>4. CASE c \notin chunks /\ d \in chunks
    BY <1>1, <1>2, <2>1, <2>4
  <2>5. CASE c \notin chunks /\ d \notin chunks
    BY <1>2, <2>5
  <2> QED BY <2>2, <2>3, <2>4, <2>5
<1>8. \A p, n : UnsplitUpTo(chunks, pages, p, n) => UnsplitUpTo(chunks', pages, p, n)
  BY <1>1 DEF UnsplitUpTo, InOneChunk
<1>9. ASSUME NEW i \in DOMAIN page, NEW j \in DOMAIN page,
             from < i, i <= j, j <= to, ~IsWhite(SubSeq(page, i, j))
      PROVE  InOneChunk(chunks', pageNo, i, j)
  <2>1. BuildChunk(page, pageNo, o, from, to) = {Chunk(pageNo, o, from, to)}
    BY <1>1, <1>9, WindowHoldsStretch
  <2>2. Chunk(pageNo, o, from, to) \in chunks'
    BY <2>1
  <2> QED BY <1>9, <2>2 DEF InOneChunk, Chunk
<1> QED BY <1>4, <1>5, <1>6, <1>7, <1>8, <1>9

-----------------------------------------------------------------------------
(* One lemma per action.                                                   *)

LEMMA InitInv == Init => IInv
<1> SUFFICES ASSUME Init PROVE IInv
  OBVIOUS
<1>1. pages = <<>>
  BY DEF Init, pages, SplitPages
<1>2. stdout \in Seq(Char)
  BY DEF Init
<1>3. DOMAIN pages = {} /\ Len(pages) = 0
  BY <1>1
<1> QED BY <1>2, <1>3 DEF Init, IInv, TypeOK, Done, NoDoc, ExtractedDoc, ChunksBehind, ChunkKeysUnique

LEMMA PagesFacts ==
    ASSUME IInv
    PROVE  /\ pages \in Seq(Seq(Char)) /\ Len(pages) \in Nat /\ DOMAIN pages = 1 .. Len(pages)
           /\ pageNo \in Nat /\ pageNo <= Len(pages) + 1
           /\ pageNo \in DOMAIN pages => page \in Seq(Char) /\ Len(page) \in Nat /\ DOMAIN page = 1 .. Len(page)
<1>1. pages \in Seq(Seq(Char))
  BY PagesTyped DEF IInv, TypeOK, pages
<1>2. pageNo \in DOMAIN pages => page \in Seq(Char)
  BY <1>1 DEF page
<1> QED BY <1>1, <1>2 DEF IInv, TypeOK

LEMMA BeginInv == IInv /\ (PdftotextFails \/ \E text \in Outputs : PrintsNothing(text) \/ PrintsText(text)) => IInv'
<1> USE OutputsAssumption
<1>1. ASSUME IInv, PdftotextFails PROVE IInv'
  <2>1. pages' = pages /\ chunks = {} /\ pageNo = 0
    BY <1>1 DEF PdftotextFails, pages, IInv
  <2> QED BY <1>1, <2>1, PagesFacts
          DEF IInv, TypeOK, PdftotextFails, Return, Done, NoDoc, ExtractedDoc, ChunksBehind, ChunkKeysUnique, page
<1>2. ASSUME IInv, NEW text \in Outputs, PrintsNothing(text) PROVE IInv'
  <2>1. chunks = {} /\ pageNo = 0 /\ stdout' \in Seq(Char) /\ pageNo' = 0 /\ chunks' = {}
    BY <1>2 DEF PrintsNothing, IInv
  <2>2. pages' \in Seq(Seq(Char))
    BY <2>1, PagesTyped DEF pages
  <2> QED BY <1>2, <2>1, <2>2
          DEF IInv, TypeOK, PrintsNothing, Return, Done, NoDoc, ExtractedDoc, ChunksBehind, ChunkKeysUnique
<1>3. ASSUME IInv, NEW text \in Outputs, PrintsText(text) PROVE IInv'
  <2>1. chunks = {} /\ stdout' \in Seq(Char) /\ pageNo' = 1 /\ chunks' = {} /\ pc' = "page" /\ doc' = doc
    BY <1>3 DEF PrintsText, IInv
  <2>2. pages' \in Seq(Seq(Char))
    BY <2>1, PagesTyped DEF pages
  <2>3. doc = NoDoc
    BY <1>3 DEF IInv, PrintsText
  <2> QED BY <1>3, <2>1, <2>2, <2>3
          DEF IInv, TypeOK, PrintsText, Done, NoDoc, ExtractedDoc, ChunksBehind, ChunkKeysUnique
<1> QED BY <1>1, <1>2, <1>3

\* The conjuncts that a step to the next page has to care for.
LEMMA PageFinished ==
    ASSUME IInv, pageNo \in DOMAIN pages, pages' = pages, pageNo' = pageNo + 1,
           \A p, n : UnsplitUpTo(chunks, pages, p, n) => UnsplitUpTo(chunks', pages, p, n),
           UnsplitUpTo(chunks', pages, pageNo, Len(page))
    PROVE  (\A p \in DOMAIN pages : p < pageNo => UnsplitUpTo(chunks, pages, p, Len(pages[p])))'
<1> SUFFICES ASSUME NEW p \in DOMAIN pages, p < pageNo + 1
             PROVE  UnsplitUpTo(chunks', pages, p, Len(pages[p]))
  OBVIOUS
<1>1. p < pageNo \/ p = pageNo
  BY PagesFacts
<1>2. CASE p < pageNo
  BY <1>2 DEF IInv
<1>3. CASE p = pageNo
  BY <1>3 DEF page
<1> QED BY <1>1, <1>2, <1>3

LEMMA SkipWhitePageInv == IInv /\ SkipWhitePage => IInv'
<1> SUFFICES ASSUME IInv, SkipWhitePage PROVE IInv'
  OBVIOUS
<1>1. /\ pages' = pages /\ stdout' = stdout /\ chunks' = chunks /\ doc' = doc /\ start' = start /\ ord' = ord
      /\ pc' = "page" /\ pc = "page" /\ pageNo' = pageNo + 1
  BY DEF SkipWhitePage, pages
<1>2. pageNo \in DOMAIN pages /\ page \in Seq(Char) /\ Len(page) \in Nat /\ DOMAIN page = 1 .. Len(page)
  BY PagesFacts DEF SkipWhitePage, IInv
<1>3. TypeOK'
  BY <1>1, <1>2, PagesFacts DEF IInv, TypeOK, Done, NoDoc, ExtractedDoc
<1>4. UnsplitUpTo(chunks', pages, pageNo, Len(page))
  <2>1. ASSUME NEW i \in DOMAIN page, NEW j \in DOMAIN page PROVE IsWhite(SubSeq(page, i, j))
    <3>1. \A k \in i .. j : page[k] \in Whitespace
      BY <1>2 DEF SkipWhitePage, IsWhite
    <3> QED BY <1>2, <3>1, WhiteSubSeq
  <2> QED BY <2>1 DEF UnsplitUpTo, page
<1>5. (\A p \in DOMAIN pages : p < pageNo => UnsplitUpTo(chunks, pages, p, Len(pages[p])))'
  BY <1>1, <1>2, <1>4, PageFinished
<1>6. ChunksBehind'
  <2>1. \A c \in chunks : c.page_no < pageNo
    BY <1>1 DEF IInv, ChunksBehind
  <2>2. \A c \in chunks : c.page_no \in Nat
    BY DEF IInv, TypeOK, ChunkType
  <2> QED BY <1>1, <2>1, <2>2, PagesFacts DEF ChunksBehind
<1>7. ChunkKeysUnique'
  BY <1>1 DEF IInv, ChunkKeysUnique
<1> QED BY <1>1, <1>3, <1>5, <1>6, <1>7, PagesFacts DEF IInv, Done

LEMMA TakeShortPageInv == IInv /\ TakeShortPage => IInv'
<1> SUFFICES ASSUME IInv, TakeShortPage PROVE IInv'
  OBVIOUS
<1>1. /\ pages' = pages /\ stdout' = stdout /\ doc' = doc /\ start' = start /\ ord' = ord
      /\ pc' = "page" /\ pc = "page" /\ pageNo' = pageNo + 1
      /\ chunks' = chunks \cup BuildChunk(page, pageNo, 0, 0, Len(page))
  BY DEF TakeShortPage, pages
<1>2. pageNo \in DOMAIN pages /\ page \in Seq(Char) /\ Len(page) \in Nat /\ DOMAIN page = 1 .. Len(page)
  BY PagesFacts DEF TakeShortPage, IInv
<1>3. 0 < Len(page) /\ pageNo \in Nat
  BY <1>2, PagesFacts DEF TakeShortPage, IsWhite
<1>4. \A c \in chunks : c.page_no < pageNo
  BY <1>1 DEF IInv, ChunksBehind
<1>5. /\ chunks' \subseteq ChunkType
      /\ \A c \in chunks' : c.page_no \in DOMAIN pages /\ c.from < c.to /\ c.to <= Len(pages[c.page_no])
      /\ \A c \in chunks' : c.page_no < pageNo \/ (c.page_no = pageNo /\ c.chunk_ord < 0 + 1)
      /\ ChunkKeysUnique'
      /\ \A p, n : UnsplitUpTo(chunks, pages, p, n) => UnsplitUpTo(chunks', pages, p, n)
      /\ \A i, j \in DOMAIN page :
            0 < i /\ i <= j /\ j <= Len(page) /\ ~IsWhite(SubSeq(page, i, j)) => InOneChunk(chunks', pageNo, i, j)
  <2>1. \A c \in chunks : c.page_no < pageNo \/ (c.page_no = pageNo /\ c.chunk_ord < 0)
    BY <1>4
  <2> DEFINE first == 0
             n     == Len(page)
  <2>2. /\ first \in Nat /\ n \in Nat /\ first < n /\ n <= Len(page)
        /\ \A c \in chunks : c.page_no < pageNo \/ (c.page_no = pageNo /\ c.chunk_ord < first)
        /\ chunks' = chunks \cup BuildChunk(page, pageNo, first, first, n)
    BY <1>1, <1>2, <1>3, <2>1
  <2> HIDE DEF first, n
  <2>3. /\ chunks' \subseteq ChunkType
        /\ \A c \in chunks' : c.page_no \in DOMAIN pages /\ c.from < c.to /\ c.to <= Len(pages[c.page_no])
        /\ \A c \in chunks' : c.page_no < pageNo \/ (c.page_no = pageNo /\ c.chunk_ord < first + 1)
        /\ ChunkKeysUnique'
        /\ \A p, m : UnsplitUpTo(chunks, pages, p, m) => UnsplitUpTo(chunks', pages, p, m)
        /\ \A i, j \in DOMAIN page :
              first < i /\ i <= j /\ j <= n /\ ~IsWhite(SubSeq(page, i, j)) => InOneChunk(chunks', pageNo, i, j)
    BY <1>1, <1>2, <2>2, AddWindow
  <2> QED BY <2>3 DEF first, n
<1>6. UnsplitUpTo(chunks', pages, pageNo, Len(page))
  BY <1>2, <1>5 DEF UnsplitUpTo, page
<1>7. (\A p \in DOMAIN pages : p < pageNo => UnsplitUpTo(chunks, pages, p, Len(pages[p])))'
  BY <1>1, <1>2, <1>5, <1>6, PageFinished
<1>8. TypeOK'
  BY <1>1, <1>2, <1>5, PagesFacts DEF IInv, TypeOK, Done, NoDoc, ExtractedDoc
<1>9. ChunksBehind'
  <2>1. \A c \in chunks' : c.page_no \in Nat
    BY <1>5 DEF ChunkType
  <2>2. \A c \in chunks' : c.page_no < pageNo + 1
    BY <1>3, <1>5, <2>1
  <2> QED BY <1>1, <2>2 DEF ChunksBehind
<1>10. ChunkKeysUnique'
  BY <1>5
<1>11. doc' = NoDoc /\ pageNo' >= 1
  BY <1>1, <1>2 DEF IInv
<1> QED BY <1>1, <1>7, <1>8, <1>9, <1>10, <1>11 DEF IInv, Done

LEMMA BeginWindowsInv == IInv /\ BeginWindows => IInv'
<1> SUFFICES ASSUME IInv, BeginWindows PROVE IInv'
  OBVIOUS
<1>1. /\ pages' = pages /\ page' = page /\ stdout' = stdout /\ doc' = doc /\ chunks' = chunks /\ pageNo' = pageNo
      /\ pc' = "window" /\ pc = "page" /\ start' = 0 /\ ord' = 0
  BY DEF BeginWindows, pages, page
<1>2. pageNo \in DOMAIN pages /\ Len(page) \in Nat /\ DOMAIN page = 1 .. Len(page) /\ Len(page) > 0
  BY PagesFacts, WindowAssumption DEF BeginWindows, IInv
<1>3. TypeOK'
  BY <1>1, <1>2, PagesFacts DEF IInv, TypeOK, Done, NoDoc, ExtractedDoc
<1>4. UnsplitUpTo(chunks, pages, pageNo, 0)
  BY <1>2 DEF UnsplitUpTo, page
<1>5. ChunksBehind' /\ ChunkKeysUnique'
  BY <1>1 DEF IInv, ChunksBehind, ChunkKeysUnique
<1> QED BY <1>1, <1>3, <1>4, <1>5 DEF IInv, Done

LEMMA NextWindowInv == IInv /\ NextWindow => IInv'
<1> SUFFICES ASSUME IInv, NextWindow PROVE IInv'
  OBVIOUS
<1> DEFINE end == AtMost(start + Window, Len(page))
<1>1. /\ pages' = pages /\ stdout' = stdout /\ doc' = doc /\ pc = "window"
      /\ chunks' = chunks \cup BuildChunk(page, pageNo, ord, start, end)
  BY DEF NextWindow, pages
<1>2. /\ pageNo \in DOMAIN pages /\ pageNo \in Nat /\ page \in Seq(Char) /\ Len(page) \in Nat
      /\ DOMAIN page = 1 .. Len(page)
      /\ start \in Nat /\ start < Len(page) /\ ord \in Nat
  BY <1>1, PagesFacts DEF IInv, TypeOK
<1>3. end \in Nat /\ start < end /\ end <= Len(page) /\ end \in {start + Window, Len(page)}
  BY <1>2, WindowAssumption DEF AtMost
<1> HIDE DEF end
<1>4. \A c \in chunks : c.page_no < pageNo \/ (c.page_no = pageNo /\ c.chunk_ord < ord)
  BY <1>1 DEF IInv, ChunksBehind
<1>5. /\ chunks' \subseteq ChunkType
      /\ \A c \in chunks' : c.page_no \in DOMAIN pages /\ c.from < c.to /\ c.to <= Len(pages[c.page_no])
      /\ \A c \in chunks' : c.page_no < pageNo \/ (c.page_no = pageNo /\ c.chunk_ord < ord + 1)
      /\ ChunkKeysUnique'
      /\ \A p, n : UnsplitUpTo(chunks, pages, p, n) => UnsplitUpTo(chunks', pages, p, n)
      /\ \A i, j \in DOMAIN page :
            start < i /\ i <= j /\ j <= end /\ ~IsWhite(SubSeq(page, i, j)) => InOneChunk(chunks', pageNo, i, j)
  BY <1>1, <1>2, <1>3, <1>4, AddWindow
<1>6. UnsplitUpTo(chunks', pages, pageNo, start)
  BY <1>1, <1>5 DEF IInv
<1>7. CASE pc' = "page" /\ pageNo' = pageNo + 1 /\ start' = start /\ ord' = ord /\ end = Len(page)
  <2>1. UnsplitUpTo(chunks', pages, pageNo, Len(page))
    BY <1>2, <1>5, <1>6, <1>7 DEF UnsplitUpTo, page
  <2>2. (\A p \in DOMAIN pages : p < pageNo => UnsplitUpTo(chunks, pages, p, Len(pages[p])))'
    BY <1>1, <1>2, <1>5, <1>7, <2>1, PageFinished
  <2>3. TypeOK'
    BY <1>1, <1>2, <1>5, <1>7, PagesFacts DEF IInv, TypeOK, Done, NoDoc, ExtractedDoc
  <2>4. ChunksBehind'
    <3>1. \A c \in chunks' : c.page_no \in Nat
      BY <1>5 DEF ChunkType
    <3> QED BY <1>2, <1>5, <1>7, <3>1 DEF ChunksBehind
  <2>5. ChunkKeysUnique'
    BY <1>5
  <2>6. doc' = NoDoc /\ pageNo' >= 1
    BY <1>1, <1>2, <1>7 DEF IInv
  <2> QED BY <1>7, <2>2, <2>3, <2>4, <2>5, <2>6 DEF IInv, Done
<1>8. CASE pc' = "window" /\ pageNo' = pageNo /\ start' = start + Step /\ ord' = ord + 1 /\ end # Len(page)
  <2>1. /\ end = start + Window /\ start + Window < Len(page)
        /\ Step \in Nat /\ Step <= Window /\ Step + Overlap = Window
    <3>1. end = start + Window
      BY <1>3, <1>8
    <3>2. end < Len(page)
      <4>1. Len(page) \in Nat /\ end \in Nat /\ end <= Len(page) /\ end # Len(page)
        BY <1>2, <1>3, <1>8
      <4> QED BY <4>1
    <3>3. Step \in Nat /\ Step <= Window /\ Step + Overlap = Window
      BY WindowAssumption DEF Step
    <3> QED BY <3>1, <3>2, <3>3
  <2>2. page' = page
    BY <1>1, <1>8 DEF page
  <2>3. UnsplitUpTo(chunks', pages, pageNo, start + Step)
    <3> SUFFICES ASSUME NEW i \in DOMAIN page, NEW j \in DOMAIN page,
                        i <= start + Step, i <= j, j <= i + Overlap, ~IsWhite(SubSeq(page, i, j))
                 PROVE  InOneChunk(chunks', pageNo, i, j)
      BY DEF UnsplitUpTo, page
    <3>1. CASE i <= start
      BY <1>6, <3>1 DEF UnsplitUpTo, page
    <3>2. CASE i > start
      <4>1. j <= end
        BY <1>2, <2>1, WindowAssumption
      <4> QED BY <1>5, <3>2, <4>1
    <3> QED BY <1>2, <3>1, <3>2
  <2>4. TypeOK'
    <3>1. start + Step \in Nat /\ start + Step < Len(page) /\ ord + 1 \in Nat
      <4>1. start \in Nat /\ ord \in Nat /\ Len(page) \in Nat
        BY <1>2
      <4> QED BY <2>1, <4>1, WindowAssumption
    <3>2. pageNo \in 0 .. Len(pages) + 1 /\ doc = NoDoc
      BY <1>1, PagesFacts DEF IInv
    <3> QED BY <1>1, <1>2, <1>5, <1>8, <2>2, <3>1, <3>2 DEF IInv, TypeOK, Done, NoDoc, ExtractedDoc
  <2>5. ChunksBehind'
    BY <1>5, <1>8 DEF ChunksBehind
  <2>6. (\A p \in DOMAIN pages : p < pageNo => UnsplitUpTo(chunks, pages, p, Len(pages[p])))'
    BY <1>1, <1>5, <1>8 DEF IInv
  <2> QED BY <1>1, <1>2, <1>5, <1>8, <2>3, <2>4, <2>5, <2>6 DEF IInv, Done
<1>9. \/ pc' = "page" /\ pageNo' = pageNo + 1 /\ start' = start /\ ord' = ord /\ end = Len(page)
      \/ pc' = "window" /\ pageNo' = pageNo /\ start' = start + Step /\ ord' = ord + 1 /\ end # Len(page)
  BY <1>1 DEF NextWindow, ReachesEnd, NextStart, NextOrd, end
<1> QED BY <1>7, <1>8, <1>9

LEMMA FinishInv == IInv /\ Finish => IInv'
<1> SUFFICES ASSUME IInv, Finish PROVE IInv'
  OBVIOUS
<1>1. /\ pages' = pages /\ stdout' = stdout /\ chunks' = chunks /\ pageNo' = pageNo /\ start' = start /\ ord' = ord
      /\ pc = "page" /\ pc' = "done" /\ pageNo = Len(pages) + 1
      /\ doc' = ExtractedDoc(IF chunks = {} THEN "empty" ELSE "ok", Len(pages), chunks)
  BY PagesFacts DEF Finish, Return, pages
<1>2. TypeOK'
  BY <1>1 DEF IInv, TypeOK, Done, ExtractedDoc
<1>3. ChunksBehind' /\ ChunkKeysUnique'
  BY <1>1 DEF IInv, ChunksBehind, ChunkKeysUnique
<1> QED BY <1>1, <1>2, <1>3 DEF IInv, Done

LEMMA NextJobInv == IInv /\ NextJob => IInv'
<1> SUFFICES ASSUME IInv, NextJob PROVE IInv'
  OBVIOUS
<1>1. pages' = <<>> /\ chunks' = {} /\ pc' = "idle" /\ doc' = NoDoc
  BY DEF NextJob, pages, SplitPages
<1> QED BY <1>1 DEF NextJob, IInv, TypeOK, Done, NoDoc, ExtractedDoc, ChunksBehind, ChunkKeysUnique

LEMMA StutterInv == IInv /\ UNCHANGED vars => IInv'
<1> SUFFICES ASSUME IInv, UNCHANGED vars PROVE IInv'
  OBVIOUS
<1>1. pages' = pages /\ page' = page
  BY DEF vars, pages, page
<1> QED BY <1>1 DEF vars, IInv, TypeOK, Done, ChunksBehind, ChunkKeysUnique

LEMMA NextInv == IInv /\ [Next]_vars => IInv'
BY BeginInv, SkipWhitePageInv, TakeShortPageInv, BeginWindowsInv, NextWindowInv, FinishInv, NextJobInv, StutterInv
   DEF Next

-----------------------------------------------------------------------------
(* The theorems.                                                           *)

LEMMA Invariance == Spec => []IInv
BY InitInv, NextInv, PTL DEF Spec

\* Chunks are non-empty ranges of pages that exist, chunk_page never begins a
\* window behind the end of its page, and only an Ok document carries chunks,
\* for every size of window and overlap that leaves a step.
THEOREM TypeCorrect == Spec => []TypeOK
BY Invariance, PTL DEF IInv

\* However long a page is and wherever chunk_page cuts it, a stretch of at most
\* one character more than the overlap is in one chunk as a whole.
THEOREM PhrasesNeverSplit == Spec => []PhrasesUnsplit
<1>1. IInv => PhrasesUnsplit
  <2> SUFFICES ASSUME IInv, Done("ok"), NEW p \in DOMAIN pages, NEW i \in DOMAIN pages[p], NEW j \in DOMAIN pages[p],
                      i <= j, j <= i + Overlap, ~IsWhite(SubSeq(pages[p], i, j))
               PROVE  InOneChunk(chunks, p, i, j)
    BY DEF PhrasesUnsplit
  <2>1. pages[p] \in Seq(Char) /\ i <= Len(pages[p]) /\ p < pageNo
    BY PagesFacts DEF IInv
  <2> QED BY <2>1 DEF IInv, UnsplitUpTo
<1> QED BY <1>1, Invariance, PTL

\* The table chunks never sees a second row with the same page and ordinal in
\* one document: its UNIQUE(doc_id, page_no, chunk_ord) never fires.
THEOREM KeysUnique == Spec => []ChunkKeysUnique
BY Invariance, PTL DEF IInv

-----------------------------------------------------------------------------
(* Page numbers, and documents without text.                               *)

LEMMA PageFacts ==
    ASSUME IInv, NEW p \in DOMAIN pages
    PROVE  stdout \in Seq(Char) /\ stdout # <<>> /\ IsPage(pages[p], stdout, p, PageFrom(stdout, p))
<1>1. stdout \in Seq(Char)
  BY DEF IInv, TypeOK
<1>2. stdout # <<>>
  BY DEF pages, SplitPages
<1> QED BY <1>1, <1>2, SplitPagesProperties DEF pages

\* The text of a chunk stands in the output where its page does.
LEMMA ChunkTextFacts ==
    ASSUME IInv, NEW c \in chunks
    PROVE  /\ c.page_no \in DOMAIN pages /\ c.from \in Nat /\ c.to \in Nat /\ c.from < c.to /\ c.to <= Len(pages[c.page_no])
           /\ ChunkText(c) \in Seq(Char) /\ Len(ChunkText(c)) = c.to - c.from
           /\ \A i \in 1 .. c.to - c.from : ChunkText(c)[i] = pages[c.page_no][c.from + i]
<1>1. c.page_no \in DOMAIN pages /\ c.from \in Nat /\ c.to \in Nat /\ c.from < c.to /\ c.to <= Len(pages[c.page_no])
  BY DEF IInv, TypeOK, ChunkType
<1> DEFINE pg == pages[c.page_no]
           f  == c.from
           t  == c.to
           x  == ChunkText(c)
<1>2. pg \in Seq(Char)
  BY <1>1, PagesFacts
<1>3. x = SubSeq(pg, f + 1, t)
  BY DEF ChunkText
<1>4. f \in Nat /\ t \in Nat /\ f < t /\ t <= Len(pg)
  BY <1>1
<1> HIDE DEF pg, f, t, x
<1>5. \A i \in f + 1 .. t : pg[i] \in Char
  BY <1>2, <1>4
<1>6. /\ x \in Seq(Char) /\ Len(x) = IF f + 1 <= t THEN t - (f + 1) + 1 ELSE 0
      /\ \A i \in 1 .. t - (f + 1) + 1 : x[i] = pg[f + 1 + i - 1]
  BY <1>3, <1>4, <1>5, SubSeqProperties
<1>7. Len(x) = t - f
  BY <1>4, <1>6
<1>8. ASSUME NEW i \in 1 .. t - f PROVE x[i] = pg[f + i]
  <2>1. i \in 1 .. t - (f + 1) + 1 /\ f + 1 + i - 1 = f + i
    BY <1>4
  <2> QED BY <1>6, <2>1
<1> QED BY <1>1, <1>6, <1>7, <1>8 DEF pg, f, t, x

LEMMA PageNumbers == IInv => PageNumbersMatchOutput
<1> SUFFICES ASSUME IInv, NEW c \in chunks
             PROVE  \E i \in Occurrences(ChunkText(c), stdout) :
                       Cardinality({j \in 1 .. i : stdout[j] = FormFeed}) = c.page_no - 1
  BY DEF PageNumbersMatchOutput
<1> DEFINE p == c.page_no
           a == PageFrom(stdout, p)
           pg == pages[p]
           x == ChunkText(c)
           n == Len(x)
<1>1. /\ p \in DOMAIN pages /\ c.from \in Nat /\ c.to \in Nat /\ c.from < c.to /\ c.to <= Len(pg)
      /\ x \in Seq(Char) /\ n = c.to - c.from
      /\ \A i \in 1 .. c.to - c.from : x[i] = pg[c.from + i]
  BY ChunkTextFacts
<1>2. IsPage(pg, stdout, p, a) /\ stdout \in Seq(Char)
  BY <1>1, PageFacts
<1> HIDE DEF p, a, pg, x
<1>3. /\ pg \in Seq(Char) /\ a \in Nat /\ a + Len(pg) <= Len(stdout)
      /\ \A i \in 1 .. Len(pg) : pg[i] = stdout[a + i]
      /\ \A k \in 0 .. Len(pg) : Feeds(stdout, a + k) = p - 1
  BY <1>2 DEF IsPage
<1>4. PICK i \in Nat : i = a + c.from
  BY <1>1, <1>3
<1>5. i \in 0 .. Len(stdout) - n
  BY <1>1, <1>2, <1>3, <1>4
<1>6. ASSUME NEW k \in 1 .. n PROVE stdout[i + k] = x[k]
  <2>1. PICK j \in 1 .. Len(pg) : j = c.from + k
    BY <1>1, <1>3
  <2>2. x[k] = pg[j]
    BY <1>1, <2>1
  <2>3. pg[j] = stdout[a + j]
    BY <1>3, <2>1
  <2>4. a + j = i + k
    BY <1>1, <1>3, <1>4, <2>1
  <2> QED BY <2>2, <2>3, <2>4
<1>7. DOMAIN x = 1 .. n
  BY <1>1
<1>8. i \in Occurrences(x, stdout)
  BY <1>5, <1>6, <1>7 DEF Occurrences
<1>9. Feeds(stdout, i) = p - 1
  BY <1>1, <1>3, <1>4
<1> QED BY <1>8, <1>9 DEF Feeds, x, p

\* Pages without chunks are white.
LEMMA NoChunksNoText ==
    ASSUME IInv, pageNo = Len(pages) + 1, chunks = {}
    PROVE  IsWhite(stdout)
<1> SUFFICES ASSUME NEW i \in DOMAIN stdout, stdout[i] \notin Whitespace PROVE FALSE
  BY DEF IsWhite
<1>1. stdout \in Seq(Char) /\ stdout # <<>>
  BY DEF IInv, TypeOK
<1>2. stdout[i] # FormFeed
  BY TextAssumption
<1> DEFINE N == PageAt(stdout, Len(stdout))
           p == PageAt(stdout, i)
<1>3. p \in 1 .. N
  <2>1. i \in 1 .. Len(stdout) /\ Len(stdout) \in Nat /\ i - 1 \in Nat /\ Len(stdout) - 1 \in Nat /\ i - 1 <= Len(stdout) - 1
    BY <1>1
  <2>2. Feeds(stdout, i - 1) \in Nat /\ Feeds(stdout, Len(stdout) - 1) \in Nat
        /\ Feeds(stdout, i - 1) <= Feeds(stdout, Len(stdout) - 1)
    BY <2>1, FeedsStep, FeedsGrow
  <2>3. p = Feeds(stdout, i - 1) + 1 /\ N = Feeds(stdout, Len(stdout) - 1) + 1
    BY DEF PageAt, Feeds
  <2> HIDE DEF p, N
  <2> QED BY <2>2, <2>3
<1>4. DOMAIN pages = 1 .. N
  BY <1>1, SplitPagesProperties DEF pages
<1>5. p \in DOMAIN pages /\ PageAt(stdout, i) = p
  BY <1>3, <1>4
<1> HIDE DEF p, N
<1> DEFINE a == PageFrom(stdout, p)
           pg == pages[p]
<1>6. IsPage(pg, stdout, p, a)
  BY <1>5, PageFacts
<1> HIDE DEF a
<1>7. i \in a + 1 .. a + Len(pg) /\ a \in Nat /\ Len(pg) \in Nat /\ pg \in Seq(Char)
  BY <1>2, <1>5, <1>6 DEF IsPage
<1>8. PICK k \in 1 .. Len(pg) : i = a + k
  BY <1>7, i - a \in Int
<1>9. pg[k] = stdout[i] /\ pg[k] \notin Whitespace
  BY <1>6, <1>8 DEF IsPage
<1>10. ~IsWhite(SubSeq(pg, k, k))
  BY <1>7, <1>9, WhiteSubSeq
<1>11. UnsplitUpTo(chunks, pages, p, Len(pages[p]))
  <2>1. p < pageNo
    BY <1>5, PagesFacts
  <2> QED BY <1>5, <2>1 DEF IInv
<1>12. k \in DOMAIN pages[p] /\ k <= Len(pages[p]) /\ k <= k /\ k <= k + Overlap
  BY <1>7, <1>8, WindowAssumption
<1>13. InOneChunk(chunks, p, k, k)
  BY <1>10, <1>11, <1>12 DEF UnsplitUpTo
<1> QED BY <1>13 DEF InOneChunk

\* The loops only run over a text that is not white.
EmptyInv == (pc \in {"page", "window"} => ~IsWhite(stdout)) /\ OnlyWhiteIsEmpty

LEMMA EmptyStep == IInv /\ EmptyInv /\ [Next]_vars => EmptyInv'
<1> SUFFICES ASSUME IInv, EmptyInv, [Next]_vars PROVE EmptyInv'
  OBVIOUS
<1> USE DEF EmptyInv, OnlyWhiteIsEmpty, Done
<1>1. CASE PdftotextFails
  BY <1>1 DEF PdftotextFails, Return, ExtractedDoc
<1>2. ASSUME NEW text \in Outputs, PrintsNothing(text) PROVE EmptyInv'
  BY <1>2 DEF PrintsNothing, Return, ExtractedDoc
<1>3. ASSUME NEW text \in Outputs, PrintsText(text) PROVE EmptyInv'
  BY <1>3 DEF PrintsText
<1>4. CASE SkipWhitePage
  BY <1>4 DEF SkipWhitePage
<1>5. CASE TakeShortPage
  BY <1>5 DEF TakeShortPage
<1>6. CASE BeginWindows
  BY <1>6 DEF BeginWindows
<1>7. CASE NextWindow
  BY <1>7 DEF NextWindow
<1>8. CASE Finish
  <2>1. pageNo = Len(pages) + 1
    BY <1>8, PagesFacts DEF Finish
  <2>2. stdout' = stdout /\ ~IsWhite(stdout) /\ pc' = "done"
    BY <1>8 DEF Finish, Return
  <2>3. chunks # {}
    BY <2>1, <2>2, NoChunksNoText
  <2>4. doc'.status = "ok"
    BY <1>8, <2>3 DEF Finish, Return, ExtractedDoc
  <2> QED BY <2>2, <2>4
<1>9. CASE NextJob
  BY <1>9 DEF NextJob
<1>10. CASE UNCHANGED vars
  BY <1>10 DEF vars
<1> QED BY <1>1, <1>2, <1>3, <1>4, <1>5, <1>6, <1>7, <1>8, <1>9, <1>10 DEF Next

\* A chunk stands on the page its number says, as a viewer counts pages.
THEOREM PagesCounted == Spec => []PageNumbersMatchOutput
BY Invariance, PageNumbers, PTL

\* Of the documents that were read, those are stored as empty of which nothing
\* but white was printed, and no others.
THEOREM EmptyIffWhite == Spec => []OnlyWhiteIsEmpty
<1>1. Init => EmptyInv
  BY DEF Init, EmptyInv, OnlyWhiteIsEmpty, Done
<1>2. EmptyInv => OnlyWhiteIsEmpty
  BY DEF EmptyInv
<1> QED BY <1>1, <1>2, Invariance, EmptyStep, PTL DEF Spec

-----------------------------------------------------------------------------
(* The windows of a page.                                                  *)

\* What the loops have made when they are before window k of page p.
MadeBefore(ps, p, k) == {c \in ChunksOf(ps) : c.page_no < p \/ (c.page_no = p /\ c.chunk_ord < k)}

\* The loops have made the windows before the one in hand, and know where that
\* one begins.
WindowsMade ==
    /\ pc = "page" => chunks = MadeBefore(pages, pageNo, 0)
    /\ pc = "window" => /\ chunks = MadeBefore(pages, pageNo, ord)
                        /\ start = ord * Step /\ start + Overlap < Len(page)
    /\ ChunksAreWindows

\* One more window.
MakesNext(ps, p, k, W) ==
    /\ MadeBefore(ps, p, k) \cup W = MadeBefore(ps, p, k + 1)
    /\ k = LastWindow(Len(ps[p])) => MadeBefore(ps, p, k + 1) = MadeBefore(ps, p + 1, 0)

LEMMA MadeNext ==
    ASSUME NEW ps, NEW n \in Nat, DOMAIN ps = 1 .. n, \A p \in 1 .. n : Len(ps[p]) \in Nat,
           NEW p \in 1 .. n, NEW k \in 0 .. LastWindow(Len(ps[p])), NEW W,
           W = BuildChunk(ps[p], p, k, k * Step, AtMost(k * Step + Window, Len(ps[p])))
    PROVE  MakesNext(ps, p, k, W)
<1>0. LastWindow(Len(ps[p])) \in Nat
  BY LastWindowIs
<1>1. \A c \in ChunksOf(ps) : c.page_no \in 1 .. n /\ c.chunk_ord \in Nat
  BY ChunksOfTyped
<1>2. \A c \in W : c \in ChunksOf(ps) /\ c.page_no = p /\ c.chunk_ord = k
  <2> SUFFICES ASSUME NEW c \in W PROVE c \in ChunksOf(ps) /\ c.page_no = p /\ c.chunk_ord = k
    OBVIOUS
  <2>1. OfWindow(c, ps, p, k)
    BY DEF OfWindow
  <2> QED BY <2>1, ChunksOfMember, OfWindowKey
<1>3. ASSUME NEW c \in ChunksOf(ps), c.page_no = p, c.chunk_ord = k PROVE c \in W
  <2>1. PICK q \in DOMAIN ps : \E m \in 0 .. LastWindow(Len(ps[q])) : OfWindow(c, ps, q, m)
    BY ChunksOfMember
  <2>2. PICK m \in 0 .. LastWindow(Len(ps[q])) : OfWindow(c, ps, q, m)
    BY <2>1
  <2>3. q = p /\ m = k
    BY <1>3, <2>2, OfWindowKey
  <2> QED BY <2>2, <2>3 DEF OfWindow
<1>4. ASSUME NEW c \in ChunksOf(ps), c.page_no = p PROVE c.chunk_ord <= LastWindow(Len(ps[p]))
  <2>1. PICK q \in DOMAIN ps : \E m \in 0 .. LastWindow(Len(ps[q])) : OfWindow(c, ps, q, m)
    BY ChunksOfMember
  <2>2. PICK m \in 0 .. LastWindow(Len(ps[q])) : OfWindow(c, ps, q, m)
    BY <2>1
  <2>3. q = p /\ m = c.chunk_ord
    BY <1>4, <2>2, OfWindowKey
  <2> QED BY <1>0, <2>2, <2>3
<1> HIDE DEF ChunksOf
<1>5. MadeBefore(ps, p, k) \cup W = MadeBefore(ps, p, k + 1)
  <2>1. \A c \in ChunksOf(ps) : c.page_no = p => (c.chunk_ord < k + 1 <=> c.chunk_ord < k \/ c.chunk_ord = k)
    BY <1>0, <1>1
  <2>2. \A c \in ChunksOf(ps) : c.chunk_ord = k /\ c.page_no = p <=> c \in W
    BY <1>2, <1>3
  <2>3. W \subseteq ChunksOf(ps)
    BY <1>2
  <2> QED BY <2>1, <2>2, <2>3 DEF MadeBefore
<1>6. ASSUME k = LastWindow(Len(ps[p])) PROVE MadeBefore(ps, p, k + 1) = MadeBefore(ps, p + 1, 0)
  <2>1. \A c \in ChunksOf(ps) : (c.page_no < p \/ (c.page_no = p /\ c.chunk_ord < k + 1)) <=> (c.page_no < p + 1 \/ (c.page_no = p + 1 /\ c.chunk_ord < 0))
    <3> SUFFICES ASSUME NEW c \in ChunksOf(ps)
                 PROVE  (c.page_no < p \/ (c.page_no = p /\ c.chunk_ord < k + 1)) <=> (c.page_no < p + 1 \/ (c.page_no = p + 1 /\ c.chunk_ord < 0))
      OBVIOUS
    <3>1. c.page_no \in 1 .. n /\ c.chunk_ord \in Nat /\ (c.page_no = p => c.chunk_ord <= k)
      BY <1>1, <1>4, <1>6
    <3> QED BY <1>0, <3>1
  <2> QED BY <2>1 DEF MadeBefore
<1> QED BY <1>5, <1>6 DEF MakesNext

\* A page that is white makes nothing.
LEMMA MadeSkip ==
    ASSUME NEW ps \in Seq(Seq(Char)), NEW p \in DOMAIN ps, IsWhite(ps[p])
    PROVE  MadeBefore(ps, p, 0) = MadeBefore(ps, p + 1, 0)
<1>1. /\ DOMAIN ps = 1 .. Len(ps) /\ Len(ps) \in Nat /\ \A q \in 1 .. Len(ps) : Len(ps[q]) \in Nat
      /\ ps[p] \in Seq(Char) /\ p \in Nat
  OBVIOUS
<1>2. \A c \in ChunksOf(ps) : c.page_no \in 1 .. Len(ps) /\ c.chunk_ord \in Nat
  BY <1>1, ChunksOfTyped
<1>3. ASSUME NEW c \in ChunksOf(ps), c.page_no = p PROVE FALSE
  <2>1. PICK q \in DOMAIN ps : \E m \in 0 .. LastWindow(Len(ps[q])) : OfWindow(c, ps, q, m)
    BY ChunksOfMember
  <2>2. PICK m \in 0 .. LastWindow(Len(ps[q])) : OfWindow(c, ps, q, m)
    BY <2>1
  <2>3. q = p
    BY <1>3, <2>2, OfWindowKey
  <2> DEFINE pg == ps[p]
             from == m * Step
             to == AtMost(from + Window, Len(pg))
  <2>4. pg \in Seq(Char) /\ Len(pg) \in Nat /\ LastWindow(Len(pg)) \in Nat /\ m \in Nat
    BY <1>1, <2>2, <2>3, LastWindowIs
  <2>5. from \in Nat
    BY <2>4, WindowAssumption DEF Step
  <2> HIDE DEF from, pg
  <2>6. to \in Nat /\ to <= Len(pg)
    BY <2>4, <2>5, WindowAssumption DEF AtMost
  <2> HIDE DEF to
  <2>7. ~(from >= to) /\ ~IsWhite(SubSeq(pg, from + 1, to))
    BY <2>2, <2>3 DEF OfWindow, BuildChunk, pg, from, to
  <2>8. from + 1 \in 1 .. Len(pg) /\ to \in 1 .. Len(pg)
    BY <2>4, <2>5, <2>6, <2>7
  <2>9. \A i \in from + 1 .. to : pg[i] \in Whitespace
    <3>1. \A i \in DOMAIN pg : pg[i] \in Whitespace
      BY DEF IsWhite, pg
    <3> QED BY <2>4, <2>5, <2>6, <3>1
  <2> QED BY <2>4, <2>7, <2>8, <2>9, WhiteSubSeq
<1> HIDE DEF ChunksOf
<1>4. \A c \in ChunksOf(ps) : (c.page_no < p \/ (c.page_no = p /\ c.chunk_ord < 0)) <=> (c.page_no < p + 1 \/ (c.page_no = p + 1 /\ c.chunk_ord < 0))
  <2> SUFFICES ASSUME NEW c \in ChunksOf(ps)
               PROVE  (c.page_no < p \/ (c.page_no = p /\ c.chunk_ord < 0)) <=> (c.page_no < p + 1 \/ (c.page_no = p + 1 /\ c.chunk_ord < 0))
    OBVIOUS
  <2>1. c.page_no \in Nat /\ c.chunk_ord \in Nat /\ c.page_no # p
    BY <1>2, <1>3
  <2> QED BY <1>1, <2>1
<1> QED BY <1>4 DEF MadeBefore

LEMMA WindowsStep == IInv /\ WindowsMade /\ [Next]_vars => WindowsMade'
<1> SUFFICES ASSUME IInv, WindowsMade, [Next]_vars PROVE WindowsMade'
  OBVIOUS
<1> USE DEF ChunksAreWindows, Done
<1>0. /\ pages \in Seq(Seq(Char)) /\ Len(pages) \in Nat /\ DOMAIN pages = 1 .. Len(pages) /\ pageNo \in Nat
      /\ \A p \in 1 .. Len(pages) : pages[p] \in Seq(Char) /\ Len(pages[p]) \in Nat
      /\ ord \in Nat
  BY PagesFacts DEF IInv, TypeOK
<1>1. CASE PdftotextFails
  BY <1>1 DEF PdftotextFails, Return, ExtractedDoc, WindowsMade
<1>2. ASSUME NEW text \in Outputs, PrintsNothing(text) PROVE WindowsMade'
  BY <1>2 DEF PrintsNothing, Return, ExtractedDoc, WindowsMade
<1>3. ASSUME NEW text \in Outputs, PrintsText(text) PROVE WindowsMade'
  <2>1. pc' = "page" /\ pageNo' = 1 /\ chunks' = {} /\ stdout' \in Seq(Char)
    BY <1>3, OutputsAssumption DEF PrintsText, IInv
  <2>2. pages' \in Seq(Seq(Char))
    BY <2>1, PagesTyped DEF pages
  <2>3. PICK ps \in Seq(Seq(Char)) : ps = pages'
    BY <2>2
  <2>4. Len(ps) \in Nat /\ DOMAIN ps = 1 .. Len(ps) /\ \A p \in 1 .. Len(ps) : Len(ps[p]) \in Nat
    OBVIOUS
  <2>5. \A c \in ChunksOf(ps) : c.page_no \in 1 .. Len(ps) /\ c.chunk_ord \in Nat
    BY <2>4, ChunksOfTyped
  <2>6. MadeBefore(ps, 1, 0) = {}
    BY <2>4, <2>5 DEF MadeBefore
  <2> QED BY <2>1, <2>3, <2>6 DEF WindowsMade
<1>4. CASE SkipWhitePage
  <2>1. /\ pc = "page" /\ pc' = "page" /\ pageNo' = pageNo + 1 /\ chunks' = chunks /\ pages' = pages
        /\ pageNo \in DOMAIN pages /\ IsWhite(pages[pageNo])
    BY <1>0, <1>4 DEF SkipWhitePage, pages, page, IInv
  <2>2. MadeBefore(pages, pageNo, 0) = MadeBefore(pages, pageNo + 1, 0)
    BY <1>0, <2>1, MadeSkip
  <2> QED BY <2>1, <2>2 DEF WindowsMade
<1>5. CASE TakeShortPage
  <2>1. /\ pc = "page" /\ pc' = "page" /\ pageNo' = pageNo + 1 /\ pages' = pages
        /\ pageNo \in DOMAIN pages /\ Len(page) <= Window
        /\ chunks' = chunks \cup BuildChunk(page, pageNo, 0, 0, Len(page))
    BY <1>0, <1>5 DEF TakeShortPage, pages, IInv
  <2>2. page = pages[pageNo] /\ Len(page) \in Nat /\ pageNo \in 1 .. Len(pages)
    BY <1>0, <2>1 DEF page
  <2>3. LastWindow(Len(page)) = 0
    BY <2>1 DEF LastWindow
  <2>4. 0 * Step = 0 /\ AtMost(0 * Step + Window, Len(page)) = Len(page)
    BY <2>1, <2>2, WindowAssumption DEF AtMost, Step
  <2>5. BuildChunk(page, pageNo, 0, 0, Len(page))
        = BuildChunk(pages[pageNo], pageNo, 0, 0 * Step, AtMost(0 * Step + Window, Len(pages[pageNo])))
    BY <2>2, <2>4
  <2> DEFINE W == BuildChunk(page, pageNo, 0, 0, Len(page))
  <2>6. W = BuildChunk(pages[pageNo], pageNo, 0, 0 * Step, AtMost(0 * Step + Window, Len(pages[pageNo])))
    BY <2>5
  <2> HIDE DEF W
  <2>7. 0 \in 0 .. LastWindow(Len(pages[pageNo])) /\ 0 = LastWindow(Len(pages[pageNo]))
    BY <2>2, <2>3
  <2>8. MadeBefore(pages, pageNo, 0) \cup W = MadeBefore(pages, pageNo + 1, 0)
    <3>1. DOMAIN pages = 1 .. Len(pages) /\ Len(pages) \in Nat /\ \A p \in 1 .. Len(pages) : Len(pages[p]) \in Nat
      BY <1>0
    <3>2. MakesNext(pages, pageNo, 0, W)
      BY <2>2, <2>6, <2>7, <3>1, MadeNext
    <3> QED BY <2>7, <3>2 DEF MakesNext
  <2>9. chunks' = MadeBefore(pages, pageNo + 1, 0)
    BY <2>1, <2>8 DEF WindowsMade, W
  <2> QED BY <2>1, <2>9 DEF WindowsMade
<1>6. CASE BeginWindows
  <2>1. /\ pc = "page" /\ pc' = "window" /\ pageNo' = pageNo /\ pages' = pages /\ page' = page /\ chunks' = chunks
        /\ ord' = 0 /\ start' = 0 /\ Len(page) > Window /\ pageNo \in DOMAIN pages
    BY <1>0, <1>6 DEF BeginWindows, pages, page, IInv
  <2>2. 0 * Step = 0 /\ 0 + Overlap < Len(page)
    <3>1. Len(page) \in Nat
      BY <1>0, <2>1 DEF page
    <3> QED BY <2>1, <3>1, WindowAssumption DEF Step
  <2> QED BY <2>1, <2>2 DEF WindowsMade
<1>7. CASE NextWindow
  <2> DEFINE n   == Len(pages[pageNo])
             end == AtMost(start + Window, n)
             W   == BuildChunk(pages[pageNo], pageNo, ord, start, end)
  <2>1. /\ pc = "window" /\ pages' = pages /\ pageNo \in 1 .. Len(pages) /\ n \in Nat /\ page = pages[pageNo]
        /\ start \in Nat /\ start = ord * Step /\ start + Overlap < n /\ chunks = MadeBefore(pages, pageNo, ord)
    BY <1>0, <1>7 DEF NextWindow, IInv, TypeOK, WindowsMade, pages, page
  <2>2. chunks' = chunks \cup W
    BY <1>7, <2>1 DEF NextWindow
  <2>3. \/ end = n /\ pc' = "page" /\ pageNo' = pageNo + 1
        \/ end # n /\ pc' = "window" /\ start' = start + Step /\ ord' = ord + 1 /\ pageNo' = pageNo
    BY <1>7, <2>1 DEF NextWindow, ReachesEnd, NextStart, NextOrd
  <2>4. W = BuildChunk(pages[pageNo], pageNo, ord, ord * Step, AtMost(ord * Step + Window, Len(pages[pageNo])))
    BY <2>1
  <2>5. Step \in Nat /\ Window \in Nat /\ Overlap \in Nat /\ Window = Step + Overlap
    BY WindowAssumption DEF Step
  <2>6. end = n <=> ~(start + Window < n)
    BY <2>1, <2>5 DEF AtMost
  <2>7. (ord + 1) * Step = start + Step
    BY <1>0, <2>1, <2>5
  <2> HIDE DEF W, end
  <2>8. ord <= LastWindow(n) /\ LastWindow(n) \in Nat
    BY <1>0, <2>1, LastWindowIs
  <2>9. ord + 1 <= LastWindow(n) <=> start + Window < n
    <3>1. ord + 1 \in Nat /\ ord + 1 # 0
      BY <1>0
    <3>2. ord + 1 <= LastWindow(n) <=> (ord + 1) * Step + Overlap < n
      BY <2>1, <3>1, LastWindowIs
    <3>3. (ord + 1) * Step + Overlap = start + Window
      BY <2>1, <2>5, <2>7
    <3> QED BY <3>2, <3>3
  <2>10. ord \in 0 .. LastWindow(Len(pages[pageNo])) /\ (end = n => ord = LastWindow(Len(pages[pageNo])))
    BY <1>0, <2>6, <2>8, <2>9
  <2>11. /\ MadeBefore(pages, pageNo, ord) \cup W = MadeBefore(pages, pageNo, ord + 1)
         /\ end = n => MadeBefore(pages, pageNo, ord + 1) = MadeBefore(pages, pageNo + 1, 0)
    <3>1. DOMAIN pages = 1 .. Len(pages) /\ Len(pages) \in Nat /\ \A p \in 1 .. Len(pages) : Len(pages[p]) \in Nat
      BY <1>0
    <3>2. MakesNext(pages, pageNo, ord, W)
      BY <2>1, <2>4, <2>10, <3>1, MadeNext
    <3> QED BY <2>10, <3>2 DEF MakesNext
  <2>12. chunks' = MadeBefore(pages, pageNo, ord + 1)
    BY <2>1, <2>2, <2>11
  <2>13. CASE end = n
    <3>1. pc' = "page" /\ pageNo' = pageNo + 1 /\ chunks' = MadeBefore(pages, pageNo + 1, 0)
      BY <2>3, <2>11, <2>12, <2>13
    <3> QED BY <2>1, <3>1 DEF WindowsMade
  <2>14. CASE end # n
    <3>1. pc' = "window" /\ pageNo' = pageNo /\ ord' = ord + 1 /\ start' = start + Step /\ page' = page
      BY <2>1, <2>3, <2>14 DEF page
    <3>2. start' = ord' * Step
      BY <2>7, <3>1
    <3>3. start' + Overlap < Len(page')
      BY <2>1, <2>5, <2>6, <2>14, <3>1
    <3> QED BY <2>1, <2>12, <3>1, <3>2, <3>3 DEF WindowsMade
  <2> QED BY <2>13, <2>14
<1>8. CASE Finish
  <2>1. pc = "page" /\ pageNo = Len(pages) + 1 /\ chunks' = chunks /\ pages' = pages /\ pc' = "done"
    BY <1>8, PagesFacts DEF Finish, Return, pages
  <2>2. \A c \in ChunksOf(pages) : c.page_no \in 1 .. Len(pages)
    BY <1>0, ChunksOfTyped
  <2>3. MadeBefore(pages, pageNo, 0) = ChunksOf(pages)
    <3>1. \A c \in ChunksOf(pages) : c.page_no < pageNo
      BY <1>0, <2>1, <2>2
    <3> HIDE DEF ChunksOf
    <3> QED BY <3>1 DEF MadeBefore
  <2> QED BY <2>1, <2>3 DEF WindowsMade
<1>9. CASE NextJob
  BY <1>9 DEF NextJob, WindowsMade
<1>10. CASE UNCHANGED vars
  <2>1. pages' = pages /\ page' = page
    BY <1>10 DEF vars, pages, page
  <2> QED BY <1>10, <2>1 DEF vars, WindowsMade
<1> QED BY <1>1, <1>2, <1>3, <1>4, <1>5, <1>6, <1>7, <1>8, <1>9, <1>10 DEF Next

\* For every size of window and overlap, chunk_page makes exactly the windows of
\* the closed form, with ordinals that count the white ones too.
THEOREM WindowsAreExact == Spec => []ChunksAreWindows
<1>1. Init => WindowsMade
  BY DEF Init, WindowsMade, ChunksAreWindows, Done
<1>2. WindowsMade => ChunksAreWindows
  BY DEF WindowsMade
<1> QED BY <1>1, <1>2, Invariance, WindowsStep, PTL DEF Spec

-----------------------------------------------------------------------------
(* Searching for what is not split.                                        *)

\* What is typed of a part is what the loop keeps of it up to its last
\* character that is not blank.
LEMMA TypedIsKept ==
    ASSUME NEW y \in Seq(Byte)
    PROVE  \/ SingleSpaced(y) = <<>>
           \/ \E m \in 1 .. Len(y) : /\ y[m] \notin AsciiBlank
                                     /\ SingleSpaced(y) = Sift(Spaced(y, AsciiBlank), Kept(y, AsciiBlank, m))
                                     /\ SingleSpaced(y) \in Seq(Byte)
<1> DEFINE Full == {i \in 1 .. Len(y) : y[i] \notin AsciiBlank}
           kept == {i \in DOMAIN y : \/ ~(y[i] \in AsciiBlank)
                                     \/ i > 1 /\ ~(y[i - 1] \in AsciiBlank) /\ \E j \in i .. Len(y) : ~(y[j] \in AsciiBlank)}
<1>1. SingleSpaced(y) = Sift(Spaced(y, AsciiBlank), kept)
  BY DEF SingleSpaced, Spaced
<1>2. DOMAIN y = 1 .. Len(y) /\ Len(y) \in Nat /\ \A i \in 1 .. Len(y) : y[i] \in Byte
  OBVIOUS
<1>3. CASE Full = {}
  <2>1. \A i \in 1 .. Len(y) : y[i] \in AsciiBlank
    BY <1>3
  <2>2. kept = {}
    BY <1>2, <2>1
  <2> QED BY <1>1, <2>2, SiftNothing
<1>4. CASE Full # {}
  <2>1. Full \in SUBSET Int /\ \A k \in Full : k <= Len(y)
    BY <1>2
  <2>2. Max(Full) \in Full /\ \A k \in Full : k <= Max(Full)
    <3>a. Len(y) \in Int
      BY <1>2
    <3>1. PICK n \in Int : n = Len(y)
      BY <3>a
    <3> HIDE DEF Full
    <3>2. \A k \in Full : k <= n
      BY <2>1, <3>1
    <3> QED BY <1>4, <2>1, <3>2, MaxOf
  <2>3. PICK m \in Full : \A k \in Full : k <= m
    BY <2>2
  <2>4. \A i \in 1 .. Len(y) : (\E j \in i .. Len(y) : y[j] \notin AsciiBlank) <=> i <= m
    BY <1>2, <2>3
  <2>5. kept = Kept(y, AsciiBlank, m)
    <3>1. \A i \in 1 .. Len(y) : i \in kept <=> i <= m /\ (y[i] \notin AsciiBlank \/ (i > 1 /\ y[i - 1] \notin AsciiBlank))
      BY <1>2, <2>3, <2>4
    <3>2. \A i \in 1 .. Len(y) : i \in Kept(y, AsciiBlank, m) <=> i <= m /\ (y[i] \notin AsciiBlank \/ (i > 1 /\ y[i - 1] \notin AsciiBlank))
      BY <1>2, <2>3 DEF Kept
    <3>3. kept \subseteq 1 .. Len(y) /\ Kept(y, AsciiBlank, m) \subseteq 1 .. Len(y)
      BY <1>2, <2>3 DEF Kept
    <3> HIDE DEF kept
    <3> QED BY <3>1, <3>2, <3>3
  <2>6. Spaced(y, AsciiBlank) \in Seq(Byte) /\ kept \in SUBSET DOMAIN Spaced(y, AsciiBlank)
    <3>1. \A i \in 1 .. Len(y) : Spaced(y, AsciiBlank)[i] \in Byte
      BY <1>2, TextAssumption DEF Spaced
    <3>2. Spaced(y, AsciiBlank) \in [1 .. Len(y) -> Byte] /\ DOMAIN Spaced(y, AsciiBlank) = DOMAIN y
      BY <1>2, <3>1 DEF Spaced
    <3>3. Spaced(y, AsciiBlank) \in Seq(Byte)
      BY <1>2, <3>2, SeqDef
    <3> QED BY <1>2, <3>2, <3>3
  <2> HIDE DEF kept
  <2>7. Sift(Spaced(y, AsciiBlank), kept) \in Seq(Byte)
    BY <2>6, SiftTyped
  <2> QED BY <1>1, <2>3, <2>5, <2>7
<1> QED BY <1>3, <1>4

\* The words of a part of a text are found in the folded text.
LEMMA TypedIsFound ==
    ASSUME NEW x \in Seq(Char), NEW y \in Seq(Char), NEW z \in Seq(Char), NEW text, text = (x \o y) \o z
    PROVE  Occurrences(SingleSpaced(Fold(y)), NormalizeForIndex(text)) # {}
<1> DEFINE fy    == Fold(y)
           typed == SingleSpaced(fy)
           norm  == NormalizeForIndex(text)
<1>1. fy \in Seq(Byte) /\ Fold(text) \in Seq(Byte) /\ norm \in Seq(Byte) /\ \E a \in Nat : PartAt(a, fy, Fold(text))
  BY FoldedInside
<1>2. CASE typed = <<>>
  <2>1. Len(typed) = 0 /\ DOMAIN typed = {} /\ Len(norm) \in Nat
    BY <1>1, <1>2
  <2> HIDE DEF typed, norm
  <2>2. 0 \in Occurrences(typed, norm)
    BY <2>1 DEF Occurrences
  <2> QED BY <2>2 DEF typed, norm, fy
<1>3. CASE typed # <<>>
  <2> HIDE DEF fy
  <2>1. PICK m \in 1 .. Len(fy) : /\ fy[m] \notin AsciiBlank
                                  /\ typed = Sift(Spaced(fy, AsciiBlank), Kept(fy, AsciiBlank, m)) /\ typed \in Seq(Byte)
    BY <1>1, <1>3, TypedIsKept
  <2> HIDE DEF typed
  <2>2. Occurrences(typed, CollapseBlanks(Fold(text), AsciiBlank)) # {}
    BY <1>1, <2>1, PartIsFound
  <2> QED BY <2>2 DEF NormalizeForIndex, typed, fy
<1> QED BY <1>2, <1>3

LEMMA UnsplitIsSearchable == IInv /\ PhrasesUnsplit => PhrasesSearchable
<1> SUFFICES ASSUME IInv, PhrasesUnsplit, Done("ok"), NEW p \in DOMAIN pages, NEW i \in DOMAIN pages[p], NEW j \in DOMAIN pages[p],
                    i <= j, j <= i + Overlap, ~IsWhite(SubSeq(pages[p], i, j))
             PROVE  \E c \in chunks : c.page_no = p /\ Occurrences(SingleSpaced(Fold(SubSeq(pages[p], i, j))), ChunkNorm(c)) # {}
  BY DEF PhrasesSearchable
<1>1. PICK c \in chunks : c.page_no = p /\ c.from < i /\ j <= c.to
  BY DEF PhrasesUnsplit, InOneChunk
<1>2. pages[p] \in Seq(Char) /\ c.from \in Nat /\ c.to \in Nat /\ c.to <= Len(pages[p])
  BY <1>1, ChunkTextFacts, PagesFacts
<1> DEFINE pg == pages[p]
           f == c.from
           t == c.to
           h == i - 1
           x == SubSeq(pg, f + 1, h)
           y == SubSeq(pg, h + 1, j)
           z == SubSeq(pg, j + 1, t)
<1>3. ChunkText(c) = SubSeq(pg, f + 1, t)
  BY <1>1 DEF ChunkText
<1>4. pg \in Seq(Char) /\ f \in Nat /\ t \in Nat /\ h \in Nat /\ j \in Nat /\ f <= h /\ h <= j /\ j <= t /\ t <= Len(pg) /\ h + 1 = i
  BY <1>1, <1>2
<1> HIDE DEF pg, f, t, h
<1>5. SubSeq(pg, f + 1, t) = (x \o y) \o z
  BY <1>4, ThreeParts
<1>6. x \in Seq(Char) /\ y \in Seq(Char) /\ z \in Seq(Char)
  BY <1>4, SubSeqFacts
<1>7. y = SubSeq(pages[p], i, j)
  BY <1>4 DEF pg
<1> HIDE DEF x, y, z
<1>8. Occurrences(SingleSpaced(Fold(y)), NormalizeForIndex(ChunkText(c))) # {}
  BY <1>3, <1>5, <1>6, TypedIsFound
<1> QED BY <1>1, <1>7, <1>8 DEF ChunkNorm

\* Wherever pages are cut and whatever the transliteration makes of the
\* characters, the words of a short stretch are found in one chunk of its page.
THEOREM PhrasesAreSearchable == Spec => []PhrasesSearchable
BY Invariance, PhrasesNeverSplit, UnsplitIsSearchable, PTL
===============================================================================
