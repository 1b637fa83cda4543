--------------------------- MODULE TextSearchProofs ---------------------------
(***************************************************************************)
(* What the searches return, for every collection of documents and every   *)
(* query: the index stands for the rows of the database, and a literal,    *)
(* regex or fuzzy search lists the rows it should, each of them once.      *)
(***************************************************************************)
EXTENDS TextSearch, TextLemmas

-----------------------------------------------------------------------------
(* The rows of a document.                                                 *)

\* The row that a chunk of the pages ps of document d becomes.
RowOf(d, ps, c) ==
    LET body == SubSeq(ps[c.page_no], c.from + 1, c.to)
    IN  [doc |-> d, page_no |-> c.page_no, chunk_ord |-> c.chunk_ord,
         text_utf8 |-> body, text_norm_ascii |-> NormalizeForIndex(body)]

LEMMA RowsOfMember ==
    ASSUME NEW d, NEW t, NEW r
    PROVE  r \in RowsOf(d, t) <=> \E c \in ChunksOf(SplitPages(t)) : r = RowOf(d, SplitPages(t), c)
<1> HIDE DEF SplitPages, ChunksOf
<1> QED BY DEF RowsOf, RowOf

\* The pages of a text are numbered from 1, and an empty text has none.
LEMMA PagesTyped ==
    ASSUME NEW t \in Seq(Char)
    PROVE  \E n \in Nat : /\ DOMAIN SplitPages(t) = 1 .. n /\ \A p \in 1 .. n : SplitPages(t)[p] \in Seq(Char)
                          /\ t = <<>> => n = 0
<1>1. CASE t = <<>>
  <2>1. SplitPages(t) = <<>>
    BY <1>1 DEF SplitPages
  <2>2. DOMAIN SplitPages(t) = 1 .. 0
    BY <2>1
  <2> QED BY <2>2
<1>2. CASE t # <<>>
  <2>1. PICK n \in Nat \ {0} : n = PageAt(t, Len(t))
    BY <1>2, SplitPagesProperties
  <2>2. DOMAIN SplitPages(t) = 1 .. n /\ SplitPages(t) \in Seq(Seq(Char))
    BY <1>2, <2>1, SplitPagesProperties
  <2> HIDE DEF SplitPages
  <2>3. \A p \in 1 .. n : SplitPages(t)[p] \in Seq(Char)
    BY <2>2
  <2> QED BY <1>2, <2>1, <2>2, <2>3
<1> QED BY <1>1, <1>2

\* A chunk is a part of its page that is not all white.
IsPart(c, pg) ==
    /\ c.from \in Nat /\ c.to \in Nat /\ c.from < c.to /\ c.to <= Len(pg)
    /\ ~IsWhite(SubSeq(pg, c.from + 1, c.to))

LEMMA ChunkIsPart ==
    ASSUME NEW ps, NEW n \in Nat, DOMAIN ps = 1 .. n, \A p \in 1 .. n : ps[p] \in Seq(Char), NEW c \in ChunksOf(ps)
    PROVE  c.page_no \in 1 .. n /\ c.chunk_ord \in Nat /\ IsPart(c, ps[c.page_no])
<1>1. PICK p \in 1 .. n : \E k \in 0 .. LastWindow(Len(ps[p])) : OfWindow(c, ps, p, k)
  BY ChunksOfMember
<1>2. PICK l \in Nat : l = Len(ps[p])
  OBVIOUS
<1>3. LastWindow(l) \in Nat
  BY LastWindowIs
<1>4. PICK k \in Nat : OfWindow(c, ps, p, k)
  BY <1>1, <1>2, <1>3
<1> DEFINE from == k * Step
           to   == AtMost(k * Step + Window, l)
<1>5. c \in BuildChunk(ps[p], p, k, from, to)
  BY <1>2, <1>4 DEF OfWindow
<1>6. from \in Nat /\ to \in Nat /\ to <= l
  <2>1. Step \in Nat /\ Window \in Nat
    BY WindowAssumption DEF Step
  <2>2. from \in Nat
    BY <2>1
  <2> QED BY <1>2, <2>1, <2>2 DEF AtMost
<1> HIDE DEF from, to
<1>7. ~(from >= to) /\ ~IsWhite(SubSeq(ps[p], from + 1, to)) /\ c = Chunk(p, k, from, to)
  BY <1>5 DEF BuildChunk
<1> QED BY <1>2, <1>6, <1>7 DEF Chunk, IsPart

LEMMA ChunkKey ==
    ASSUME NEW ps, NEW c \in ChunksOf(ps), NEW e \in ChunksOf(ps), c.page_no = e.page_no, c.chunk_ord = e.chunk_ord
    PROVE  c = e
<1>1. PICK p \in DOMAIN ps : \E k \in 0 .. LastWindow(Len(ps[p])) : OfWindow(c, ps, p, k)
  BY ChunksOfMember
<1>2. PICK k : OfWindow(c, ps, p, k)
  BY <1>1
<1>3. PICK q \in DOMAIN ps : \E m \in 0 .. LastWindow(Len(ps[q])) : OfWindow(e, ps, q, m)
  BY ChunksOfMember
<1>4. PICK m : OfWindow(e, ps, q, m)
  BY <1>3
<1>5. p = q /\ k = m
  BY <1>2, <1>4, OfWindowKey
<1> QED BY <1>2, <1>4, <1>5 DEF OfWindow, BuildChunk

\* What a row of document d is.
IsRow(r, d) ==
    /\ r.doc = d /\ r.page_no \in Nat /\ r.chunk_ord \in Nat
    /\ r.text_utf8 \in Seq(Char) /\ r.text_norm_ascii \in Seq(Byte)
    /\ r.text_norm_ascii = NormalizeForIndex(r.text_utf8)

LEMMA PartTyped ==
    ASSUME NEW c, NEW pg \in Seq(Char), IsPart(c, pg)
    PROVE  SubSeq(pg, c.from + 1, c.to) \in Seq(Char)
<1>1. PICK a \in Nat, b \in Nat : a = c.from /\ b = c.to /\ a < b /\ b <= Len(pg)
  BY DEF IsPart
<1>2. \A i \in a + 1 .. b : pg[i] \in Char
  BY <1>1
<1> QED BY <1>1, <1>2

LEMMA RowTyped ==
    ASSUME NEW d, NEW t \in Seq(Char), NEW r \in RowsOf(d, t)
    PROVE  IsRow(r, d)
<1> DEFINE ps == SplitPages(t)
<1>1. PICK n \in Nat : DOMAIN ps = 1 .. n /\ \A p \in 1 .. n : ps[p] \in Seq(Char)
  BY PagesTyped
<1>2. PICK c \in ChunksOf(ps) : r = RowOf(d, ps, c)
  BY RowsOfMember
<1> HIDE DEF ps
<1>3. c.page_no \in 1 .. n /\ c.chunk_ord \in Nat /\ IsPart(c, ps[c.page_no])
  BY <1>1, ChunkIsPart
<1>4. PICK body \in Seq(Char) : body = SubSeq(ps[c.page_no], c.from + 1, c.to)
  BY <1>1, <1>3, PartTyped
<1>5. NormalizeForIndex(body) \in Seq(Byte)
  BY NormalizeTyped
<1>6. r = [doc |-> d, page_no |-> c.page_no, chunk_ord |-> c.chunk_ord,
           text_utf8 |-> body, text_norm_ascii |-> NormalizeForIndex(body)]
  BY <1>2, <1>4 DEF RowOf
<1> QED BY <1>3, <1>5, <1>6 DEF IsRow

\* Page and ordinal tell the rows of a document apart.
LEMMA RowKey ==
    ASSUME NEW d, NEW t, NEW r \in RowsOf(d, t), NEW s \in RowsOf(d, t),
           r.page_no = s.page_no, r.chunk_ord = s.chunk_ord
    PROVE  r = s
<1>1. PICK c \in ChunksOf(SplitPages(t)) : r = RowOf(d, SplitPages(t), c)
  BY RowsOfMember
<1>2. PICK e \in ChunksOf(SplitPages(t)) : s = RowOf(d, SplitPages(t), e)
  BY RowsOfMember
<1>3. c.page_no = e.page_no /\ c.chunk_ord = e.chunk_ord
  BY <1>1, <1>2 DEF RowOf
<1>4. c = e
  BY <1>3, ChunkKey
<1> QED BY <1>1, <1>2, <1>4

LEMMA RowsFinite ==
    ASSUME NEW d, NEW t \in Seq(Char)
    PROVE  IsFiniteSet(RowsOf(d, t)) /\ RowsOf(d, <<>>) = {}
<1> DEFINE ps == SplitPages(t)
<1>1. PICK n \in Nat : DOMAIN ps = 1 .. n /\ \A p \in 1 .. n : ps[p] \in Seq(Char)
  BY PagesTyped
<1>2. \A p \in 1 .. n : Len(ps[p]) \in Nat
  <2> HIDE DEF ps
  <2> QED BY <1>1
<1> DEFINE C == ChunksOf(ps)
           f == [c \in C |-> RowOf(d, ps, c)]
<1>3. IsFiniteSet(C)
  <2> HIDE DEF ps
  <2> QED BY <1>1, <1>2, ChunksOfFinite
<1>4. RowsOf(d, t) = {f[c] : c \in C}
  <2> HIDE DEF C
  <2>1. \A r : r \in RowsOf(d, t) <=> \E c \in C : r = RowOf(d, ps, c)
    BY RowsOfMember DEF C
  <2> HIDE DEF ps
  <2> QED BY <2>1
<1>5. IsFiniteSet({f[c] : c \in C})
  <2> HIDE DEF f, C
  <2> QED BY <1>3, FiniteImage
<1>6. RowsOf(d, <<>>) = {}
  <2>1. <<>> \in Seq(Char)
    OBVIOUS
  <2>2. PICK m \in Nat : DOMAIN SplitPages(<<>>) = 1 .. m /\ m = 0
    BY <2>1, PagesTyped
  <2>3. \A c : c \notin ChunksOf(SplitPages(<<>>))
    BY <2>2, ChunksOfMember
  <2> QED BY <2>3, RowsOfMember
<1> QED BY <1>4, <1>5, <1>6

-----------------------------------------------------------------------------
(* What base and overlay hold.                                             *)

\* The texts a document may have.
TextOf(d) == Texts[d] \cup {<<>>}

\* The rows there may be.
Rows == UNION {UNION {RowsOf(d, t) : t \in Texts[d]} : d \in Docs}

LiveBase == DOMAIN base \ tombstones

\* A document is either in the base as it is in the database, or hidden there
\* as a whole with its rows in the overflow.
IndexInv ==
    /\ text \in [Docs -> {<<>>} \cup UNION {Texts[d] : d \in Docs}] /\ \A d \in Docs : text[d] \in TextOf(d)
    /\ base \in Seq(Rows) /\ Distinct(base)
    /\ overflow \in Seq(Rows) /\ Distinct(overflow)
    /\ tombstones \subseteq DOMAIN base
    /\ \A i, j \in DOMAIN base : base[i].doc = base[j].doc => (i \in tombstones <=> j \in tombstones)
    /\ \A i \in LiveBase : \A j \in DOMAIN overflow : base[i].doc # overflow[j].doc
    /\ LiveRows = Picked(base, LiveBase) \cup ToSet(overflow)
    /\ tracked \subseteq BigramsIn(ToSet(base))

LEMMA TextOfTyped ==
    ASSUME NEW d \in Docs, NEW t \in TextOf(d)
    PROVE  t \in Seq(Char)
<1>1. Texts[d] \subseteq Seq(Char) \ {<<>>}
  BY SearchAssumption
<1>2. <<>> \in Seq(Char)
  OBVIOUS
<1> QED BY <1>1, <1>2 DEF TextOf

LEMMA RowsTyped ==
    ASSUME NEW r \in Rows
    PROVE  r.doc \in Docs /\ IsRow(r, r.doc)
<1>1. PICK d \in Docs : r \in UNION {RowsOf(d, t) : t \in Texts[d]}
  BY DEF Rows
<1>2. PICK t \in Texts[d] : r \in RowsOf(d, t)
  BY <1>1
<1>3. t \in Seq(Char)
  BY TextOfTyped DEF TextOf
<1>4. IsRow(r, d)
  BY <1>2, <1>3, RowTyped
<1> QED BY <1>4 DEF IsRow

LEMMA RowsOfRows ==
    ASSUME NEW d \in Docs, NEW t \in TextOf(d)
    PROVE  RowsOf(d, t) \subseteq Rows /\ IsFiniteSet(RowsOf(d, t)) /\ \A r \in RowsOf(d, t) : r.doc = d
<1>1. t \in Seq(Char)
  BY TextOfTyped
<1>2. IsFiniteSet(RowsOf(d, t)) /\ RowsOf(d, <<>>) = {}
  BY <1>1, RowsFinite
<1>3. \A r \in RowsOf(d, t) : IsRow(r, d)
  BY <1>1, RowTyped
<1>4. RowsOf(d, t) \subseteq Rows
  BY <1>2 DEF TextOf, Rows
<1> QED BY <1>2, <1>3, <1>4 DEF IsRow

\* The rows of a document, replaced.
LEMMA ReplaceStep ==
    ASSUME IndexInv, NEW d \in Docs, NEW t \in TextOf(d), text' = [text EXCEPT ![d] = t], Replace(d, RowsOf(d, t))
    PROVE  IndexInv'
<1> DEFINE K == {i \in DOMAIN overflow : overflow[i].doc # d}
           kept == Sift(overflow, K)
<1>1. /\ text \in [Docs -> {<<>>} \cup UNION {Texts[e] : e \in Docs}] /\ \A e \in Docs : text[e] \in TextOf(e)
      /\ base \in Seq(Rows) /\ Distinct(base)
      /\ overflow \in Seq(Rows) /\ Distinct(overflow)
      /\ tombstones \subseteq DOMAIN base
      /\ \A i, j \in DOMAIN base : base[i].doc = base[j].doc => (i \in tombstones <=> j \in tombstones)
      /\ \A i \in LiveBase : \A j \in DOMAIN overflow : base[i].doc # overflow[j].doc
      /\ tracked \subseteq BigramsIn(ToSet(base))
  BY DEF IndexInv
<1>2. /\ tombstones' = tombstones \cup {i \in DOMAIN base : base[i].doc = d} /\ base' = base /\ tracked' = tracked
      /\ \E new \in Layouts(RowsOf(d, t)) : overflow' = kept \o new
  BY DEF Replace
<1>3. PICK new \in SetToSeqs(RowsOf(d, t)) : overflow' = kept \o new
  BY <1>2 DEF Layouts
<1>4. RowsOf(d, t) \subseteq Rows /\ IsFiniteSet(RowsOf(d, t)) /\ \A r \in RowsOf(d, t) : r.doc = d
  BY RowsOfRows
<1>5. new \in Seq(Rows) /\ ToSet(new) = RowsOf(d, t) /\ Distinct(new)
  <2>1. new \in Seq(RowsOf(d, t)) /\ ToSet(new) = RowsOf(d, t) /\ \A i, j \in DOMAIN new : new[i] = new[j] => i = j
    BY <1>4, ListsAll
  <2>2. new \in Seq(Rows)
    BY <1>4, <2>1
  <2> QED BY <2>1, <2>2 DEF Distinct
<1>6. kept \in Seq(Rows) /\ ToSet(kept) = Picked(overflow, K) /\ Distinct(kept)
  <2>1. K \in SUBSET DOMAIN overflow
    OBVIOUS
  <2> HIDE DEF K
  <2> QED BY <1>1, <2>1, SiftTyped
<1>7. ToSet(kept) \cap ToSet(new) = {}
  BY <1>4, <1>5, <1>6 DEF Picked
<1> HIDE DEF kept
<1>8. overflow' \in Seq(Rows) /\ ToSet(overflow') = Picked(overflow, K) \cup RowsOf(d, t) /\ Distinct(overflow')
  <2>1. /\ kept \o new \in Seq(Rows) /\ ToSet(kept \o new) = ToSet(kept) \cup ToSet(new)
        /\ Distinct(kept) /\ Distinct(new) /\ ToSet(kept) \cap ToSet(new) = {} => Distinct(kept \o new)
    BY <1>5, <1>6, ConcatSet
  <2> QED BY <1>3, <1>5, <1>6, <1>7, <2>1
<1>9. \A x \in ToSet(overflow') : x.doc = d \/ \E j \in DOMAIN overflow : overflow[j] = x /\ x.doc # d
  BY <1>4, <1>8 DEF Picked
<1>10. \A i : i \in LiveBase' <=> i \in LiveBase /\ base[i].doc # d
  BY <1>2 DEF LiveBase
<1>11. \A i \in LiveBase' : \A j \in DOMAIN overflow' : base'[i].doc # overflow'[j].doc
  <2> SUFFICES ASSUME NEW i \in LiveBase', NEW j \in DOMAIN overflow' PROVE base[i].doc # overflow'[j].doc
    BY <1>2
  <2>1. overflow'[j] \in ToSet(overflow')
    BY DEF ToSet
  <2> QED BY <1>1, <1>9, <1>10, <2>1
<1>12. LiveRows' = Picked(base', LiveBase') \cup ToSet(overflow')
  <2>1. \A r : r \in LiveRows' <=> \E e \in Docs : r \in RowsOf(e, text'[e])
    BY DEF LiveRows
  <2>2. \A r : r \in LiveRows <=> \E e \in Docs : r \in RowsOf(e, text[e])
    BY DEF LiveRows
  <2>3. \A e \in Docs : text'[e] = IF e = d THEN t ELSE text[e]
    BY <1>1
  <2>4. \A e \in Docs : \A r \in RowsOf(e, text[e]) : r.doc = e
    BY <1>1, RowsOfRows
  <2>5. \A r : r \in LiveRows' <=> (r \in LiveRows /\ r.doc # d) \/ r \in RowsOf(d, t)
    BY <2>1, <2>2, <2>3, <2>4
  <2>6. \A r : r \in LiveRows <=> (\E i \in LiveBase : r = base[i]) \/ (\E j \in DOMAIN overflow : r = overflow[j])
    BY DEF IndexInv, Picked, ToSet
  <2>7. \A r : r \in Picked(base', LiveBase') <=> \E i \in LiveBase : r = base[i] /\ base[i].doc # d
    BY <1>2, <1>10 DEF Picked
  <2>8. \A r : r \in ToSet(overflow') <=> (\E j \in DOMAIN overflow : r = overflow[j] /\ r.doc # d) \/ r \in RowsOf(d, t)
    BY <1>8 DEF Picked
  <2>9. \A r : r \in LiveRows' <=> r \in Picked(base', LiveBase') \/ r \in ToSet(overflow')
    BY <2>5, <2>6, <2>7, <2>8
  <2> QED BY <2>9
<1>13. /\ text' \in [Docs -> {<<>>} \cup UNION {Texts[e] : e \in Docs}] /\ \A e \in Docs : text'[e] \in TextOf(e)
  <2>1. t \in {<<>>} \cup UNION {Texts[e] : e \in Docs}
    BY DEF TextOf
  <2> QED BY <1>1, <2>1
<1>14. /\ tombstones' \subseteq DOMAIN base'
       /\ \A i, j \in DOMAIN base' : base'[i].doc = base'[j].doc => (i \in tombstones' <=> j \in tombstones')
  BY <1>1, <1>2
<1>15. tracked' \subseteq BigramsIn(ToSet(base'))
  BY <1>1, <1>2
<1> QED BY <1>1, <1>2, <1>8, <1>11, <1>12, <1>13, <1>14, <1>15 DEF IndexInv

LEMMA LiveRowsFinite ==
    ASSUME \A d \in Docs : text[d] \in TextOf(d)
    PROVE  IsFiniteSet(LiveRows) /\ LiveRows \subseteq Rows
<1> DEFINE f == [d \in Docs |-> RowsOf(d, text[d])]
           All == {f[d] : d \in Docs}
<1>1. LiveRows = UNION All
  BY DEF LiveRows
<1>2. \A d \in Docs : RowsOf(d, text[d]) \subseteq Rows /\ IsFiniteSet(RowsOf(d, text[d]))
  BY RowsOfRows
<1>3. \A T \in All : IsFiniteSet(T) /\ T \subseteq Rows
  BY <1>2
<1>4. IsFiniteSet(All)
  <2>1. IsFiniteSet(Docs)
    BY SearchAssumption
  <2> HIDE DEF f
  <2> QED BY <2>1, FiniteImage
<1> HIDE DEF All
<1>5. IsFiniteSet(UNION All)
  BY <1>3, <1>4, FS_UNION
<1>6. UNION All \subseteq Rows
  BY <1>3
<1> QED BY <1>1, <1>5, <1>6

LEMMA RebuildStep ==
    ASSUME IndexInv, Rebuild
    PROVE  IndexInv'
<1>1. base' \in SetToSeqs(LiveRows) /\ tombstones' = {} /\ overflow' = <<>> /\ text' = text
  BY DEF Rebuild, Layouts
<1>2. tracked' \subseteq BigramsIn(LiveRows)
  BY DEF Rebuild
<1>3. IsFiniteSet(LiveRows) /\ LiveRows \subseteq Rows
  BY LiveRowsFinite DEF IndexInv
<1>4. base' \in Seq(LiveRows) /\ ToSet(base') = LiveRows /\ \A i, j \in DOMAIN base' : base'[i] = base'[j] => i = j
  BY <1>1, <1>3, ListsAll
<1>5. base' \in Seq(Rows) /\ Distinct(base')
  BY <1>3, <1>4 DEF Distinct
<1>6. overflow' \in Seq(Rows) /\ Distinct(overflow') /\ ToSet(overflow') = {} /\ DOMAIN overflow' = {}
  BY <1>1 DEF Distinct, ToSet
<1>7. LiveRows' = LiveRows
  BY <1>1 DEF LiveRows
<1>8. LiveBase' = DOMAIN base'
  BY <1>1 DEF LiveBase
<1>9. LiveRows' = Picked(base', LiveBase') \cup ToSet(overflow')
  BY <1>4, <1>6, <1>7, <1>8 DEF Picked, ToSet
<1> QED BY <1>1, <1>2, <1>4, <1>5, <1>6, <1>9 DEF IndexInv

\* The index stands for the database.
LEMMA IndexStands == Spec => []IndexInv
<1>1. Init => IndexInv
  <2> SUFFICES ASSUME Init PROVE IndexInv
    OBVIOUS
  <2>1. /\ text = [d \in Docs |-> <<>>] /\ base = <<>> /\ tracked = {} /\ tombstones = {} /\ overflow = <<>>
    BY DEF Init
  <2>2. \A d \in Docs : RowsOf(d, text[d]) = {}
    <3>1. <<>> \in Seq(Char)
      OBVIOUS
    <3> QED BY <2>1, <3>1, RowsFinite
  <2>3. LiveRows = {}
    BY <2>2 DEF LiveRows
  <2>4. Picked(base, LiveBase) = {} /\ ToSet(overflow) = {} /\ DOMAIN base = {} /\ DOMAIN overflow = {}
    BY <2>1 DEF Picked, LiveBase, ToSet
  <2>5. \A d \in Docs : text[d] \in TextOf(d)
    BY <2>1 DEF TextOf
  <2>6. text \in [Docs -> {<<>>} \cup UNION {Texts[d] : d \in Docs}]
    BY <2>1
  <2> QED BY <2>1, <2>3, <2>4, <2>5, <2>6 DEF IndexInv, Distinct, LiveBase
<1>2. IndexInv /\ [Next]_vars => IndexInv'
  <2> SUFFICES ASSUME IndexInv, [Next]_vars PROVE IndexInv'
    OBVIOUS
  <2>0. ASSUME NEW d \in Docs, NEW t \in TextOf(d), text' = [text EXCEPT ![d] = t], Replace(d, RowsOf(d, t))
        PROVE  IndexInv'
    BY <2>0, ReplaceStep
  <2>1. ASSUME NEW d \in Docs, NEW t \in Texts[d], UpsertDoc(d, t) PROVE IndexInv'
    <3>1. t \in TextOf(d)
      BY DEF TextOf
    <3>2. text' = [text EXCEPT ![d] = t] /\ Replace(d, RowsOf(d, t))
      BY <2>1 DEF UpsertDoc
    <3> QED BY <3>1, <3>2, <2>0
  <2>2. ASSUME NEW d \in Docs, RemoveDoc(d) PROVE IndexInv'
    <3>1. RowsOf(d, <<>>) = {} /\ <<>> \in TextOf(d)
      <4>1. <<>> \in Seq(Char)
        OBVIOUS
      <4> QED BY <4>1, RowsFinite DEF TextOf
    <3>2. PICK t : t = <<>>
      OBVIOUS
    <3>3. text' = [text EXCEPT ![d] = t] /\ Replace(d, RowsOf(d, t))
      BY <2>2, <3>1, <3>2 DEF RemoveDoc
    <3>4. t \in TextOf(d)
      BY <3>1, <3>2
    <3> QED BY <3>3, <3>4, <2>0
  <2>3. CASE Rebuild
    BY <2>3, RebuildStep
  <2>4. ASSUME UNCHANGED indexVars PROVE IndexInv'
    <3>1. text' = text /\ base' = base /\ tracked' = tracked /\ tombstones' = tombstones /\ overflow' = overflow
      BY <2>4 DEF indexVars
    <3>2. LiveBase' = LiveBase /\ LiveRows' = LiveRows
      BY <3>1 DEF LiveBase, LiveRows
    <3> QED BY <3>1, <3>2 DEF IndexInv
  <2>5. ASSUME NEW q \in Queries, NEW limit \in Limits, LiteralSearch(q, limit) PROVE IndexInv'
    BY <2>4, <2>5 DEF LiteralSearch, Answer
  <2>6. ASSUME NEW pattern \in Patterns, NEW limit \in Limits, RegexSearch(pattern, limit) PROVE IndexInv'
    BY <2>4, <2>6 DEF RegexSearch, Answer
  <2>7. ASSUME NEW q \in Queries, NEW limit \in Limits, FuzzySearch(q, limit) PROVE IndexInv'
    BY <2>4, <2>7 DEF FuzzySearch, Answer
  <2>8. CASE Return
    BY <2>4, <2>8 DEF Return
  <2>9. CASE UNCHANGED vars
    BY <2>4, <2>9 DEF vars
  <2> QED BY <2>1, <2>2, <2>3, <2>5, <2>6, <2>7, <2>8, <2>9 DEF Next
<1> QED BY <1>1, <1>2, PTL DEF Spec

-----------------------------------------------------------------------------
(* Hits stand for rows.                                                    *)

LEMMA FindTyped ==
    ASSUME NEW sub, NEW s, Has(sub, s)
    PROVE  Find(sub, s) \in Nat /\ Find(sub, s) \in Occurrences(sub, s)
<1>1. Occurrences(sub, s) \in SUBSET Nat /\ Occurrences(sub, s) # {}
  BY DEF Occurrences, Has
<1> HIDE DEF Occurrences
<1> QED BY <1>1, MinOf DEF Find

LEMMA LargerOf ==
    ASSUME NEW a \in Int, NEW b \in Nat
    PROVE  Max({a, b}) \in Nat
<1> DEFINE T == {a, b}
<1>1. PICK n \in Int : a <= n /\ b <= n
  <2>1. CASE a <= b
    BY <2>1
  <2>2. CASE b <= a
    BY <2>2
  <2> QED BY <2>1, <2>2
<1>2. T \in SUBSET Int /\ T # {} /\ (\A k \in T : k <= n) /\ b \in T /\ \A k \in T : k = a \/ k = b
  BY <1>1
<1> HIDE DEF T
<1>3. Max(T) \in T /\ \A k \in T : k <= Max(T)
  BY <1>2, MaxOf
<1>4. PICK m : m = Max(T)
  OBVIOUS
<1>5. m \in Int /\ b <= m
  BY <1>2, <1>3, <1>4
<1>6. Max(T) \in Nat
  BY <1>4, <1>5
<1> QED BY <1>6 DEF T

LEMMA TakeCharsTyped ==
    ASSUME NEW t \in Seq(Char), NEW max \in Nat
    PROVE  TakeCharsWithinBytes(t, max) \in Seq(Char) /\ Len(TakeCharsWithinBytes(t, max)) \in 0 .. Len(t)
<1> DEFINE Fit == {n \in 0 .. Len(t) : ByteLen(SubSeq(t, 1, n)) <= max}
<1>1. PICK l \in Nat : l = Len(t)
  OBVIOUS
<1>2. SubSeq(t, 1, 0) = <<>>
  OBVIOUS
<1>3. ByteLen(<<>>) = 0
  <2>1. <<>> \in Seq(Char) /\ Utf8 \in [Char -> Seq(Byte)]
    BY TextAssumption
  <2>2. PICK out : Spells(out, <<>>, Utf8, Byte) /\ Spelled(<<>>, Utf8) = out[Len(<<>>)]
    BY <2>1, SpelledUnfolds
  <2>3. Spelled(<<>>, Utf8) = <<>>
    BY <2>2 DEF Spells
  <2> QED BY <2>3 DEF ByteLen, Encode
<1>4. Fit \in SUBSET Int /\ Fit # {} /\ \A k \in Fit : k <= l
  <2>1. 0 \in Fit
    <3>1. 0 \in 0 .. Len(t)
      BY <1>1
    <3>2. ByteLen(SubSeq(t, 1, 0)) = 0
      BY <1>2, <1>3, Zenon
    <3> QED BY <3>1, <3>2
  <2>2. \A k \in Fit : k \in 0 .. l
    BY <1>1
  <2> HIDE DEF Fit
  <2> QED BY <2>1, <2>2
<1>5. Max(Fit) \in Fit
  <2> HIDE DEF Fit
  <2> QED BY <1>4, MaxOf
<1>6. PICK m \in 0 .. Len(t) : m = Max(Fit)
  BY <1>5
<1>7. SubSeq(t, 1, m) \in Seq(Char) /\ Len(SubSeq(t, 1, m)) = m
  <2>1. \A i \in 1 .. m : t[i] \in Char
    BY <1>1, <1>6
  <2>2. m \in Nat
    BY <1>6
  <2> QED BY <2>1, <2>2
<1>8. TakeCharsWithinBytes(t, max) = SubSeq(t, 1, Max(Fit))
  BY DEF TakeCharsWithinBytes
<1> HIDE DEF Fit
<1>9. TakeCharsWithinBytes(t, max) = SubSeq(t, 1, m)
  BY <1>6, <1>8, Zenon
<1> QED BY <1>6, <1>7, <1>9

LEMMA RenderTyped ==
    ASSUME NEW t \in Seq(Char), NEW place, place.offset \in Nat, place.len \in Nat
    PROVE  RenderWindow(t, place) \in Seq(Char)
<1> DEFINE Taken(n) == TakeCharsWithinBytes(t, n)
           center == ByteLen(Taken(place.offset))
           from   == Max({center - Context, 0})
           to     == AtMost(AtMost(center + place.len, ByteLen(t)) + Context, ByteLen(t))
<1>1. \A n \in Nat : Taken(n) \in Seq(Char) /\ Len(Taken(n)) \in 0 .. Len(t)
  BY TakeCharsTyped
<1> HIDE DEF Taken
<1>2. center \in Nat /\ ByteLen(t) \in Nat /\ Context \in Nat
  <2>1. ByteLen(t) \in Nat /\ \A x \in Seq(Char) : ByteLen(x) \in Nat
    BY EncodeTyped
  <2> QED BY <1>1, <2>1, SearchAssumption
<1> HIDE DEF center
<1>3. from \in Nat
  <2>1. center - Context \in Int
    BY <1>2
  <2> QED BY <2>1, LargerOf
<1>4. to \in Nat
  BY <1>2 DEF AtMost
<1> HIDE DEF from, to
<1>5. PICK a \in Nat, b \in Nat : a = Len(Taken(from)) /\ b = Len(Taken(to)) /\ b <= Len(t)
  <2>1. PICK l \in Nat : l = Len(t)
    OBVIOUS
  <2>2. Len(Taken(from)) \in 0 .. l /\ Len(Taken(to)) \in 0 .. l
    BY <1>1, <1>3, <1>4, <2>1
  <2> QED BY <2>1, <2>2
<1>6. SubSeq(t, a + 1, b) \in Seq(Char)
  <2>1. \A i \in a + 1 .. b : t[i] \in Char
    BY <1>5
  <2> QED BY <1>5, <2>1
<1> DEFINE shown == SubSeq(t, a + 1, b)
<1>7. RenderWindow(t, place) = CollapseWhitespaceForDisplay(shown)
  BY <1>5 DEF RenderWindow, Taken, center, from, to
<1> HIDE DEF shown
<1>8. CollapseBlanks(shown, Whitespace \cup Control) \in Seq(Char)
  <2>1. Space \in Char
    BY TextAssumption
  <2> QED BY <1>6, <2>1, CollapseTyped DEF shown
<1> QED BY <1>7, <1>8 DEF CollapseWhitespaceForDisplay

\* What a hit is.
Hit == [doc : Docs, page_no : Nat, chunk_ord : Nat, snippet : Seq(Char)]

\* h shows a part of row r.
HitOf(h, r) == h \in Hit /\ h.doc = r.doc /\ h.page_no = r.page_no /\ h.chunk_ord = r.chunk_ord

LEMMA HitMade ==
    ASSUME NEW r \in Rows, NEW place, place.offset \in Nat, place.len \in Nat
    PROVE  HitOf(MakeHit(r, place), r)
<1>1. r.text_utf8 \in Seq(Char) /\ r.doc \in Docs /\ r.page_no \in Nat /\ r.chunk_ord \in Nat
  BY RowsTyped DEF IsRow
<1>2. RenderWindow(r.text_utf8, place) \in Seq(Char)
  BY <1>1, RenderTyped
<1> QED BY <1>1, <1>2 DEF HitOf, MakeHit, Hit

LEMMA NormPlaceTyped ==
    ASSUME NEW r \in Rows, NEW offset \in Nat, NEW len \in Nat
    PROVE  NormPlace(r, offset, len).offset \in Nat /\ NormPlace(r, offset, len).len \in Nat
<1> DEFINE n == Len(r.text_norm_ascii)
           b == ByteLen(r.text_utf8)
<1>1. n \in Nat /\ b \in Nat
  <2>1. r.text_utf8 \in Seq(Char) /\ r.text_norm_ascii \in Seq(Byte)
    BY RowsTyped DEF IsRow
  <2> QED BY <2>1, EncodeTyped
<1>2. NormPlace(r, offset, len) = Place(IF n = 0 THEN 0 ELSE AtMost((2 * b * offset + n) \div (2 * n), b), len)
  BY DEF NormPlace
<1> HIDE DEF n, b
<1>3. n # 0 => (2 * b * offset + n) \div (2 * n) \in Nat
  <2> SUFFICES ASSUME n # 0 PROVE (2 * b * offset + n) \div (2 * n) \in Nat
    OBVIOUS
  <2>1. PICK x \in Nat : x = 2 * b * offset
    <3>1. 2 * b \in Nat
      BY <1>1
    <3> QED BY <3>1
  <2>2. PICK y \in Nat \ {0} : y = 2 * n
    BY <1>1
  <2>3. (x + n) \div y \in Nat
    BY <1>1, <2>2
  <2> QED BY <2>1, <2>2, <2>3
<1> QED BY <1>1, <1>2, <1>3 DEF Place, AtMost

\* The hits hs are those of the rows rs, in this order.
Shows(hs, rs) ==
    /\ hs \in Seq(Hit) /\ Len(hs) = Len(rs)
    /\ \A k \in DOMAIN rs : HitOf(hs[k], rs[k])

\* The hits hs are at most limit rows of R, each of them once, and all if there
\* is room.
Lists(hs, R, limit) ==
    \E rs \in Seq(R) :
        /\ Distinct(rs) /\ Shows(hs, rs) /\ Len(rs) <= limit
        /\ Len(rs) < limit => ToSet(rs) = R

-----------------------------------------------------------------------------
(* Lists of hits: extended, ranked, and what they say.                     *)

LEMMA ListsNothing ==
    ASSUME NEW limit \in Nat
    PROVE  Lists(<<>>, {}, limit)
<1>1. <<>> \in Seq({}) /\ Distinct(<<>>) /\ Shows(<<>>, <<>>) /\ Len(<<>>) <= limit /\ ToSet(<<>>) = {}
  BY DEF Distinct, Shows, ToSet
<1> QED BY <1>1 DEF Lists

\* A list without repetitions is as long as it has elements.
LEMMA DistinctLength ==
    ASSUME NEW S, NEW s \in Seq(S), Distinct(s)
    PROVE  IsFiniteSet(ToSet(s)) /\ Cardinality(ToSet(s)) = Len(s)
<1> DEFINE n == Len(s)
<1>1. n \in Nat /\ DOMAIN s = 1 .. n
  OBVIOUS
<1>2. ToSet(s) = {s[i] : i \in 1 .. n}
  BY <1>1 DEF ToSet
<1>3. IsFiniteSet(1 .. n) /\ Cardinality(1 .. n) = n
  BY <1>1, FS_Interval
<1>4. \A i, j \in 1 .. n : s[i] = s[j] => i = j
  BY <1>1 DEF Distinct
<1> DEFINE D == 1 .. n
           E == {s[i] : i \in D}
<1>5. IsFiniteSet(D) /\ (\A i, j \in D : s[i] = s[j] => i = j)
  BY <1>3, <1>4
<1> HIDE DEF n, D
<1>6. IsFiniteSet({s[i] : i \in D}) /\ Cardinality({s[i] : i \in D}) = Cardinality(D)
  BY <1>5, InjectiveImage
<1> QED BY <1>2, <1>3, <1>6 DEF n, D

\* The first n of a list.
LEMMA FirstOf ==
    ASSUME NEW S, NEW s \in Seq(S), NEW n \in 0 .. Len(s)
    PROVE  /\ SubSeq(s, 1, n) \in Seq(S) /\ Len(SubSeq(s, 1, n)) = n /\ ToSet(SubSeq(s, 1, n)) \subseteq ToSet(s)
           /\ \A i \in 1 .. n : SubSeq(s, 1, n)[i] = s[i]
           /\ Distinct(s) => Distinct(SubSeq(s, 1, n))
           /\ n = Len(s) => SubSeq(s, 1, n) = s
<1>1. DOMAIN s = 1 .. Len(s) /\ Len(s) \in Nat /\ n \in Nat /\ n <= Len(s)
  OBVIOUS
<1>2. \A i \in 1 .. n : s[i] \in S
  BY <1>1
<1> DEFINE f == SubSeq(s, 1, n)
<1>3. f \in Seq(S) /\ Len(f) = n /\ DOMAIN f = 1 .. n /\ \A i \in 1 .. n : f[i] = s[i]
  BY <1>1, <1>2
<1>4. n = Len(s) => f = s
  BY <1>1
<1> HIDE DEF f
<1>5. ToSet(f) \subseteq ToSet(s)
  BY <1>1, <1>3 DEF ToSet
<1>6. Distinct(s) => Distinct(f)
  BY <1>1, <1>3 DEF Distinct
<1> QED BY <1>3, <1>4, <1>5, <1>6 DEF f

\* The walk over further rows.
LEMMA WalkLists ==
    ASSUME NEW found, NEW R, NEW limit \in Nat, Lists(found, R, limit),
           NEW more, NEW S, NEW ss \in Seq(S), Distinct(ss), ToSet(ss) = S, Shows(more, ss),
           R \cap S = {}
    PROVE  Lists(Walk(found, more, limit), R \cup S, limit)
<1>1. PICK rs \in Seq(R) : /\ Distinct(rs) /\ Shows(found, rs) /\ Len(rs) <= limit
                           /\ Len(rs) < limit => ToSet(rs) = R
  BY DEF Lists
<1>2. PICK m \in Nat, n \in Nat : m = Len(rs) /\ n = Len(ss) /\ m <= limit
  BY <1>1
<1>3. PICK k \in 0 .. n : k = AtMost(n, limit - m)
  <2>1. limit - m \in Nat
    BY <1>2
  <2>2. AtMost(n, limit - m) \in 0 .. n
    BY <1>2, <2>1 DEF AtMost
  <2> QED BY <2>2
<1>4. /\ found \in Seq(Hit) /\ Len(found) = m /\ \A i \in 1 .. m : HitOf(found[i], rs[i])
      /\ more \in Seq(Hit) /\ Len(more) = n /\ \A i \in 1 .. n : HitOf(more[i], ss[i])
  <2>1. DOMAIN rs = 1 .. m /\ DOMAIN ss = 1 .. n
    BY <1>1, <1>2
  <2> QED BY <1>1, <1>2, <2>1 DEF Shows
<1> DEFINE h == SubSeq(more, 1, k)
           q == SubSeq(ss, 1, k)
<1>5. h \in Seq(Hit) /\ Len(h) = k /\ \A i \in 1 .. k : h[i] = more[i]
  BY <1>3, <1>4, FirstOf
<1>6. q \in Seq(S) /\ Len(q) = k /\ Distinct(q) /\ (\A i \in 1 .. k : q[i] = ss[i]) /\ (k = n => q = ss)
  <2>1. k \in 0 .. Len(ss)
    BY <1>2
  <2> QED BY <1>2, <2>1, FirstOf
<1>7. Walk(found, more, limit) = found \o h
  BY <1>2, <1>3, <1>4 DEF Walk
<1> HIDE DEF h, q
<1> DEFINE all == found \o h
           of  == rs \o q
<1>8. all \in Seq(Hit) /\ Len(all) = m + k /\ (\A i \in 1 .. m : all[i] = found[i]) /\ \A i \in 1 .. k : all[m + i] = h[i]
  <2>1. /\ all \in Seq(Hit) /\ Len(all) = Len(found) + Len(h)
        /\ \A i \in 1 .. Len(found) : all[i] = found[i]
        /\ \A i \in 1 .. Len(h) : all[Len(found) + i] = h[i]
    <3>1. found \in Seq(Hit) /\ h \in Seq(Hit)
      BY <1>4, <1>5
    <3> QED BY <3>1, ConcatProperties
  <2> HIDE DEF all
  <2> QED BY <1>4, <1>5, <2>1
<1>9. rs \in Seq(R \cup S) /\ q \in Seq(R \cup S) /\ ToSet(rs) \subseteq R /\ ToSet(q) \subseteq S
  BY <1>6 DEF ToSet
<1>10. /\ of \in Seq(R \cup S) /\ Len(of) = m + k
       /\ (\A i \in 1 .. m : of[i] = rs[i]) /\ \A i \in 1 .. k : of[m + i] = q[i]
  <2>1. /\ of \in Seq(R \cup S) /\ Len(of) = Len(rs) + Len(q)
        /\ \A i \in 1 .. Len(rs) : of[i] = rs[i]
        /\ \A i \in 1 .. Len(q) : of[Len(rs) + i] = q[i]
    BY <1>9, ConcatProperties
  <2> HIDE DEF of
  <2> QED BY <1>2, <1>6, <2>1
<1>11. Distinct(of) /\ ToSet(of) = ToSet(rs) \cup ToSet(q)
  <2>1. ToSet(rs) \cap ToSet(q) = {}
    BY <1>9
  <2>2. /\ ToSet(rs \o q) = ToSet(rs) \cup ToSet(q)
        /\ Distinct(rs) /\ Distinct(q) /\ ToSet(rs) \cap ToSet(q) = {} => Distinct(rs \o q)
    BY <1>9, ConcatSet
  <2> QED BY <1>1, <1>6, <2>1, <2>2
<1> HIDE DEF all, of
<1>12. Shows(all, of)
  <2> SUFFICES ASSUME NEW i \in 1 .. m + k PROVE HitOf(all[i], of[i])
    <3>1. DOMAIN of = 1 .. m + k
      BY <1>10
    <3> QED BY <1>8, <1>10, <3>1 DEF Shows
  <2>1. CASE i \in 1 .. m
    BY <1>4, <1>8, <1>10, <2>1
  <2>2. CASE i \notin 1 .. m
    <3>1. i - m \in 1 .. k /\ i = m + (i - m)
      BY <1>2, <1>3, <2>2
    <3>2. PICK j \in 1 .. k : i = m + j
      BY <3>1
    <3>3. all[i] = more[j] /\ of[i] = ss[j] /\ j \in 1 .. n
      BY <1>3, <1>5, <1>6, <1>8, <1>10, <3>2
    <3> QED BY <1>4, <3>3
  <2> QED BY <2>1, <2>2
<1>13. Len(of) <= limit /\ (Len(of) < limit => ToSet(of) = R \cup S)
  <2>1. m + k <= limit /\ (m + k < limit => m < limit /\ k = n)
    BY <1>2, <1>3 DEF AtMost
  <2> QED BY <1>1, <1>2, <1>6, <1>10, <1>11, <2>1
<1>14. Lists(all, R \cup S, limit)
  BY <1>10, <1>11, <1>12, <1>13 DEF Lists
<1> QED BY <1>7, <1>14 DEF all

LEMMA TrimTyped ==
    ASSUME NEW s \in Seq(Byte)
    PROVE  Trim(s) \in Seq(Byte)
<1> DEFINE solid == {i \in DOMAIN s : s[i] \notin AsciiBlank}
<1>1. CASE solid = {}
  <2>1. Trim(s) = <<>>
    BY <1>1 DEF Trim
  <2> QED BY <2>1
<1>2. CASE solid # {}
  <2>1. PICK l \in Int : l = Len(s) /\ DOMAIN s = 1 .. l
    <3>1. Len(s) \in Int /\ DOMAIN s = 1 .. Len(s)
      OBVIOUS
    <3> QED BY <3>1
  <2>2. solid \in SUBSET Nat /\ solid \in SUBSET Int /\ (\A k \in solid : k <= l) /\ solid \subseteq 1 .. l
    BY <2>1
  <2>3. Trim(s) = SubSeq(s, Min(solid), Max(solid))
    BY <1>2 DEF Trim
  <2> HIDE DEF solid
  <2>4. PICK a \in 1 .. l, b \in 1 .. l : a = Min(solid) /\ b = Max(solid)
    <3>1. Min(solid) \in solid
      BY <1>2, <2>2, MinOf
    <3>2. Max(solid) \in solid
      BY <1>2, <2>1, <2>2, MaxOf
    <3> QED BY <2>2, <3>1, <3>2
  <2>5. SubSeq(s, a, b) \in Seq(Byte)
    <3>1. \A i \in a .. b : s[i] \in Byte
      BY <2>1
    <3> QED BY <2>1, <2>4, <3>1
  <2> QED BY <2>3, <2>4, <2>5
<1> QED BY <1>1, <1>2

LEMMA TermsFinite ==
    ASSUME NEW phrase \in Seq(Byte)
    PROVE  IsFiniteSet(Terms(phrase))
<1>1. IsFiniteSet(1 .. Len(phrase)) /\ DOMAIN phrase = 1 .. Len(phrase)
  BY FS_Interval
<1> DEFINE D == DOMAIN phrase
<1>2. Terms(phrase) \in SUBSET (D \X D)
  BY DEF Terms
<1>3. IsFiniteSet(D)
  BY <1>1
<1> HIDE DEF D
<1>4. IsFiniteSet(D \X D)
  BY <1>3, FS_Product
<1> QED BY <1>2, <1>4, FS_Subset

\* cheap_rank sorts by tuples of numbers.
LEMMA RankKeyTyped ==
    ASSUME NEW h \in Hit, NEW phrase \in Seq(Byte)
    PROVE  RankKey(h, phrase) \in Seq(Int) /\ Len(RankKey(h, phrase)) = 6
<1> DEFINE snippet  == Lowercase(Encode(h.snippet))
           found    == {p \in Terms(phrase) : Has(Term(phrase, p), snippet)}
           isPhrase == phrase # <<>> /\ Has(phrase, snippet)
           offset   == CASE isPhrase   -> Find(phrase, snippet)
                         [] ~isPhrase /\ found # {} -> Min({Find(Term(phrase, p), snippet) : p \in found})
                         [] OTHER      -> Len(snippet) + 1
<1>1. Len(snippet) \in Nat /\ h.snippet \in Seq(Char) /\ h.page_no \in Int /\ h.doc \in Int /\ h.chunk_ord \in Int
  <2>1. h.snippet \in Seq(Char) /\ h.doc \in Docs /\ h.page_no \in Nat /\ h.chunk_ord \in Nat
    BY DEF Hit
  <2>2. snippet \in Seq(Byte)
    BY <2>1, EncodeTyped
  <2> HIDE DEF snippet
  <2>3. Len(snippet) \in Nat
    BY <2>2
  <2>4. Docs \subseteq Nat
    BY SearchAssumption
  <2>5. h.doc \in Nat
    BY <2>1, <2>4
  <2>6. h.page_no \in Int /\ h.doc \in Int /\ h.chunk_ord \in Int
    BY <2>1, <2>5
  <2> QED BY <2>1, <2>3, <2>6
<1>2. Cardinality(found) \in Nat
  <2>1. IsFiniteSet(Terms(phrase)) /\ found \in SUBSET Terms(phrase)
    BY TermsFinite
  <2> HIDE DEF found
  <2>2. IsFiniteSet(found)
    BY <2>1, FS_Subset
  <2> QED BY <2>2, FS_CardinalityType
<1>3. offset \in Int
  <2>1. CASE isPhrase
    <3>1. offset = Find(phrase, snippet)
      BY <2>1
    <3>2. Find(phrase, snippet) \in Nat
      <4> HIDE DEF snippet
      <4> QED BY <2>1, FindTyped
    <3> HIDE DEF offset
    <3> QED BY <3>1, <3>2
  <2>2. CASE ~isPhrase /\ found # {}
    <3> DEFINE F == {Find(Term(phrase, p), snippet) : p \in found}
    <3>1. offset = Min(F)
      BY <2>2
    <3>2. \A p \in found : Find(Term(phrase, p), snippet) \in Nat
      <4> HIDE DEF snippet
      <4> QED BY FindTyped
    <3>3. F \in SUBSET Nat /\ F # {}
      BY <2>2, <3>2
    <3> HIDE DEF F, offset
    <3>4. Min(F) \in Nat
      BY <3>3, MinOf
    <3> QED BY <3>1, <3>4
  <2>3. CASE ~isPhrase /\ found = {}
    <3>1. offset = Len(snippet) + 1
      BY <2>3
    <3> HIDE DEF offset
    <3> QED BY <1>1, <3>1
  <2> HIDE DEF offset, found, isPhrase
  <2> QED BY <2>1, <2>2, <2>3
<1>4. RankKey(h, phrase) = <<IF isPhrase THEN 0 ELSE 1, -Cardinality(found), offset, h.page_no, h.doc, h.chunk_ord>>
  BY DEF RankKey
<1> HIDE DEF offset, found, isPhrase
<1>5. -Cardinality(found) \in Int /\ (IF isPhrase THEN 0 ELSE 1) \in Int
  BY <1>2
<1> QED BY <1>1, <1>3, <1>4, <1>5

\* Ranking lists the same hits.
\* A list p of the numbers up to n, each of them once.
Permutes(p, n) ==
    /\ p \in [1 .. n -> 1 .. n] /\ \A k, m \in 1 .. n : p[k] = p[m] => k = m
    /\ \A i \in 1 .. n : \E k \in 1 .. n : p[k] = i

\* Ranking changes the order only.
LEMMA RankPermutes ==
    ASSUME NEW hs \in Seq(Hit), NEW q \in Seq(Byte), NEW n \in Nat, Len(hs) = n
    PROVE  \E p : Permutes(p, n) /\ CheapRank(hs, q) = [k \in 1 .. n |-> hs[p[k]]]
<1>1. DOMAIN hs = 1 .. n /\ \A i \in 1 .. n : hs[i] \in Hit
  <2>1. DOMAIN hs = 1 .. Len(hs) /\ \A i \in 1 .. Len(hs) : hs[i] \in Hit
    OBVIOUS
  <2> QED BY <2>1
<1> DEFINE phrase == Trim(q)
           key    == [i \in DOMAIN hs |-> RankKey(hs[i], phrase) \o <<i>>]
           p      == SortedBy(key)
<1>2. phrase \in Seq(Byte)
  BY TrimTyped
<1> HIDE DEF phrase
<1>3. \A i \in 1 .. n : key[i] \in [1 .. 7 -> Int] /\ key[i][7] = i
  <2> SUFFICES ASSUME NEW i \in 1 .. n PROVE key[i] \in [1 .. 7 -> Int] /\ key[i][7] = i
    OBVIOUS
  <2> DEFINE six == RankKey(hs[i], phrase)
             one == <<i>>
  <2>1. six \in Seq(Int) /\ Len(six) = 6
    BY <1>1, <1>2, RankKeyTyped
  <2>2. one \in Seq(Int) /\ Len(one) = 1 /\ one[1] = i
    OBVIOUS
  <2>3. key[i] = six \o one
    BY <1>1
  <2> HIDE DEF six, one, key
  <2> DEFINE all == six \o one
  <2>4. /\ all \in Seq(Int) /\ Len(all) = Len(six) + Len(one)
        /\ \A j \in 1 .. Len(six) + Len(one) : all[j] = IF j <= Len(six) THEN six[j] ELSE one[j - Len(six)]
    BY <2>1, <2>2, ConcatProperties
  <2> HIDE DEF all
  <2>5. Len(all) = 7
    BY <2>1, <2>2, <2>4
  <2>6. all[7] = i
    <3>1. all[7] = one[7 - Len(six)] /\ 7 - Len(six) = 1
      BY <2>1, <2>2, <2>4
    <3> QED BY <2>2, <3>1
  <2>7. all \in [1 .. 7 -> Int]
    <3>1. all \in Seq(Int)
      BY <2>4
    <3>2. all \in [1 .. Len(all) -> Int]
      BY <3>1
    <3> QED BY <2>5, <3>2
  <2> QED BY <2>3, <2>6, <2>7 DEF all
<1>4. DOMAIN key = 1 .. n
  BY <1>1
<1>5. IsFiniteSet(1 .. n) /\ Cardinality(1 .. n) = n
  BY FS_Interval
<1>6. SortKeys(key, 7)
  <2>1. key \in [1 .. n -> [1 .. 7 -> Int]]
    BY <1>1, <1>3
  <2> HIDE DEF key
  <2>2. \A i, j \in 1 .. n : key[i] = key[j] => i = j
    BY <1>3
  <2> QED BY <1>4, <1>5, <2>1, <2>2 DEF SortKeys
<1>7. CheapRank(hs, q) = [k \in DOMAIN hs |-> hs[p[k]]]
  BY DEF CheapRank, phrase
<1> HIDE DEF key
<1>8. p \in [1 .. n -> 1 .. n] /\ \A k, m \in 1 .. n : p[k] = p[m] => k = m
  <2>1. n = Cardinality(DOMAIN key)
    BY <1>4, <1>5
  <2> QED BY <1>4, <1>6, <2>1, SortedByProperties
<1>9. \A i \in 1 .. n : \E k \in 1 .. n : p[k] = i
  <2>1. n = Cardinality(DOMAIN key)
    BY <1>4, <1>5
  <2>2. \A i \in DOMAIN key : LexBefore(key, i) + 1 \in 1 .. n /\ p[LexBefore(key, i) + 1] = i
    BY <1>6, <2>1, SortedByProperties
  <2> HIDE DEF p
  <2> QED BY <1>4, <2>2
<1> HIDE DEF p
<1>10. Permutes(p, n)
  BY <1>8, <1>9 DEF Permutes
<1> QED BY <1>1, <1>7, <1>10

LEMMA RankMade ==
    ASSUME NEW S \in SUBSET Hit, NEW hs \in Seq(S), NEW q \in Seq(Byte)
    PROVE  CheapRank(hs, q) \in Seq(S)
<1>1. PICK n \in Nat : Len(hs) = n
  OBVIOUS
<1>2. hs \in Seq(Hit) /\ \A i \in 1 .. n : hs[i] \in S
  BY <1>1
<1>3. PICK p : Permutes(p, n) /\ CheapRank(hs, q) = [k \in 1 .. n |-> hs[p[k]]]
  BY <1>1, <1>2, RankPermutes
<1>4. \A k \in 1 .. n : p[k] \in 1 .. n
  BY <1>3 DEF Permutes
<1> DEFINE out == [k \in 1 .. n |-> hs[p[k]]]
<1>5. out \in [1 .. n -> S]
  BY <1>2, <1>4
<1> HIDE DEF out
<1>6. out \in Seq(S)
  BY <1>5, SeqDef
<1> QED BY <1>3, <1>6 DEF out

LEMMA RankLists ==
    ASSUME NEW hs, NEW R, NEW limit \in Nat, Lists(hs, R, limit), NEW q \in Seq(Byte)
    PROVE  Lists(CheapRank(hs, q), R, limit)
<1>1. PICK rs \in Seq(R) : /\ Distinct(rs) /\ Shows(hs, rs) /\ Len(rs) <= limit
                           /\ Len(rs) < limit => ToSet(rs) = R
  BY DEF Lists
<1>2. PICK n \in Nat : n = Len(rs)
  OBVIOUS
<1>3. /\ hs \in Seq(Hit) /\ Len(hs) = n /\ DOMAIN hs = 1 .. n /\ DOMAIN rs = 1 .. n
      /\ \A i \in 1 .. n : HitOf(hs[i], rs[i]) /\ hs[i] \in Hit
  <2>1. DOMAIN rs = 1 .. n /\ hs \in Seq(Hit) /\ Len(hs) = n /\ \A i \in DOMAIN rs : HitOf(hs[i], rs[i])
    BY <1>1, <1>2 DEF Shows
  <2> QED BY <2>1
<1>4. PICK p : Permutes(p, n) /\ CheapRank(hs, q) = [k \in 1 .. n |-> hs[p[k]]]
  BY <1>3, RankPermutes
<1>5. p \in [1 .. n -> 1 .. n] /\ \A k, m \in 1 .. n : p[k] = p[m] => k = m
  BY <1>4 DEF Permutes
<1>6. \A i \in 1 .. n : \E k \in 1 .. n : p[k] = i
  BY <1>4 DEF Permutes
<1> DEFINE out == [k \in 1 .. n |-> hs[p[k]]]
           of  == [k \in 1 .. n |-> rs[p[k]]]
<1>7. \A k \in 1 .. n : p[k] \in 1 .. n
  BY <1>5
<1>8. out \in Seq(Hit) /\ Len(out) = n /\ \A k \in 1 .. n : out[k] = hs[p[k]]
  <2>1. out \in [1 .. n -> Hit]
    BY <1>3, <1>7
  <2>2. out \in Seq(Hit)
    BY <2>1, SeqDef
  <2> QED BY <2>2
<1>9. of \in Seq(R) /\ Len(of) = n /\ DOMAIN of = 1 .. n /\ \A k \in 1 .. n : of[k] = rs[p[k]]
  <2>1. \A i \in 1 .. n : rs[i] \in R
    BY <1>3
  <2>2. of \in [1 .. n -> R]
    BY <1>7, <2>1
  <2>3. of \in Seq(R)
    BY <2>2, SeqDef
  <2> QED BY <2>3
<1>10. CheapRank(hs, q) = out
  BY <1>4
<1> HIDE DEF out, of
<1>11. Shows(out, of)
  BY <1>3, <1>7, <1>8, <1>9 DEF Shows
<1>12. Distinct(of)
  BY <1>1, <1>3, <1>5, <1>7, <1>9 DEF Distinct
<1>13. ToSet(of) = ToSet(rs)
  <2>1. \A x : x \in ToSet(of) <=> \E k \in 1 .. n : of[k] = x
    BY <1>9 DEF ToSet
  <2>2. \A x : x \in ToSet(rs) <=> \E k \in 1 .. n : rs[k] = x
    BY <1>3 DEF ToSet
  <2>3. \A x : x \in ToSet(of) <=> x \in ToSet(rs)
    <3> SUFFICES ASSUME NEW x PROVE x \in ToSet(of) <=> x \in ToSet(rs)
      OBVIOUS
    <3>1. ASSUME x \in ToSet(of) PROVE x \in ToSet(rs)
      BY <1>7, <1>9, <2>1, <2>2, <3>1
    <3>2. ASSUME x \in ToSet(rs) PROVE x \in ToSet(of)
      <4>1. PICK i \in 1 .. n : rs[i] = x
        BY <2>2, <3>2
      <4>2. PICK k \in 1 .. n : p[k] = i
        BY <1>6
      <4> QED BY <1>9, <2>1, <4>1, <4>2
    <3> QED BY <3>1, <3>2
  <2> QED BY <2>3
<1>14. Lists(out, R, limit)
  BY <1>1, <1>2, <1>9, <1>11, <1>12, <1>13 DEF Lists
<1> QED BY <1>10, <1>14

-----------------------------------------------------------------------------
(* Literal search.                                                         *)

\* The rows of R with the needle.
WithNeedle(needle, R) == {r \in R : Has(needle, r.text_norm_ascii)}

\* The hits hs are those of the rows S, each of them once.
Complete(hs, S) == \E ss \in Seq(S) : Distinct(ss) /\ ToSet(ss) = S /\ Shows(hs, ss)

LEMMA VerifyCompletes ==
    ASSUME NEW needle \in Seq(Byte), NEW rows \in Seq(Rows), Distinct(rows)
    PROVE  Complete(VerifyLiteral(needle, rows), WithNeedle(needle, ToSet(rows)))
<1> DEFINE P     == {i \in DOMAIN rows : Has(needle, rows[i].text_norm_ascii)}
           found == Sift(rows, P)
           S     == WithNeedle(needle, ToSet(rows))
           At(r) == NormPlace(r, Find(needle, r.text_norm_ascii), Len(needle))
           hs    == [k \in DOMAIN found |-> MakeHit(found[k], At(found[k]))]
<1>1. VerifyLiteral(needle, rows) = hs
  BY DEF VerifyLiteral
<1>2. found \in Seq(Rows) /\ ToSet(found) = Picked(rows, P) /\ Distinct(found)
  <2>1. P \in SUBSET DOMAIN rows
    OBVIOUS
  <2> HIDE DEF P
  <2> QED BY <2>1, SiftTyped
<1>3. Picked(rows, P) = S
  BY DEF Picked, WithNeedle, ToSet
<1> HIDE DEF P, found, S, At
<1>4. PICK n \in Nat : n = Len(found) /\ DOMAIN found = 1 .. n
  BY <1>2
<1>5. \A k \in 1 .. n : found[k] \in S /\ found[k] \in Rows
  BY <1>2, <1>3, <1>4 DEF ToSet
<1>6. found \in Seq(S)
  <2>1. found \in [1 .. n -> S]
    BY <1>2, <1>4, <1>5
  <2> QED BY <2>1, SeqDef
<1>7. ASSUME NEW k \in 1 .. n PROVE HitOf(MakeHit(found[k], At(found[k])), found[k])
  <2>1. PICK r \in Rows : r = found[k] /\ Has(needle, r.text_norm_ascii)
    BY <1>5 DEF S, WithNeedle
  <2>2. Find(needle, r.text_norm_ascii) \in Nat /\ Len(needle) \in Nat
    BY <2>1, FindTyped
  <2>3. At(r).offset \in Nat /\ At(r).len \in Nat
    BY <2>2, NormPlaceTyped DEF At
  <2>4. HitOf(MakeHit(r, At(r)), r)
    BY <2>3, HitMade
  <2> QED BY <2>1, <2>4
<1>8. hs \in Seq(Hit) /\ Len(hs) = n /\ \A k \in 1 .. n : HitOf(hs[k], found[k])
  <2>1. \A k \in 1 .. n : hs[k] = MakeHit(found[k], At(found[k]))
    BY <1>4
  <2>2. DOMAIN hs = 1 .. n /\ hs = [k \in 1 .. n |-> hs[k]]
    BY <1>4
  <2> HIDE DEF hs
  <2>3. \A k \in 1 .. n : HitOf(hs[k], found[k])
    BY <1>7, <2>1
  <2>4. \A k \in 1 .. n : hs[k] \in Hit
    BY <2>3 DEF HitOf
  <2>5. hs \in [1 .. n -> Hit]
    BY <2>2, <2>4
  <2>6. hs \in Seq(Hit)
    BY <2>5, SeqDef
  <2> QED BY <2>2, <2>3, <2>6
<1> HIDE DEF hs
<1>9. Shows(hs, found)
  BY <1>4, <1>8 DEF Shows
<1>10. Complete(hs, S)
  BY <1>2, <1>3, <1>6, <1>9 DEF Complete
<1> QED BY <1>1, <1>10 DEF S

\* The positions of the base that are looked at.
Passed(tree) ==
    {i \in DOMAIN base : i \notin tombstones /\ Includes(tree, BigramsOf[tree] \ tracked, base[i].text_norm_ascii)}

LEMMA BaseTyped ==
    ASSUME IndexInv, NEW tree
    PROVE  /\ BaseCandidates(tree) \in Seq(Rows) /\ Distinct(BaseCandidates(tree))
           /\ ToSet(BaseCandidates(tree)) = Picked(base, Passed(tree)) /\ Passed(tree) \subseteq LiveBase
<1>1. BaseCandidates(tree) = Sift(base, Passed(tree))
  BY DEF BaseCandidates, Passed
<1>2. Passed(tree) \in SUBSET DOMAIN base /\ Passed(tree) \subseteq LiveBase
  BY DEF Passed, LiveBase
<1>3. base \in Seq(Rows) /\ Distinct(base)
  BY DEF IndexInv
<1> QED BY <1>1, <1>2, <1>3, SiftTyped

LEMMA BaseRow ==
    ASSUME IndexInv, NEW i \in LiveBase
    PROVE  base[i] \in Rows /\ base[i].text_norm_ascii \in Seq(Byte)
<1>1. base \in Seq(Rows) /\ i \in DOMAIN base
  BY DEF IndexInv, LiveBase
<1>2. base[i] \in Rows
  BY <1>1
<1> QED BY <1>2, RowsTyped DEF IsRow

\* The prefilter leaves out no row of the base that has the needle.
LEMMA BaseHasNeedle ==
    ASSUME IndexInv, NEW needle \in Seq(Byte)
    PROVE  WithNeedle(needle, ToSet(BaseCandidates(LiteralQuery(needle)))) = WithNeedle(needle, Picked(base, LiveBase))
<1> DEFINE tree == LiteralQuery(needle)
<1>1. ToSet(BaseCandidates(tree)) = Picked(base, Passed(tree)) /\ Passed(tree) \subseteq LiveBase
  BY BaseTyped
<1>2. ASSUME NEW i \in LiveBase, Has(needle, base[i].text_norm_ascii) PROVE i \in Passed(tree)
  <2>1. base[i].text_norm_ascii \in Seq(Byte)
    BY BaseRow
  <2>2. Occurrences(needle, base[i].text_norm_ascii) # {}
    BY <1>2 DEF Has
  <2>3. Includes(tree, BigramsOf[tree] \ tracked, base[i].text_norm_ascii)
    BY <2>1, <2>2, LiteralIncludes
  <2> HIDE DEF tree
  <2> QED BY <2>3 DEF Passed, LiveBase
<1> HIDE DEF tree
<1>3. WithNeedle(needle, Picked(base, Passed(tree))) = WithNeedle(needle, Picked(base, LiveBase))
  BY <1>1, <1>2 DEF WithNeedle, Picked
<1> QED BY <1>1, <1>3 DEF tree

\* Nor do the bigram sets of the overflow rows.
LEMMA OverflowHasNeedle ==
    ASSUME IndexInv, NEW needle \in Seq(Byte)
    PROVE  /\ OverflowMatches(needle) \in Seq(Rows) /\ Distinct(OverflowMatches(needle))
           /\ WithNeedle(needle, ToSet(OverflowMatches(needle))) = WithNeedle(needle, ToSet(overflow))
<1> DEFINE P == {i \in DOMAIN overflow : Windows("consec", needle, 1) \subseteq Windows("consec", overflow[i].text_norm_ascii, 1)}
<1>1. OverflowMatches(needle) = Sift(overflow, P)
  BY DEF OverflowMatches
<1>2. P \in SUBSET DOMAIN overflow
  OBVIOUS
<1>3. overflow \in Seq(Rows) /\ Distinct(overflow)
  BY DEF IndexInv
<1>4. ASSUME NEW i \in DOMAIN overflow, Has(needle, overflow[i].text_norm_ascii) PROVE i \in P
  <2>1. overflow[i] \in Rows
    BY <1>3
  <2>2. overflow[i].text_norm_ascii \in Seq(Byte)
    BY <2>1, RowsTyped DEF IsRow
  <2>3. Occurrences(needle, overflow[i].text_norm_ascii) # {}
    BY <1>4 DEF Has
  <2>4. Windows("consec", needle, 1) \subseteq Windows("consec", overflow[i].text_norm_ascii, 1)
    BY <2>2, <2>3, WindowsOfPart
  <2> QED BY <2>4
<1> HIDE DEF P
<1>5. Sift(overflow, P) \in Seq(Rows) /\ ToSet(Sift(overflow, P)) = Picked(overflow, P) /\ Distinct(Sift(overflow, P))
  BY <1>2, <1>3, SiftTyped
<1>6. WithNeedle(needle, Picked(overflow, P)) = WithNeedle(needle, ToSet(overflow))
  BY <1>2, <1>4 DEF WithNeedle, Picked, ToSet
<1> QED BY <1>1, <1>5, <1>6

\* No row is in the base and in the overflow.
LEMMA SidesApart ==
    ASSUME IndexInv
    PROVE  Picked(base, LiveBase) \cap ToSet(overflow) = {}
<1>1. \A i \in LiveBase : \A j \in DOMAIN overflow : base[i].doc # overflow[j].doc
  BY DEF IndexInv
<1> QED BY <1>1 DEF Picked, ToSet

\* The walk over the base and then over the overflow.
LEMMA BothSidesList ==
    ASSUME NEW hs, NEW R, NEW more, NEW S, NEW limit \in Nat, Complete(hs, R), Complete(more, S), R \cap S = {}
    PROVE  Lists(Walk(Walk(<<>>, hs, limit), more, limit), R \cup S, limit)
<1>1. PICK rs \in Seq(R) : Distinct(rs) /\ ToSet(rs) = R /\ Shows(hs, rs)
  BY DEF Complete
<1>2. PICK ss \in Seq(S) : Distinct(ss) /\ ToSet(ss) = S /\ Shows(more, ss)
  BY DEF Complete
<1>3. Lists(<<>>, {}, limit)
  BY ListsNothing
<1>4. {} \cap R = {} /\ {} \cup R = R
  OBVIOUS
<1>5. Lists(Walk(<<>>, hs, limit), {} \cup R, limit)
  BY <1>1, <1>3, <1>4, WalkLists
<1>6. Lists(Walk(<<>>, hs, limit), R, limit)
  BY <1>4, <1>5
<1> QED BY <1>2, <1>6, WalkLists

\* The rows a literal search is for.
LiteralRows(q) == {r \in LiveRows : Needle(q) # <<>> /\ Has(Needle(q), r.text_norm_ascii)}

LEMMA LiteralLists ==
    ASSUME IndexInv, NEW q \in Seq(Char), NEW limit \in Nat
    PROVE  Lists(LiteralHits(q, limit), LiteralRows(q), limit)
<1> DEFINE needle == Needle(q)
           rows   == BaseCandidates(LiteralQuery(needle))
           more   == OverflowMatches(needle)
           inBase == VerifyLiteral(needle, rows)
           inOver == VerifyLiteral(needle, more)
           all    == Walk(Walk(<<>>, inBase, limit), inOver, limit)
           R      == WithNeedle(needle, Picked(base, LiveBase))
           S      == WithNeedle(needle, ToSet(overflow))
<1>1. LiteralHits(q, limit) = IF needle = <<>> \/ limit = 0 THEN <<>> ELSE CheapRank(all, needle)
  BY DEF LiteralHits
<1>2. LiveRows = Picked(base, LiveBase) \cup ToSet(overflow)
  BY DEF IndexInv
<1>3. LiteralRows(q) = IF needle = <<>> THEN {} ELSE R \cup S
  BY <1>2 DEF LiteralRows, WithNeedle
<1>4. needle \in Seq(Byte)
  BY NormalizeTyped DEF Needle
<1> HIDE DEF needle
<1>5. Complete(inBase, R)
  <2>1. rows \in Seq(Rows) /\ Distinct(rows)
    BY BaseTyped
  <2>2. WithNeedle(needle, ToSet(rows)) = R
    BY <1>4, BaseHasNeedle
  <2> HIDE DEF rows, R
  <2>3. Complete(VerifyLiteral(needle, rows), WithNeedle(needle, ToSet(rows)))
    BY <1>4, <2>1, VerifyCompletes
  <2> QED BY <2>2, <2>3
<1>6. Complete(inOver, S)
  <2>1. more \in Seq(Rows) /\ Distinct(more) /\ WithNeedle(needle, ToSet(more)) = S
    BY <1>4, OverflowHasNeedle
  <2> HIDE DEF more, S
  <2>2. Complete(VerifyLiteral(needle, more), WithNeedle(needle, ToSet(more)))
    BY <1>4, <2>1, VerifyCompletes
  <2> QED BY <2>1, <2>2
<1>7. R \cap S = {}
  BY SidesApart DEF WithNeedle
<1> HIDE DEF rows, more, inBase, inOver, R, S
<1>8. Lists(all, R \cup S, limit)
  BY <1>5, <1>6, <1>7, BothSidesList
<1> HIDE DEF all
<1>9. Lists(CheapRank(all, needle), R \cup S, limit)
  BY <1>4, <1>8, RankLists
<1>10. CASE needle = <<>>
  <2>1. LiteralHits(q, limit) = <<>> /\ LiteralRows(q) = {}
    BY <1>1, <1>3, <1>10
  <2> QED BY <2>1, ListsNothing
<1>11. CASE needle # <<>> /\ limit = 0
  <2>1. LiteralHits(q, limit) = <<>>
    BY <1>1, <1>11
  <2>2. <<>> \in Seq(LiteralRows(q)) /\ Distinct(<<>>) /\ Shows(<<>>, <<>>) /\ Len(<<>>) = 0
    BY DEF Distinct, Shows
  <2> DEFINE X == LiteralRows(q)
             none == <<>>
  <2>3. none \in Seq(X) /\ Distinct(none) /\ Shows(none, none) /\ Len(none) <= limit /\ ~(Len(none) < limit)
    BY <1>11, <2>2
  <2> HIDE DEF X, none
  <2>4. Lists(none, X, limit)
    BY <2>3 DEF Lists
  <2> QED BY <2>1, <2>4 DEF none, X
<1>12. CASE needle # <<>> /\ limit # 0
  BY <1>1, <1>3, <1>9, <1>12
<1> QED BY <1>10, <1>11, <1>12

\* A hit stands for the row it was made of.
LEMMA HitFindsRow ==
    ASSUME \A d \in Docs : text[d] \in TextOf(d), NEW r \in LiveRows, NEW h, HitOf(h, r)
    PROVE  RowsOfHit(h) = {r}
<1>1. ASSUME NEW s \in LiveRows, s.doc = r.doc, s.page_no = r.page_no, s.chunk_ord = r.chunk_ord PROVE s = r
  <2>1. PICK d \in Docs : r \in RowsOf(d, text[d])
    BY DEF LiveRows
  <2>2. PICK e \in Docs : s \in RowsOf(e, text[e])
    BY DEF LiveRows
  <2>3. r.doc = d /\ s.doc = e
    BY <2>1, <2>2, RowsOfRows
  <2>4. s \in RowsOf(d, text[d])
    BY <1>1, <2>2, <2>3
  <2> QED BY <1>1, <2>1, <2>4, RowKey
<1>2. h.doc = r.doc /\ h.page_no = r.page_no /\ h.chunk_ord = r.chunk_ord
  BY DEF HitOf
<1> QED BY <1>1, <1>2 DEF RowsOfHit

\* What the lists of hits say of the rows of the database.
LEMMA ListedRows ==
    ASSUME \A d \in Docs : text[d] \in TextOf(d), NEW R \in SUBSET LiveRows, NEW limit \in Nat, NEW hs, Lists(hs, R, limit)
    PROVE  /\ Len(hs) \in Nat /\ Len(hs) <= limit /\ DOMAIN hs = 1 .. Len(hs)
           /\ \A k \in DOMAIN hs : RowsOfHit(hs[k]) # {} /\ RowsOfHit(hs[k]) \subseteq R
           /\ \A k, m \in DOMAIN hs : RowsOfHit(hs[k]) = RowsOfHit(hs[m]) => k = m
           /\ Len(hs) < limit => Len(hs) = Cardinality(R)
<1>1. PICK rs \in Seq(R) : Distinct(rs) /\ Shows(hs, rs) /\ Len(rs) <= limit /\ (Len(rs) < limit => ToSet(rs) = R)
  BY DEF Lists
<1>2. PICK n \in Nat : n = Len(rs) /\ DOMAIN rs = 1 .. n
  BY <1>1
<1>3. hs \in Seq(Hit) /\ Len(hs) = n /\ \A k \in 1 .. n : HitOf(hs[k], rs[k])
  BY <1>1, <1>2 DEF Shows
<1>4. DOMAIN hs = 1 .. n
  BY <1>3
<1>5. \A k \in 1 .. n : rs[k] \in R
  BY <1>2
<1>6. \A k \in 1 .. n : RowsOfHit(hs[k]) = {rs[k]}
  BY <1>3, <1>5, HitFindsRow
<1>7. \A k, m \in 1 .. n : RowsOfHit(hs[k]) = RowsOfHit(hs[m]) => k = m
  <2>1. \A k, m \in 1 .. n : {rs[k]} = {rs[m]} => k = m
    BY <1>1, <1>2 DEF Distinct
  <2> QED BY <1>6, <2>1
<1>8. Cardinality(ToSet(rs)) = n
  BY <1>1, <1>2, DistinctLength
<1>9. \A k \in 1 .. n : RowsOfHit(hs[k]) # {} /\ RowsOfHit(hs[k]) \subseteq R
  <2> SUFFICES ASSUME NEW k \in 1 .. n PROVE RowsOfHit(hs[k]) # {} /\ RowsOfHit(hs[k]) \subseteq R
    OBVIOUS
  <2>1. PICK x \in R : x = rs[k] /\ RowsOfHit(hs[k]) = {x}
    BY <1>5, <1>6
  <2> QED BY <2>1
<1>10. n <= limit /\ (n < limit => n = Cardinality(R))
  BY <1>1, <1>2, <1>8
<1> QED BY <1>3, <1>4, <1>7, <1>9, <1>10

\* The same of the hits that a step returns.
LEMMA ReturnsExactly ==
    ASSUME IndexInv, UNCHANGED indexVars, NEW R \in SUBSET LiveRows, NEW limit \in Nat, request'.limit = limit,
           Lists(hits', R, limit)
    PROVE  Exactly(R)'
<1>1. \A d \in Docs : text[d] \in TextOf(d)
  BY DEF IndexInv
<1>2. PICK hs : hs = hits'
  OBVIOUS
<1>3. /\ \A k \in DOMAIN hs : RowsOfHit(hs[k]) # {} /\ RowsOfHit(hs[k]) \subseteq R
      /\ \A k, m \in DOMAIN hs : RowsOfHit(hs[k]) = RowsOfHit(hs[m]) => k = m
      /\ Len(hs) < limit => Len(hs) = Cardinality(R)
  BY <1>1, <1>2, ListedRows
<1>4. LiveRows' = LiveRows
  BY DEF indexVars, LiveRows
<1>5. \A k \in DOMAIN hs : RowsOfHit(hits[k])' = RowsOfHit(hs[k])
  BY <1>2, <1>4 DEF RowsOfHit
<1>6. /\ \A k \in DOMAIN hits' : RowsOfHit(hits[k])' # {} /\ RowsOfHit(hits[k])' \subseteq R
      /\ \A k, m \in DOMAIN hits' : RowsOfHit(hits[k])' = RowsOfHit(hits[m])' => k = m
  BY <1>2, <1>3, <1>5
<1>7. Len(hits') < request'.limit => Len(hits') = Cardinality(R)
  BY <1>2, <1>3
<1> QED BY <1>6, <1>7 DEF Exactly

\* A step that is not a search leaves no search in hand, or everything as it was.
LEMMA OtherSteps ==
    ASSUME [Next]_vars
    PROVE  \/ UNCHANGED vars
           \/ request' = NoRequest
           \/ \E q \in Queries, limit \in Limits : LiteralSearch(q, limit)
           \/ \E pattern \in Patterns, limit \in Limits : RegexSearch(pattern, limit)
           \/ \E q \in Queries, limit \in Limits : FuzzySearch(q, limit)
<1>1. ASSUME NEW d \in Docs, NEW t \in Texts[d], UpsertDoc(d, t) PROVE request' = NoRequest
  BY <1>1 DEF UpsertDoc, Replace
<1>2. ASSUME NEW d \in Docs, RemoveDoc(d) PROVE request' = NoRequest
  BY <1>2 DEF RemoveDoc, Replace
<1>3. CASE Rebuild
  BY <1>3 DEF Rebuild
<1>4. CASE Return
  BY <1>4 DEF Return
<1> QED BY <1>1, <1>2, <1>3, <1>4 DEF Next

\* A literal search returns the rows whose normalised text has the normalised
\* query in it, wherever base, overlay and prefilter keep them.
THEOREM LiteralIsExact == Spec => []LiteralSearchIsExact
<1>1. Init => LiteralSearchIsExact
  BY DEF Init, LiteralSearchIsExact, Answered, NoRequest
<1>2. IndexInv /\ LiteralSearchIsExact /\ [Next]_vars => LiteralSearchIsExact'
  <2> SUFFICES ASSUME IndexInv, LiteralSearchIsExact, [Next]_vars PROVE LiteralSearchIsExact'
    OBVIOUS
  <2>1. CASE UNCHANGED vars
    BY <2>1 DEF vars, indexVars, LiteralSearchIsExact, Answered, Exactly, RowsOfHit, LiveRows
  <2>2. CASE request' = NoRequest
    BY <2>2 DEF LiteralSearchIsExact, Answered, NoRequest
  <2>3. ASSUME NEW q \in Queries, NEW limit \in Limits, LiteralSearch(q, limit) PROVE LiteralSearchIsExact'
    <3>1. request' = [mode |-> "literal", query |-> q, limit |-> limit] /\ hits' = LiteralHits(q, limit) /\ UNCHANGED indexVars
      BY <2>3 DEF LiteralSearch, Answer
    <3>2. q \in Seq(Char) /\ limit \in Nat
      BY SearchAssumption
    <3>3. PICK R : R = LiteralRows(q)
      OBVIOUS
    <3>4. R \in SUBSET LiveRows
      BY <3>3 DEF LiteralRows
    <3>5. Lists(hits', R, limit)
      BY <3>1, <3>2, <3>3, LiteralLists
    <3>6. Exactly(R)'
      BY <3>1, <3>2, <3>4, <3>5, ReturnsExactly
    <3>7. {r \in LiveRows' : Needle(request'.query) # <<>> /\ Has(Needle(request'.query), r.text_norm_ascii)} = R
      <4>1. LiveRows' = LiveRows
        BY <3>1 DEF indexVars, LiveRows
      <4> QED BY <3>1, <3>3, <4>1 DEF LiteralRows
    <3> QED BY <3>6, <3>7 DEF LiteralSearchIsExact, Exactly
  <2>4. ASSUME NEW pattern \in Patterns, NEW limit \in Limits, RegexSearch(pattern, limit) PROVE LiteralSearchIsExact'
    BY <2>4 DEF RegexSearch, Answer, LiteralSearchIsExact, Answered
  <2>5. ASSUME NEW q \in Queries, NEW limit \in Limits, FuzzySearch(q, limit) PROVE LiteralSearchIsExact'
    BY <2>5 DEF FuzzySearch, Answer, LiteralSearchIsExact, Answered
  <2> QED BY <2>1, <2>2, <2>3, <2>4, <2>5, OtherSteps
<1> QED BY <1>1, <1>2, IndexStands, PTL DEF Spec

\* A short part of a page that is not white is normalised in a row of the page.
LEMMA PartHasRow ==
    ASSUME NEW d, NEW t \in Seq(Char), NEW p \in DOMAIN SplitPages(t), NEW q \in SubSeqs(SplitPages(t)[p]),
           Len(q) <= Overlap + 1, ~IsWhite(q), NormalizeForIndex(q) # <<>>
    PROVE  \E r \in RowsOf(d, t) : r.page_no = p /\ Has(NormalizeForIndex(q), r.text_norm_ascii)
<1> DEFINE ps == SplitPages(t)
           pg == ps[p]
<1>1. pg \in Seq(Char)
  BY PagesTyped
<1>2. p \in DOMAIN ps /\ q \in SubSeqs(pg)
  OBVIOUS
<1> HIDE DEF ps
<1>3. PICK h \in 0 .. Len(pg), j \in 0 .. Len(pg) : q = SubSeq(pg, h + 1, j)
  BY <1>2 DEF SubSeqs
<1>4. PICK n \in Nat : n = Len(pg)
  BY <1>1
<1>5. h \in Nat /\ j \in Nat /\ j <= n /\ q \in Seq(Char) /\ Len(q) = IF h <= j THEN j - h ELSE 0
  <2>1. h \in Nat /\ j \in Nat /\ j <= Len(pg)
    BY <1>3, <1>4
  <2> QED BY <1>1, <1>3, <1>4, <2>1, SubSeqFacts
<1>6. h < j
  <2>1. Len(q) # 0
    <3>1. q # <<>>
      BY DEF IsWhite
    <3> QED BY <1>5, <3>1
  <2> QED BY <1>5, <2>1
<1>7. PICK i \in 1 .. n : i = h + 1
  BY <1>5, <1>6
<1>8. j \in i .. n /\ j <= i + Overlap
  BY <1>5, <1>6, <1>7, WindowAssumption
<1>9. PICK k \in 0 .. LastWindow(n) : k * Step < i /\ j <= AtMost(k * Step + Window, n)
  BY <1>8, StretchInWindow
<1> DEFINE from == k * Step
           to   == AtMost(k * Step + Window, n)
           c    == Chunk(p, k, from, to)
<1>10. k \in Nat /\ from \in Nat /\ to \in Nat /\ to <= n
  <2>1. LastWindow(n) \in Nat
    BY LastWindowIs
  <2>2. k \in Nat
    BY <2>1
  <2>3. Step \in Nat /\ Window \in Nat
    BY WindowAssumption DEF Step
  <2>4. k * Step \in Nat
    BY <2>2, <2>3
  <2> QED BY <2>2, <2>3, <2>4 DEF AtMost
<1>11. BuildChunk(pg, p, k, from, to) = {c}
  <2>1. i \in DOMAIN pg /\ j \in DOMAIN pg /\ i <= j /\ from < i /\ j <= to /\ from < to /\ to <= Len(pg)
    BY <1>1, <1>4, <1>7, <1>8, <1>9, <1>10
  <2>2. ~IsWhite(SubSeq(pg, i, j))
    BY <1>3, <1>7
  <2> HIDE DEF from, to, pg
  <2> QED BY <1>1, <1>10, <2>1, <2>2, WindowHoldsStretch
<1>12. c \in ChunksOf(ps)
  <2>1. OfWindow(c, ps, p, k)
    BY <1>4, <1>11 DEF OfWindow
  <2>2. k \in 0 .. LastWindow(Len(ps[p]))
    BY <1>4
  <2> HIDE DEF c
  <2> QED BY <1>2, <2>1, <2>2, ChunksOfMember
<1> DEFINE x == SubSeq(pg, from + 1, h)
           y == SubSeq(pg, h + 1, j)
           z == SubSeq(pg, j + 1, to)
           body == SubSeq(pg, from + 1, to)
<1>13. body = (x \o y) \o z /\ x \in Seq(Char) /\ y \in Seq(Char) /\ z \in Seq(Char) /\ y = q
  <2>1. from <= h /\ h <= j /\ j <= to /\ to <= Len(pg)
    BY <1>4, <1>6, <1>7, <1>9, <1>10
  <2>2. y = q
    BY <1>3
  <2>3. h <= Len(pg) /\ j <= Len(pg)
    BY <1>3
  <2> HIDE DEF from, to, pg
  <2>4. body = (x \o y) \o z
    <3>1. pg \in Seq(Char) /\ from \in Nat /\ h \in Nat /\ j \in Nat /\ to \in Nat
      BY <1>1, <1>5, <1>10
    <3>2. SubSeq(pg, from + 1, to) = (SubSeq(pg, from + 1, h) \o SubSeq(pg, h + 1, j)) \o SubSeq(pg, j + 1, to)
      BY <2>1, <3>1, ThreeParts
    <3> QED BY <3>2
  <2>5. x \in Seq(Char) /\ y \in Seq(Char)
    BY <1>1, <1>5, <1>10, <2>3, SubSeqFacts
  <2>6. z \in Seq(Char)
    BY <1>1, <1>5, <1>10, <2>1, SubSeqFacts
  <2> QED BY <2>2, <2>4, <2>5, <2>6
<1> HIDE DEF x, y, z, body
<1>14. Occurrences(NormalizeForIndex(q), NormalizeForIndex(body)) # {}
  BY <1>13, NormalizedIsFound
<1> DEFINE r == RowOf(d, ps, c)
<1>15. r.page_no = p /\ r.text_norm_ascii = NormalizeForIndex(body)
  <2>1. c.page_no = p /\ c.from = from /\ c.to = to
    BY DEF Chunk
  <2> HIDE DEF c
  <2> QED BY <2>1 DEF RowOf, body
<1>16. r \in RowsOf(d, t)
  BY <1>12, RowsOfMember DEF ps
<1> HIDE DEF r
<1> QED BY <1>14, <1>15, <1>16 DEF Has

\* A list that is not full shows every row.
LEMMA ListShows ==
    ASSUME NEW hs, NEW R, NEW limit \in Nat, Lists(hs, R, limit), Len(hs) < limit, NEW r \in R
    PROVE  \E k \in DOMAIN hs : HitOf(hs[k], r)
<1>1. PICK rs \in Seq(R) : Shows(hs, rs) /\ (Len(rs) < limit => ToSet(rs) = R)
  BY DEF Lists
<1>2. Len(hs) = Len(rs) /\ hs \in Seq(Hit) /\ \A k \in DOMAIN rs : HitOf(hs[k], rs[k])
  BY <1>1 DEF Shows
<1>3. PICK k \in DOMAIN rs : rs[k] = r
  BY <1>1, <1>2 DEF ToSet
<1>4. k \in DOMAIN hs
  BY <1>2
<1> QED BY <1>2, <1>3, <1>4

\* What is printed on the pages of the texts is found with the hits hs.
FoundOnPages(texts, q, hs) ==
    \A d \in Docs : \A p \in DOMAIN SplitPages(texts[d]) :
        /\ Len(q) <= Overlap + 1 /\ ~IsWhite(q)
        /\ q \in SubSeqs(SplitPages(texts[d])[p])
        => \E k \in DOMAIN hs : hs[k].doc = d /\ hs[k].page_no = p

\* What is printed on a page of a document is found on that page when it is
\* typed, cut by a window or not.
THEOREM TypedIsFoundOnItsPage == Spec => []PhraseIsFound
<1>1. Init => PhraseIsFound
  BY DEF Init, PhraseIsFound, Answered, NoRequest
<1>a. PhraseIsFound <=> (Answered("literal") /\ Needle(request.query) # <<>> /\ Len(hits) < request.limit =>
                             FoundOnPages(text, request.query, hits))
  BY DEF PhraseIsFound, FoundOnPages
<1>b. PhraseIsFound' <=> (request'.mode = "literal" /\ Needle(request'.query) # <<>> /\ Len(hits') < request'.limit =>
                              FoundOnPages(text', request'.query, hits'))
  BY DEF PhraseIsFound, FoundOnPages, Answered
<1>2. IndexInv /\ PhraseIsFound /\ [Next]_vars => PhraseIsFound'
  <2> SUFFICES ASSUME IndexInv, PhraseIsFound, [Next]_vars PROVE PhraseIsFound'
    OBVIOUS
  <2>1. CASE UNCHANGED vars
    BY <1>a, <1>b, <2>1 DEF vars, indexVars, Answered
  <2>2. CASE request' = NoRequest
    BY <2>2 DEF PhraseIsFound, Answered, NoRequest
  <2>3. ASSUME NEW q \in Queries, NEW limit \in Limits, LiteralSearch(q, limit) PROVE PhraseIsFound'
    <3>1. request' = [mode |-> "literal", query |-> q, limit |-> limit] /\ hits' = LiteralHits(q, limit) /\ UNCHANGED indexVars
      BY <2>3 DEF LiteralSearch, Answer
    <3>2. q \in Seq(Char) /\ limit \in Nat
      BY SearchAssumption
    <3>3. PICK hs : hs = hits'
      OBVIOUS
    <3>4. Lists(hs, LiteralRows(q), limit)
      BY <3>1, <3>2, <3>3, LiteralLists
    <3>5. ASSUME Needle(q) # <<>>, Len(hs) < limit, NEW d \in Docs, NEW p \in DOMAIN SplitPages(text[d]),
                 Len(q) <= Overlap + 1, ~IsWhite(q), q \in SubSeqs(SplitPages(text[d])[p])
          PROVE  \E k \in DOMAIN hs : hs[k].doc = d /\ hs[k].page_no = p
      <4>1. text[d] \in TextOf(d)
        BY DEF IndexInv
      <4>2. text[d] \in Seq(Char)
        BY <4>1, TextOfTyped
      <4>3. PICK r \in RowsOf(d, text[d]) : r.page_no = p /\ Has(NormalizeForIndex(q), r.text_norm_ascii)
        BY <3>5, <4>2, PartHasRow DEF Needle
      <4>4. r \in LiteralRows(q) /\ r.doc = d
        BY <3>5, <4>1, <4>3, RowsOfRows DEF LiteralRows, LiveRows, Needle
      <4>5. PICK k \in DOMAIN hs : HitOf(hs[k], r)
        BY <3>2, <3>4, <3>5, <4>4, ListShows
      <4> QED BY <4>3, <4>4, <4>5 DEF HitOf
    <3>6. text' = text /\ request'.query = q /\ request'.limit = limit
      BY <3>1 DEF indexVars
    <3>7. Needle(q) # <<>> /\ Len(hs) < limit => FoundOnPages(text, q, hs)
      BY <3>5 DEF FoundOnPages
    <3> QED BY <1>b, <3>3, <3>6, <3>7
  <2>4. ASSUME NEW pattern \in Patterns, NEW limit \in Limits, RegexSearch(pattern, limit) PROVE PhraseIsFound'
    BY <2>4 DEF RegexSearch, Answer, PhraseIsFound, Answered
  <2>5. ASSUME NEW q \in Queries, NEW limit \in Limits, FuzzySearch(q, limit) PROVE PhraseIsFound'
    BY <2>5 DEF FuzzySearch, Answer, PhraseIsFound, Answered
  <2> QED BY <2>1, <2>2, <2>3, <2>4, <2>5, OtherSteps
<1> QED BY <1>1, <1>2, IndexStands, PTL DEF Spec

-----------------------------------------------------------------------------
(* Fuzzy search.                                                           *)

\* The rows of a document are those of its rows in the base that are not hidden,
\* or its rows in the overflow.
LEMMA RowsOfDoc ==
    ASSUME IndexInv, NEW d \in Docs
    PROVE  /\ \A r : r \in RowsOf(d, text[d]) <=>
                 (\E i \in LiveBase : base[i] = r /\ r.doc = d) \/ (r \in ToSet(overflow) /\ r.doc = d)
           /\ RowsOf(d, text[d]) \subseteq LiveRows /\ IsFiniteSet(RowsOf(d, text[d]))
           /\ \A r \in LiveRows : r.doc = d => r \in RowsOf(d, text[d])
           /\ \A r \in RowsOf(d, text[d]) : IsRow(r, d)
<1>1. \A e \in Docs : text[e] \in TextOf(e)
  BY DEF IndexInv
<1>2. \A r : r \in LiveRows <=> \E e \in Docs : r \in RowsOf(e, text[e])
  BY DEF LiveRows
<1>3. \A e \in Docs : IsFiniteSet(RowsOf(e, text[e])) /\ \A r \in RowsOf(e, text[e]) : r.doc = e
  BY <1>1, RowsOfRows
<1>4. LiveRows = Picked(base, LiveBase) \cup ToSet(overflow)
  BY DEF IndexInv
<1>5. \A r : r \in Picked(base, LiveBase) <=> \E i \in LiveBase : base[i] = r
  BY DEF Picked
<1>6. text[d] \in Seq(Char)
  BY <1>1, TextOfTyped
<1>7. \A r \in RowsOf(d, text[d]) : IsRow(r, d)
  BY <1>6, RowTyped
<1>8. \A r : r \in RowsOf(d, text[d]) <=> r \in LiveRows /\ r.doc = d
  BY <1>2, <1>3
<1> QED BY <1>3, <1>4, <1>5, <1>7, <1>8

\* Page and ordinal order the rows of a document.
PlaceKey(rows) == [r \in rows |-> <<r.page_no, r.chunk_ord>>]

LEMMA FirstRow ==
    ASSUME NEW d, NEW t \in Seq(Char), NEW rows, rows = RowsOf(d, t), rows # {}
    PROVE  \E x \in rows : \A r \in rows :
               r = x <=> \A s \in rows \ {r} : LexLess(PlaceKey(rows)[r], PlaceKey(rows)[s])
<1> DEFINE key == PlaceKey(rows)
           n   == Cardinality(rows)
           p   == SortedBy(key)
<1>1. IsFiniteSet(rows) /\ \A r \in rows : IsRow(r, d)
  BY RowsFinite, RowTyped
<1>2. DOMAIN key = rows /\ \A r \in rows : key[r] = <<r.page_no, r.chunk_ord>>
  BY DEF PlaceKey
<1>3. \A r \in rows : key[r] \in [1 .. 2 -> Int]
  <2> SUFFICES ASSUME NEW r \in rows PROVE <<r.page_no, r.chunk_ord>> \in [1 .. 2 -> Int]
    BY <1>2
  <2>1. r.page_no \in Int /\ r.chunk_ord \in Int
    BY <1>1 DEF IsRow
  <2> QED BY <2>1
<1>4. ASSUME NEW r \in rows, NEW s \in rows, key[r] = key[s] PROVE r = s
  <2>1. r.page_no = s.page_no /\ r.chunk_ord = s.chunk_ord
    BY <1>2, <1>4
  <2> QED BY <2>1, RowKey
<1>5. SortKeys(key, 2)
  <2>1. key \in [rows -> [1 .. 2 -> Int]]
    BY <1>2, <1>3 DEF PlaceKey
  <2> HIDE DEF key
  <2> QED BY <1>1, <1>2, <1>4, <2>1 DEF SortKeys
<1> HIDE DEF key
<1>6. /\ n \in Nat /\ p \in [1 .. n -> rows]
      /\ \A r \in rows : \E k \in 1 .. n : p[k] = r
      /\ \A k, m \in 1 .. n : k < m => LexLess(key[p[k]], key[p[m]])
  <2>1. n = Cardinality(DOMAIN key)
    BY <1>2
  <2>2. /\ n \in Nat /\ p \in [1 .. n -> DOMAIN key]
        /\ \A r \in DOMAIN key : LexBefore(key, r) + 1 \in 1 .. n /\ p[LexBefore(key, r) + 1] = r
        /\ \A k, m \in 1 .. n : k < m => LexLess(key[p[k]], key[p[m]])
    BY <1>5, <2>1, SortedByProperties
  <2> HIDE DEF n, p
  <2> QED BY <1>2, <2>2
<1> HIDE DEF n, p
<1>7. n >= 1
  <2>1. PICK r \in rows : TRUE
    OBVIOUS
  <2> QED BY <1>6, <2>1
<1>8. PICK x \in rows : x = p[1]
  BY <1>6, <1>7
<1>9. ASSUME NEW s \in rows, s # x PROVE LexLess(key[x], key[s])
  <2>1. PICK k \in 1 .. n : p[k] = s
    BY <1>6
  <2>2. 1 < k /\ 1 \in 1 .. n
    BY <1>7, <1>8, <1>9, <2>1
  <2> QED BY <1>6, <1>8, <2>1, <2>2
<1>10. ASSUME NEW r \in rows, \A s \in rows \ {r} : LexLess(key[r], key[s]) PROVE r = x
  <2> SUFFICES ASSUME r # x PROVE FALSE
    OBVIOUS
  <2>1. LexLess(key[r], key[x]) /\ LexLess(key[x], key[r])
    BY <1>9, <1>10
  <2>2. LexLess(key[x], key[x])
    BY <1>3, <2>1, LexLessTransitive
  <2>3. ~LexLess(key[x], key[x])
    BY <1>3, LexLessTotal
  <2> QED BY <2>2, <2>3
<1> QED BY <1>8, <1>9, <1>10 DEF key

\* A document with rows has one representative, one of its rows.
LEMMA Represented ==
    ASSUME IndexInv, NEW d \in Docs
    PROVE  IF RowsOf(d, text[d]) = {} THEN Representatives(d) = {}
           ELSE \E r \in RowsOf(d, text[d]) : Representatives(d) = {r}
<1> DEFINE rows   == RowsOf(d, text[d])
           inBase == {i \in DOMAIN base : base[i].doc = d /\ i \notin tombstones}
           inOver == {r \in ToSet(overflow) : r.doc = d}
           Best   == {r \in inOver : \A s \in inOver \ {r} :
                         LexLess(<<r.page_no, r.chunk_ord>>, <<s.page_no, s.chunk_ord>>)}
<1>1. Representatives(d) = IF inBase # {} THEN {base[Min(inBase)]} ELSE Best
  BY DEF Representatives
<1>2. \A r : r \in rows <=> (\E i \in LiveBase : base[i] = r /\ r.doc = d) \/ r \in inOver
  BY RowsOfDoc
<1>3. \A i : i \in inBase <=> i \in LiveBase /\ base[i].doc = d
  BY DEF LiveBase
<1> HIDE DEF inBase
<1>4. CASE inBase # {}
  <2>1. inBase \in SUBSET Nat
    <3>1. \A i \in inBase : i \in DOMAIN base
      BY <1>3 DEF LiveBase
    <3>2. DOMAIN base \subseteq Nat
      BY DEF IndexInv
    <3> QED BY <3>1, <3>2
  <2>2. PICK i \in inBase : i = Min(inBase)
    BY <1>4, <2>1, MinOf
  <2>3. base[i] \in rows
    BY <1>2, <1>3
  <2>4. Representatives(d) = {base[i]}
    BY <1>1, <1>4, <2>2
  <2> QED BY <2>3, <2>4
<1>5. CASE inBase = {} /\ rows # {}
  <2>1. rows = inOver
    BY <1>2, <1>3, <1>5
  <2>2. text[d] \in Seq(Char)
    BY TextOfTyped DEF IndexInv
  <2>3. PICK x \in rows : \A r \in rows : r = x <=> \A s \in rows \ {r} : LexLess(PlaceKey(rows)[r], PlaceKey(rows)[s])
    BY <1>5, <2>2, FirstRow
  <2>4. \A r \in rows : PlaceKey(rows)[r] = <<r.page_no, r.chunk_ord>>
    BY DEF PlaceKey
  <2>5. \A r : r \in Best <=> r \in rows /\ \A s \in rows \ {r} : LexLess(PlaceKey(rows)[r], PlaceKey(rows)[s])
    <3> HIDE DEF rows, inOver
    <3> QED BY <2>1, <2>4
  <2>6. Best = {x}
    <3> HIDE DEF rows, Best
    <3>1. \A r : r \in Best <=> r = x
      BY <2>3, <2>5
    <3> QED BY <3>1
  <2>7. Representatives(d) = {x}
    BY <1>1, <1>5, <2>6
  <2> QED BY <1>5, <2>7
<1>6. CASE inBase = {} /\ rows = {}
  <2>1. inOver = {}
    BY <1>2, <1>6
  <2>2. Best = {}
    <3> HIDE DEF inOver
    <3> QED BY <2>1
  <2> QED BY <1>1, <1>6, <2>2
<1>7. inBase # {} => rows # {}
  BY <1>2, <1>3
<1> QED BY <1>4, <1>5, <1>6, <1>7

LEMMA NamedIsDoc ==
    ASSUME IndexInv, NEW needle, NEW d \in DocsWithFilenameMatch(needle)
    PROVE  d \in Docs /\ \A p \in Terms(needle) : Has(Term(needle, p), FilenameNorm(d))
<1>1. \A p \in Terms(needle) : Has(Term(needle, p), FilenameNorm(d))
  BY DEF DocsWithFilenameMatch
<1>2. PICK i \in DOMAIN base : d = base[i].doc
  BY DEF DocsWithFilenameMatch
<1>3. base[i] \in Rows
  BY DEF IndexInv
<1> QED BY <1>1, <1>2, <1>3, RowsTyped

\* The filenames are sorted by tuples of numbers, the last of which is the document.
LEMMA FilenameKeyTyped ==
    ASSUME IndexInv, NEW needle \in Seq(Byte), NEW d \in DocsWithFilenameMatch(needle)
    PROVE  FilenameKey(needle, d) \in [1 .. 3 -> Int] /\ FilenameKey(needle, d)[3] = d
<1> DEFINE L          == Len(needle)
           Offsets(n) == {Find(Term(needle, p), FilenameNorm(d)) : p \in {t \in Terms(needle) : t[1] = n}}
           More(n)    == IF Offsets(n) = {} THEN 0 ELSE Min(Offsets(n))
           step       == [x \in (1 .. L) \X Int |-> x[2] + More(x[1])]
           turn(f)    == [n \in 0 .. L |-> IF n = 0 THEN 0 ELSE f[n - 1] + More(n)]
           sum        == CHOOSE f : f = turn(f)
<1>1. FilenameKey(needle, d) = <<sum[L], Len(FilenameNorm(d)), d>>
  BY DEF FilenameKey
<1>2. d \in Docs /\ \A p \in Terms(needle) : Has(Term(needle, p), FilenameNorm(d))
  BY NamedIsDoc
<1>3. ASSUME NEW n PROVE More(n) \in Nat
  <2>1. \A p \in Terms(needle) : Find(Term(needle, p), FilenameNorm(d)) \in Nat
    BY <1>2, FindTyped
  <2>2. Offsets(n) \in SUBSET Nat
    BY <2>1
  <2> HIDE DEF Offsets
  <2>3. CASE Offsets(n) = {}
    BY <2>3
  <2>4. CASE Offsets(n) # {}
    BY <2>2, <2>4, MinOf
  <2> QED BY <2>3, <2>4
<1> HIDE DEF More
<1>4. L \in Nat
  OBVIOUS
<1> HIDE DEF L
<1>5. \A n \in 1 .. L, a \in Int : step[<<n, a>>] = a + More(n) /\ step[<<n, a>>] \in Int
  BY <1>3
<1>6. Turns(step, L, Int)
  BY <1>5 DEF Turns
<1> HIDE DEF step
<1>7. PICK f : Iterates(f, 0, step, L, Int)
  BY <1>4, <1>6, LoopExists
<1>8. f = turn(f)
  <2>1. ASSUME NEW n \in 0 .. L PROVE f[n] = IF n = 0 THEN 0 ELSE f[n - 1] + More(n)
    <3>1. CASE n = 0
      BY <1>7, <3>1 DEF Iterates
    <3>2. CASE n # 0
      <4>1. n \in 1 .. L
        BY <1>4, <3>2
      <4> QED BY <1>5, <1>7, <3>2, <4>1 DEF Iterates
    <3> QED BY <3>1, <3>2
  <2>2. f = [n \in 0 .. L |-> f[n]]
    BY <1>7 DEF Iterates
  <2> QED BY <2>1, <2>2
<1>9. sum = turn(sum)
  BY <1>8
<1> HIDE DEF sum
<1>10. sum = [n \in 0 .. L |-> sum[n]] /\ sum[0] = 0 /\ \A n \in 1 .. L : sum[n] = sum[n - 1] + More(n)
  <2>1. \A n \in 0 .. L : sum[n] = IF n = 0 THEN 0 ELSE sum[n - 1] + More(n)
    BY <1>9
  <2>2. sum = [n \in 0 .. L |-> sum[n]]
    BY <1>9
  <2>3. 0 \in 0 .. L /\ \A n \in 1 .. L : n \in 0 .. L /\ n # 0
    BY <1>4
  <2> HIDE DEF turn
  <2> QED BY <2>1, <2>2, <2>3
<1>11. Iterates(sum, 0, step, L, Int)
  <2>1. \A n \in 1 .. L : sum[n - 1] \in Int => sum[n] = step[<<n, sum[n - 1]>>]
    BY <1>5, <1>10
  <2> QED BY <1>4, <1>6, <1>10, <2>1, LoopTyped
<1>12. sum[L] \in Int
  BY <1>4, <1>11 DEF Iterates
<1>13. Len(FilenameNorm(d)) \in Int /\ d \in Int
  <2>1. Filename[d] \in Seq(Char) /\ d \in Nat
    BY <1>2, SearchAssumption
  <2>2. FilenameNorm(d) \in Seq(Byte)
    BY <2>1, NormalizeTyped DEF FilenameNorm
  <2> QED BY <2>1, <2>2
<1> QED BY <1>1, <1>12, <1>13

\* The documents of the filename band.
Named(needle) == {d \in DocsWithFilenameMatch(needle) : RowsOf(d, text[d]) # {}}

\* rs are rows of R of different documents, n of those named.
Band(rs, R, named, n) ==
    /\ rs \in Seq(R) /\ Len(rs) = n
    /\ \A k \in DOMAIN rs : rs[k].doc \in named
    /\ \A k, m \in DOMAIN rs : rs[k].doc = rs[m].doc => k = m

LEMMA FilenameBand ==
    ASSUME IndexInv, NEW needle \in Seq(Byte), NEW limit \in Nat
    PROVE  /\ Cardinality(Named(needle)) \in Nat
           /\ \E rs : /\ Band(rs, LiveRows, Named(needle), AtMost(Cardinality(Named(needle)), limit))
                      /\ Shows(FilenameHits(needle, limit), rs)
<1> DEFINE named  == Named(needle)
           rows   == UNION {Representatives(d) : d \in DocsWithFilenameMatch(needle)}
           key    == [r \in rows |-> FilenameKey(needle, r.doc)]
           sorted == SortedBy(key)
           l      == AtMost(Len(sorted), limit)
           hs     == [k \in 1 .. l |-> MakeHit(sorted[k], NormPlace(sorted[k], 0, Len(needle)))]
<1>1. FilenameHits(needle, limit) = hs
  BY DEF FilenameHits
<1>2. \A d \in named : d \in Docs /\ d \in DocsWithFilenameMatch(needle) /\ RowsOf(d, text[d]) # {}
  BY NamedIsDoc DEF Named
<1>3. named \in SUBSET Docs /\ IsFiniteSet(named)
  <2>1. named \in SUBSET Docs /\ IsFiniteSet(Docs)
    BY <1>2, SearchAssumption
  <2> HIDE DEF named
  <2> QED BY <2>1, FS_Subset
<1> DEFINE f == [d \in named |-> CHOOSE r \in RowsOf(d, text[d]) : Representatives(d) = {r}]
<1>4. \A d \in named : f[d] \in RowsOf(d, text[d]) /\ Representatives(d) = {f[d]} /\ f[d] \in LiveRows /\ f[d].doc = d
  <2> SUFFICES ASSUME NEW d \in named
               PROVE  f[d] \in RowsOf(d, text[d]) /\ Representatives(d) = {f[d]} /\ f[d] \in LiveRows /\ f[d].doc = d
    OBVIOUS
  <2>1. \E r \in RowsOf(d, text[d]) : Representatives(d) = {r}
    BY <1>2, Represented
  <2>2. f[d] \in RowsOf(d, text[d]) /\ Representatives(d) = {f[d]}
    <3> HIDE DEF named
    <3> QED BY <2>1
  <2>3. f[d] \in LiveRows /\ IsRow(f[d], d)
    BY <1>2, <2>2, RowsOfDoc
  <2> QED BY <2>2, <2>3 DEF IsRow
<1>5. \A d \in DocsWithFilenameMatch(needle) : d \notin named => Representatives(d) = {}
  <2> SUFFICES ASSUME NEW d \in DocsWithFilenameMatch(needle), d \notin named PROVE Representatives(d) = {}
    OBVIOUS
  <2>1. d \in Docs /\ RowsOf(d, text[d]) = {}
    BY NamedIsDoc DEF Named
  <2> QED BY <2>1, Represented
<1> HIDE DEF f
<1>6. rows = {f[d] : d \in named}
  <2>1. \A r : r \in rows <=> \E d \in DocsWithFilenameMatch(needle) : r \in Representatives(d)
    OBVIOUS
  <2>2. named \subseteq DocsWithFilenameMatch(needle)
    BY <1>2
  <2> HIDE DEF rows, named
  <2>3. \A r : r \in rows <=> \E d \in named : r = f[d]
    BY <1>4, <1>5, <2>1, <2>2
  <2> QED BY <2>3
<1> HIDE DEF rows
<1>7. IsFiniteSet(rows) /\ Cardinality(rows) = Cardinality(named) /\ Cardinality(named) \in Nat
  <2>1. \A d, e \in named : f[d] = f[e] => d = e
    BY <1>4
  <2> HIDE DEF named
  <2>2. IsFiniteSet({f[d] : d \in named}) /\ Cardinality({f[d] : d \in named}) = Cardinality(named)
    BY <1>3, <2>1, InjectiveImage
  <2> QED BY <1>3, <1>6, <2>2, FS_CardinalityType
<1>8. \A r \in rows : r \in LiveRows /\ r \in Rows /\ r.doc \in named /\ \A s \in rows : r.doc = s.doc => r = s
  <2>1. LiveRows \subseteq Rows
    BY LiveRowsFinite DEF IndexInv
  <2>2. \A r \in rows : \E d \in named : r = f[d]
    BY <1>6
  <2> HIDE DEF named
  <2> QED BY <1>4, <2>1, <2>2
<1>9. SortKeys(key, 3)
  <2>1. \A r \in rows : key[r] \in [1 .. 3 -> Int] /\ key[r][3] = r.doc
    <3> SUFFICES ASSUME NEW r \in rows
                 PROVE  FilenameKey(needle, r.doc) \in [1 .. 3 -> Int] /\ FilenameKey(needle, r.doc)[3] = r.doc
      OBVIOUS
    <3>1. r.doc \in DocsWithFilenameMatch(needle)
      BY <1>2, <1>8
    <3> QED BY <3>1, FilenameKeyTyped
  <2>2. DOMAIN key = rows /\ key = [r \in rows |-> key[r]]
    OBVIOUS
  <2> HIDE DEF key
  <2>3. key \in [rows -> [1 .. 3 -> Int]]
    BY <2>1, <2>2
  <2>4. \A r, s \in rows : key[r] = key[s] => r = s
    BY <1>8, <2>1
  <2> QED BY <1>7, <2>2, <2>3, <2>4 DEF SortKeys
<1>10. PICK n \in Nat : n = Cardinality(named)
  BY <1>7
<1>11. sorted \in [1 .. n -> rows] /\ \A k, m \in 1 .. n : sorted[k] = sorted[m] => k = m
  <2>1. n = Cardinality(DOMAIN key) /\ DOMAIN key = rows
    BY <1>7, <1>10
  <2> HIDE DEF key
  <2>2. /\ SortedBy(key) \in [1 .. n -> DOMAIN key]
        /\ \A k, m \in 1 .. n : SortedBy(key)[k] = SortedBy(key)[m] => k = m
    BY <1>9, <2>1, SortedByProperties
  <2> QED BY <2>1, <2>2
<1> HIDE DEF key
<1>12. DOMAIN sorted = 1 .. n /\ (\A k \in 1 .. n : sorted[k] \in rows) /\ sorted \in Seq(rows)
  BY <1>10, <1>11, SeqDef
<1>13. Len(sorted) = n
  <2> HIDE DEF sorted
  <2> QED BY <1>10, <1>12
<1> HIDE DEF sorted
<1>14. l = AtMost(n, limit) /\ l \in Nat /\ l <= n
  BY <1>10, <1>13 DEF AtMost
<1> HIDE DEF l, named
<1> DEFINE rs == [k \in 1 .. l |-> sorted[k]]
<1>15. \A k \in 1 .. l : k \in 1 .. n /\ sorted[k] \in LiveRows /\ sorted[k] \in Rows /\ sorted[k].doc \in named
  BY <1>8, <1>10, <1>12, <1>14
<1>16. rs \in Seq(LiveRows) /\ Len(rs) = l /\ DOMAIN rs = 1 .. l /\ \A k \in 1 .. l : rs[k] = sorted[k]
  <2>1. rs \in [1 .. l -> LiveRows]
    BY <1>15
  <2>2. rs \in Seq(LiveRows)
    BY <1>14, <2>1, SeqDef
  <2> QED BY <1>14, <2>2
<1>17. hs \in Seq(Hit) /\ Len(hs) = l /\ \A k \in 1 .. l : HitOf(hs[k], sorted[k])
  <2>1. ASSUME NEW k \in 1 .. l PROVE HitOf(hs[k], sorted[k]) /\ hs[k] \in Hit
    <3>1. PICK r \in Rows : r = sorted[k]
      BY <1>15
    <3>2. NormPlace(r, 0, Len(needle)).offset \in Nat /\ NormPlace(r, 0, Len(needle)).len \in Nat
      <4>1. Len(needle) \in Nat /\ 0 \in Nat
        OBVIOUS
      <4> QED BY <4>1, NormPlaceTyped
    <3>3. HitOf(MakeHit(r, NormPlace(r, 0, Len(needle))), r)
      BY <3>2, HitMade
    <3>4. hs[k] = MakeHit(r, NormPlace(r, 0, Len(needle)))
      BY <3>1
    <3> QED BY <3>1, <3>3, <3>4 DEF HitOf
  <2>2. hs = [k \in 1 .. l |-> hs[k]]
    OBVIOUS
  <2> HIDE DEF hs
  <2>3. hs \in [1 .. l -> Hit]
    BY <2>1, <2>2
  <2>4. hs \in Seq(Hit)
    BY <1>14, <2>3, SeqDef
  <2> QED BY <1>14, <2>1, <2>3, <2>4
<1> HIDE DEF rs, hs
<1>18. Shows(hs, rs)
  BY <1>16, <1>17 DEF Shows
<1>19. Band(rs, LiveRows, named, l)
  <2>1. \A k, m \in 1 .. l : rs[k].doc = rs[m].doc => k = m
    <3> SUFFICES ASSUME NEW k \in 1 .. l, NEW m \in 1 .. l, rs[k].doc = rs[m].doc PROVE k = m
      OBVIOUS
    <3>1. sorted[k] \in rows /\ sorted[m] \in rows /\ sorted[k].doc = sorted[m].doc
      BY <1>12, <1>15, <1>16
    <3>2. sorted[k] = sorted[m]
      BY <1>8, <3>1
    <3> QED BY <1>11, <1>15, <3>2
  <2> QED BY <1>15, <1>16, <2>1 DEF Band
<1>20. Cardinality(named) \in Nat /\ \E r : Band(r, LiveRows, named, AtMost(Cardinality(named), limit)) /\ Shows(hs, r)
  BY <1>10, <1>14, <1>18, <1>19
<1> QED BY <1>1, <1>20 DEF named

\* The hits hs are those of some of the rows S, none of them twice.
ShowsSome(hs, S) == \E rs \in Seq(S) : Distinct(rs) /\ Shows(hs, rs)

LEMMA BodyTyped ==
    ASSUME IndexInv, NEW needle
    PROVE  /\ BodyCandidates(needle) \in Seq(LiveRows) /\ BodyCandidates(needle) \in Seq(Rows)
           /\ Distinct(BodyCandidates(needle))
           /\ \A r \in ToSet(BodyCandidates(needle)) : r.doc \notin DocsWithFilenameMatch(needle)
<1> DEFINE inBase == BaseCandidates(FuzzyQuery(needle))
           all    == inBase \o overflow
           P      == {i \in DOMAIN all : all[i].doc \notin DocsWithFilenameMatch(needle)}
<1>1. BodyCandidates(needle) = Sift(all, P)
  BY DEF BodyCandidates
<1>2. LiveRows = Picked(base, LiveBase) \cup ToSet(overflow) /\ LiveRows \subseteq Rows
  BY LiveRowsFinite DEF IndexInv
<1>3. inBase \in Seq(Rows) /\ Distinct(inBase) /\ ToSet(inBase) \subseteq Picked(base, LiveBase)
  <2>1. \A tree : /\ BaseCandidates(tree) \in Seq(Rows) /\ Distinct(BaseCandidates(tree))
                  /\ ToSet(BaseCandidates(tree)) = Picked(base, Passed(tree)) /\ Passed(tree) \subseteq LiveBase
    BY BaseTyped
  <2>2. \A tree : Picked(base, Passed(tree)) \subseteq Picked(base, LiveBase)
    BY <2>1 DEF Picked
  <2> QED BY <2>1, <2>2
<1>4. overflow \in Seq(Rows) /\ Distinct(overflow)
  BY DEF IndexInv
<1>5. ToSet(inBase) \cap ToSet(overflow) = {}
  BY <1>3, SidesApart
<1> HIDE DEF inBase
<1>6. all \in Seq(Rows) /\ Distinct(all) /\ ToSet(all) \subseteq LiveRows
  BY <1>2, <1>3, <1>4, <1>5, ConcatSet
<1>7. P \in SUBSET DOMAIN all /\ \A r \in Picked(all, P) : r.doc \notin DocsWithFilenameMatch(needle)
  BY DEF Picked
<1> HIDE DEF P, all
<1> DEFINE s == Sift(all, P)
<1>8. s \in Seq(Rows) /\ ToSet(s) = Picked(all, P) /\ Distinct(s)
  BY <1>6, <1>7, SiftTyped
<1>9. Picked(all, P) \subseteq ToSet(all)
  BY <1>7 DEF Picked, ToSet
<1> HIDE DEF s
<1>10. s \in Seq(LiveRows)
  <2>1. \A k \in DOMAIN s : s[k] \in ToSet(s)
    BY DEF ToSet
  <2>2. \A k \in DOMAIN s : s[k] \in LiveRows
    BY <1>6, <1>8, <1>9, <2>1
  <2> QED BY <1>8, <2>2
<1> QED BY <1>1, <1>7, <1>8, <1>10 DEF s

LEMMA FrizbeeShows ==
    ASSUME NEW needle \in Seq(Byte), NEW R \in SUBSET Rows, NEW rows \in Seq(R), Distinct(rows),
           NEW score, \A r \in ToSet(rows) : score[RankText(r)] \in Int
    PROVE  ShowsSome(FrizbeeHits(needle, rows, score), R)
<1> DEFINE Score(i) == score[RankText(rows[i])]
           D        == {j \in DOMAIN rows : Score(j) > 0}
           key      == [i \in D |-> <<-Score(i), i>>]
           at       == SortedBy(key)
           hs       == [k \in DOMAIN at |-> MakeHit(rows[at[k]], FuzzyPlace(needle, rows[at[k]]))]
<1>1. FrizbeeHits(needle, rows, score) = hs
  BY DEF FrizbeeHits
<1>2. PICK l \in Nat : l = Len(rows) /\ DOMAIN rows = 1 .. l
  OBVIOUS
<1>3. \A i \in 1 .. l : Score(i) \in Int /\ rows[i] \in R /\ rows[i] \in Rows
  BY <1>2 DEF ToSet
<1> HIDE DEF Score
<1>4. D \in SUBSET (1 .. l) /\ IsFiniteSet(D)
  <2>1. D \in SUBSET (1 .. l) /\ IsFiniteSet(1 .. l)
    BY <1>2, FS_Interval
  <2> HIDE DEF D
  <2> QED BY <2>1, FS_Subset
<1> HIDE DEF D
<1>5. SortKeys(key, 2)
  <2>1. \A i \in D : key[i] \in [1 .. 2 -> Int] /\ key[i][2] = i
    <3> SUFFICES ASSUME NEW i \in D PROVE <<-Score(i), i>> \in [1 .. 2 -> Int]
      OBVIOUS
    <3>1. -Score(i) \in Int /\ i \in Int
      BY <1>3, <1>4
    <3> QED BY <3>1
  <2>2. DOMAIN key = D /\ key = [i \in D |-> key[i]]
    OBVIOUS
  <2> HIDE DEF key
  <2>3. key \in [D -> [1 .. 2 -> Int]]
    BY <2>1, <2>2
  <2> QED BY <1>4, <2>1, <2>2, <2>3 DEF SortKeys
<1>6. PICK n \in Nat : n = Cardinality(D)
  BY <1>4, FS_CardinalityType
<1>7. at \in [1 .. n -> D] /\ \A k, m \in 1 .. n : at[k] = at[m] => k = m
  <2>1. n = Cardinality(DOMAIN key) /\ DOMAIN key = D
    BY <1>6
  <2> HIDE DEF key
  <2>2. /\ SortedBy(key) \in [1 .. n -> DOMAIN key]
        /\ \A k, m \in 1 .. n : SortedBy(key)[k] = SortedBy(key)[m] => k = m
    BY <1>5, <2>1, SortedByProperties
  <2> QED BY <2>1, <2>2
<1> HIDE DEF key, at
<1>8. DOMAIN at = 1 .. n /\ \A k \in 1 .. n : at[k] \in 1 .. l
  BY <1>4, <1>7
<1> DEFINE rs == [k \in 1 .. n |-> rows[at[k]]]
<1>9. \A k \in 1 .. n : rows[at[k]] \in R /\ rows[at[k]] \in Rows
  BY <1>3, <1>8
<1>10. rs \in Seq(R) /\ Len(rs) = n /\ DOMAIN rs = 1 .. n /\ \A k \in 1 .. n : rs[k] = rows[at[k]]
  <2>1. rs \in [1 .. n -> R]
    BY <1>9
  <2>2. rs \in Seq(R)
    BY <1>6, <2>1, SeqDef
  <2> QED BY <1>6, <2>2
<1>11. hs \in Seq(Hit) /\ Len(hs) = n /\ \A k \in 1 .. n : HitOf(hs[k], rows[at[k]])
  <2>1. ASSUME NEW k \in 1 .. n PROVE HitOf(hs[k], rows[at[k]]) /\ hs[k] \in Hit
    <3>1. PICK r \in Rows : r = rows[at[k]]
      BY <1>9
    <3>2. FuzzyPlace(needle, r).offset \in Nat /\ FuzzyPlace(needle, r).len \in Nat
      <4>1. Len(needle) \in Nat /\ (IF Has(needle, r.text_norm_ascii) THEN Find(needle, r.text_norm_ascii) ELSE 0) \in Nat
        BY FindTyped
      <4> QED BY <4>1, NormPlaceTyped DEF FuzzyPlace
    <3>3. HitOf(MakeHit(r, FuzzyPlace(needle, r)), r)
      BY <3>2, HitMade
    <3>4. hs[k] = MakeHit(r, FuzzyPlace(needle, r))
      BY <1>8, <3>1
    <3> QED BY <3>1, <3>3, <3>4 DEF HitOf
  <2>2. hs = [k \in 1 .. n |-> hs[k]]
    BY <1>8
  <2> HIDE DEF hs
  <2>3. hs \in [1 .. n -> Hit]
    BY <2>1, <2>2
  <2>4. hs \in Seq(Hit)
    BY <1>6, <2>3, SeqDef
  <2> QED BY <1>6, <2>1, <2>3, <2>4
<1> HIDE DEF rs, hs
<1>12. Shows(hs, rs)
  BY <1>10, <1>11 DEF Shows
<1>13. Distinct(rs)
  <2> SUFFICES ASSUME NEW k \in 1 .. n, NEW m \in 1 .. n, rs[k] = rs[m] PROVE k = m
    BY <1>10 DEF Distinct
  <2>1. at[k] = at[m]
    BY <1>2, <1>8, <1>10 DEF Distinct
  <2> QED BY <1>7, <2>1
<1> QED BY <1>1, <1>10, <1>12, <1>13 DEF ShowsSome

LEMMA BodyShows ==
    ASSUME NEW needle \in Seq(Byte), NEW R \in SUBSET Rows, NEW rows \in Seq(R), rows \in Seq(Rows), Distinct(rows),
           NEW score \in [RankTexts(rows) -> 0 .. MaxScore], NEW slots \in Nat
    PROVE  ShowsSome(BodyHits(needle, rows, score, slots), ToSet(rows))
<1> DEFINE S == ToSet(rows)
<1>1. S \in SUBSET Rows /\ rows \in Seq(S)
  <2>1. rows \in [1 .. Len(rows) -> S] /\ Len(rows) \in Nat
    BY DEF ToSet
  <2>2. S \in SUBSET Rows
    BY DEF ToSet
  <2> QED BY <2>1, <2>2, SeqDef
<1>2. CASE Len(rows) > FrizbeeLimit
  <2>1. BodyHits(needle, rows, score, slots) = Walk(<<>>, VerifyLiteral(needle, rows), slots)
    BY <1>2 DEF BodyHits
  <2> DEFINE W  == WithNeedle(needle, S)
             hs == VerifyLiteral(needle, rows)
  <2>2. Complete(hs, W)
    BY VerifyCompletes
  <2> HIDE DEF W, hs
  <2>3. PICK ss \in Seq(W) : Distinct(ss) /\ ToSet(ss) = W /\ Shows(hs, ss)
    BY <2>2 DEF Complete
  <2>4. Lists(<<>>, {}, slots) /\ {} \cap W = {}
    BY ListsNothing
  <2>5. Lists(Walk(<<>>, hs, slots), {} \cup W, slots)
    BY <2>3, <2>4, WalkLists
  <2>6. PICK rs \in Seq({} \cup W) : Distinct(rs) /\ Shows(Walk(<<>>, hs, slots), rs)
    BY <2>5 DEF Lists
  <2>7. rs \in Seq(S)
    <3>1. W \subseteq S
      BY DEF W, WithNeedle
    <3> HIDE DEF S
    <3> QED BY <3>1
  <2>8. ShowsSome(Walk(<<>>, hs, slots), S)
    BY <2>6, <2>7 DEF ShowsSome
  <2> QED BY <2>1, <2>8 DEF hs
<1>3. CASE ~(Len(rows) > FrizbeeLimit)
  <2>1. BodyHits(needle, rows, score, slots) = FrizbeeHits(needle, rows, score)
    BY <1>3 DEF BodyHits
  <2>2. \A r \in ToSet(rows) : score[RankText(r)] \in Int
    <3>1. \A r \in ToSet(rows) : RankText(r) \in RankTexts(rows)
      BY <1>3 DEF RankTexts
    <3>2. \A x \in RankTexts(rows) : score[x] \in 0 .. MaxScore
      OBVIOUS
    <3> QED BY <3>1, <3>2
  <2> HIDE DEF S
  <2> QED BY <1>1, <2>1, <2>2, FrizbeeShows DEF S
<1> QED BY <1>2, <1>3

\* rs has n rows of different named documents first, and then none of those.
TwoBands(rs, named, n) ==
    /\ n \in 0 .. Len(rs) /\ Distinct(rs)
    /\ \A k \in DOMAIN rs : rs[k].doc \in named <=> k <= n
    /\ \A k, m \in DOMAIN rs : k # m /\ k <= n => rs[k].doc # rs[m].doc

LEMMA BandsJoined ==
    ASSUME NEW R, NEW named, NEW n \in Nat, NEW rs, Band(rs, R, named, n),
           NEW S, NEW ss \in Seq(S), Distinct(ss), S \subseteq R, \A r \in S : r.doc \notin named
    PROVE  rs \o ss \in Seq(R) /\ Len(rs \o ss) = n + Len(ss) /\ TwoBands(rs \o ss, named, n)
<1> DEFINE all == rs \o ss
<1>1. PICK m \in Nat : m = Len(ss) /\ DOMAIN ss = 1 .. m /\ \A i \in 1 .. m : ss[i] \in S
  OBVIOUS
<1>2. /\ rs \in Seq(R) /\ Len(rs) = n /\ DOMAIN rs = 1 .. n
      /\ \A k \in 1 .. n : rs[k].doc \in named
      /\ \A k, i \in 1 .. n : rs[k].doc = rs[i].doc => k = i
  BY DEF Band
<1>3. ss \in Seq(R)
  OBVIOUS
<1>4. /\ all \in Seq(R) /\ Len(all) = n + m
      /\ (\A i \in 1 .. n : all[i] = rs[i]) /\ \A i \in 1 .. m : all[n + i] = ss[i]
  <2>1. /\ all \in Seq(R) /\ Len(all) = Len(rs) + Len(ss)
        /\ \A i \in 1 .. Len(rs) : all[i] = rs[i]
        /\ \A i \in 1 .. Len(ss) : all[Len(rs) + i] = ss[i]
    <3>1. rs \in Seq(R) /\ ss \in Seq(R)
      BY <1>2, <1>3
    <3> QED BY ONLY <3>1, ConcatProperties
  <2> HIDE DEF all
  <2> QED BY <1>1, <1>2, <2>1
<1> HIDE DEF all
<1>5. DOMAIN all = 1 .. n + m
  BY <1>4
<1>6. ASSUME NEW k \in 1 .. n + m PROVE \/ k \in 1 .. n /\ all[k] = rs[k]
                                        \/ k > n /\ \E i \in 1 .. m : k = n + i /\ all[k] = ss[i]
  <2>1. CASE k <= n
    BY <1>4, <2>1
  <2>2. CASE k > n
    <3>1. PICK i \in 1 .. m : k = n + i
      <4>1. k - n \in 1 .. m /\ k = n + (k - n)
        BY <1>1, <2>2
      <4> QED BY <4>1
    <3> QED BY <1>4, <2>2, <3>1
  <2> QED BY <2>1, <2>2
<1>7. \A k \in 1 .. n + m : all[k].doc \in named <=> k <= n
  <2> SUFFICES ASSUME NEW k \in 1 .. n + m PROVE all[k].doc \in named <=> k <= n
    OBVIOUS
  <2> QED BY <1>1, <1>2, <1>6
<1>8. \A k \in 1 .. n, i \in 1 .. n + m : k # i => all[k].doc # all[i].doc
  <2> SUFFICES ASSUME NEW k \in 1 .. n, NEW i \in 1 .. n + m, k # i PROVE all[k].doc # all[i].doc
    OBVIOUS
  <2>1. k \in 1 .. n + m /\ all[k] = rs[k]
    BY <1>1, <1>4
  <2>2. CASE i <= n
    BY <1>2, <1>4, <2>1, <2>2
  <2>3. CASE i > n
    BY <1>7, <2>1, <2>3
  <2> QED BY <2>2, <2>3
<1>9. Distinct(all)
  <2> SUFFICES ASSUME NEW k \in 1 .. n + m, NEW i \in 1 .. n + m, all[k] = all[i] PROVE k = i
    BY <1>5 DEF Distinct
  <2>1. CASE k <= n
    BY <1>8, <2>1
  <2>2. CASE i <= n
    BY <1>8, <2>2
  <2>3. CASE k > n /\ i > n
    <3>1. PICK a \in 1 .. m : k = n + a /\ all[k] = ss[a]
      BY <1>6, <2>3
    <3>2. PICK b \in 1 .. m : i = n + b /\ all[i] = ss[b]
      BY <1>6, <2>3
    <3>3. a = b
      BY <1>1, <3>1, <3>2 DEF Distinct
    <3> QED BY <3>1, <3>2, <3>3
  <2> QED BY <2>1, <2>2, <2>3
<1>10. TwoBands(all, named, n)
  <2>1. n \in 0 .. Len(all)
    BY <1>1, <1>4
  <2> QED BY <1>5, <1>7, <1>8, <1>9, <2>1 DEF TwoBands
<1> QED BY <1>1, <1>4, <1>10 DEF all

\* A list is cut behind the first band.
LEMMA BandsCut ==
    ASSUME NEW R, NEW rs \in Seq(R), NEW named, NEW n, TwoBands(rs, named, n), NEW l \in n .. Len(rs)
    PROVE  SubSeq(rs, 1, l) \in Seq(R) /\ TwoBands(SubSeq(rs, 1, l), named, n)
<1> DEFINE cut == SubSeq(rs, 1, l)
<1>1. n \in Nat /\ l \in Nat /\ l \in 0 .. Len(rs) /\ n <= l
  <2>1. PICK m \in Nat : m = Len(rs)
    OBVIOUS
  <2>2. n \in 0 .. m /\ l \in n .. m
    BY <2>1 DEF TwoBands
  <2> QED BY <2>1, <2>2
<1>2. cut \in Seq(R) /\ Len(cut) = l /\ (\A i \in 1 .. l : cut[i] = rs[i]) /\ (Distinct(rs) => Distinct(cut))
  BY <1>1, FirstOf
<1> HIDE DEF cut
<1>3. DOMAIN cut = 1 .. l /\ \A i \in 1 .. l : i \in DOMAIN rs
  BY <1>1, <1>2
<1>4. TwoBands(cut, named, n)
  BY <1>1, <1>2, <1>3 DEF TwoBands
<1> QED BY <1>2, <1>4 DEF cut

\* What a fuzzy search returns.
FuzzyShape(hs, R, named, limit) ==
    /\ Cardinality(named) \in Nat
    /\ \E rs \in Seq(R) : /\ Shows(hs, rs) /\ Len(rs) <= limit
                          /\ TwoBands(rs, named, AtMost(Cardinality(named), limit))

LEMMA FuzzyShaped ==
    ASSUME IndexInv, NEW needle \in Seq(Byte), NEW limit \in Nat,
           NEW score \in [RankTexts(BodyCandidates(needle)) -> 0 .. MaxScore],
           NEW named, named = IF needle = <<>> THEN {} ELSE Named(needle)
    PROVE  FuzzyShape(FuzzyHits(needle, limit, score), LiveRows, named, limit)
<1> DEFINE band  == FilenameHits(needle, limit)
           slots == limit - Len(band)
           cand  == BodyCandidates(needle)
           body  == IF slots = 0 THEN <<>> ELSE BodyHits(needle, cand, score, slots)
           both  == band \o body
           l     == AtMost(Len(both), limit)
           card  == Cardinality(named)
           n     == AtMost(card, limit)
<1>1. FuzzyHits(needle, limit, score) = IF needle = <<>> \/ limit = 0 THEN <<>> ELSE SubSeq(both, 1, l)
  BY DEF FuzzyHits
<1>2. card \in Nat
  <2>1. CASE needle = <<>>
    BY <2>1, FS_EmptySet
  <2>2. CASE needle # <<>>
    BY <2>2, FilenameBand
  <2> QED BY <2>1, <2>2
<1>3. n \in Nat /\ n <= limit
  <2> HIDE DEF card
  <2> QED BY <1>2 DEF AtMost
<1>4. CASE needle = <<>> \/ limit = 0
  <2>1. FuzzyHits(needle, limit, score) = <<>>
    BY <1>1, <1>4
  <2>2. n = 0
    <3>1. needle = <<>> => card = 0
      BY FS_EmptySet
    <3> HIDE DEF card
    <3> QED BY <1>2, <1>4, <3>1 DEF AtMost
  <2> DEFINE none == <<>>
  <2>3. none \in Seq(LiveRows) /\ Shows(none, none) /\ Len(none) <= limit
    BY DEF Shows
  <2>4. TwoBands(none, named, n)
    BY <2>2 DEF TwoBands, Distinct
  <2> HIDE DEF none, n
  <2>5. \E rs \in Seq(LiveRows) : Shows(none, rs) /\ Len(rs) <= limit /\ TwoBands(rs, named, n)
    BY <2>3, <2>4
  <2> QED BY <1>2, <2>1, <2>5 DEF FuzzyShape, none, n
<1>5. CASE needle # <<>> /\ limit # 0
  <2>1. named = Named(needle)
    BY <1>5
  <2>2. PICK fs : Band(fs, LiveRows, named, n) /\ Shows(band, fs)
    BY <2>1, FilenameBand
  <2>3. LiveRows \subseteq Rows
    BY LiveRowsFinite DEF IndexInv
  <2> HIDE DEF band, n, card
  <2>4. fs \in Seq(LiveRows) /\ Len(fs) = n /\ band \in Seq(Hit) /\ Len(band) = n /\ \A k \in 1 .. n : HitOf(band[k], fs[k])
    <3>1. fs \in Seq(LiveRows) /\ Len(fs) = n /\ DOMAIN fs = 1 .. n
      BY <2>2 DEF Band
    <3> QED BY <2>2, <3>1 DEF Shows
  <2>5. slots \in Nat
    BY <1>3, <2>4
  <2> HIDE DEF slots
  <2> DEFINE S == ToSet(cand)
  <2>6. /\ cand \in Seq(LiveRows) /\ cand \in Seq(Rows) /\ Distinct(cand)
        /\ S \subseteq LiveRows /\ \A r \in S : r.doc \notin named
    <3>1. /\ cand \in Seq(LiveRows) /\ cand \in Seq(Rows) /\ Distinct(cand)
          /\ \A r \in S : r.doc \notin DocsWithFilenameMatch(needle)
      BY BodyTyped
    <3>2. named \subseteq DocsWithFilenameMatch(needle)
      BY <2>1 DEF Named
    <3>3. S \subseteq LiveRows
      <4> HIDE DEF cand
      <4> QED BY <3>1 DEF ToSet
    <3> QED BY <3>1, <3>2, <3>3
  <2>7. ShowsSome(body, S)
    <3>1. CASE slots = 0
      <4>1. body = <<>>
        BY <3>1
      <4>2. <<>> \in Seq(S) /\ Distinct(<<>>) /\ Shows(<<>>, <<>>)
        BY DEF Distinct, Shows
      <4> HIDE DEF S, body
      <4> QED BY <4>1, <4>2 DEF ShowsSome
    <3>2. CASE slots # 0
      <4>1. body = BodyHits(needle, cand, score, slots)
        BY <3>2
      <4>2. score \in [RankTexts(cand) -> 0 .. MaxScore]
        OBVIOUS
      <4> HIDE DEF cand, body
      <4> QED BY <2>3, <2>5, <2>6, <4>1, <4>2, BodyShows
    <3> QED BY <3>1, <3>2
  <2> HIDE DEF body, S
  <2>8. PICK ss \in Seq(S) : Distinct(ss) /\ Shows(body, ss)
    BY <2>7 DEF ShowsSome
  <2>9. PICK m \in Nat : m = Len(ss) /\ body \in Seq(Hit) /\ Len(body) = m /\ \A k \in 1 .. m : HitOf(body[k], ss[k])
    <3>1. Len(ss) \in Nat /\ DOMAIN ss = 1 .. Len(ss)
      OBVIOUS
    <3> QED BY <2>8, <3>1 DEF Shows
  <2> DEFINE all == fs \o ss
  <2>10. all \in Seq(LiveRows) /\ Len(all) = n + m /\ TwoBands(all, named, n)
    <3>1. n \in Nat /\ Band(fs, LiveRows, named, n) /\ ss \in Seq(S) /\ Distinct(ss)
          /\ S \subseteq LiveRows /\ \A r \in S : r.doc \notin named
      BY <1>3, <2>2, <2>6, <2>8
    <3>2. fs \o ss \in Seq(LiveRows) /\ Len(fs \o ss) = n + Len(ss) /\ TwoBands(fs \o ss, named, n)
      BY ONLY <3>1, BandsJoined
    <3> QED BY <2>9, <3>2
  <2>11. /\ both \in Seq(Hit) /\ Len(both) = n + m
         /\ \A k \in 1 .. n + m : HitOf(both[k], all[k])
    <3>1. /\ both \in Seq(Hit) /\ Len(both) = Len(band) + Len(body)
          /\ \A i \in 1 .. Len(band) : both[i] = band[i]
          /\ \A i \in 1 .. Len(body) : both[Len(band) + i] = body[i]
      <4>1. band \in Seq(Hit) /\ body \in Seq(Hit)
        BY <2>4, <2>9
      <4> QED BY ONLY <4>1, ConcatProperties
    <3>2. ss \in Seq(LiveRows)
      BY <2>6
    <3>3. /\ \A i \in 1 .. Len(fs) : all[i] = fs[i]
          /\ \A i \in 1 .. Len(ss) : all[Len(fs) + i] = ss[i]
      BY <2>4, <3>2, ConcatProperties
    <3> HIDE DEF both, all
    <3>4. ASSUME NEW k \in 1 .. n + m PROVE HitOf(both[k], all[k])
      <4>1. CASE k <= n
        <5>1. k \in 1 .. n
          BY <1>3, <4>1
        <5> QED BY <2>4, <3>1, <3>3, <5>1
      <4>2. CASE k > n
        <5>1. PICK i \in 1 .. m : k = n + i
          <6>1. k - n \in 1 .. m /\ k = n + (k - n)
            BY <1>3, <2>9, <4>2
          <6> QED BY <6>1
        <5>2. both[k] = body[i] /\ all[k] = ss[i]
          BY <2>4, <2>9, <3>1, <3>3, <5>1
        <5> QED BY <2>9, <5>2
      <4> QED BY <1>3, <4>1, <4>2
    <3> QED BY <2>4, <2>9, <3>1, <3>4
  <2> HIDE DEF both, all
  <2>12. l \in Nat /\ l <= limit /\ n <= l /\ l <= n + m
    BY <1>3, <2>9, <2>11 DEF AtMost
  <2> HIDE DEF l
  <2> DEFINE cut == SubSeq(both, 1, l)
             of  == SubSeq(all, 1, l)
  <2>13. l \in n .. Len(all) /\ l \in 0 .. Len(all) /\ l \in 0 .. Len(both)
    BY <1>3, <2>10, <2>11, <2>12
  <2>14. of \in Seq(LiveRows) /\ TwoBands(of, named, n)
    BY <2>10, <2>13, BandsCut
  <2>15. Len(of) = l /\ \A i \in 1 .. l : of[i] = all[i]
    BY <2>10, <2>13, FirstOf
  <2>16. cut \in Seq(Hit) /\ Len(cut) = l /\ \A i \in 1 .. l : cut[i] = both[i]
    BY <2>11, <2>13, FirstOf
  <2> HIDE DEF cut, of
  <2>17. Shows(cut, of)
    <3>1. DOMAIN of = 1 .. l
      BY <2>14, <2>15
    <3>2. \A i \in 1 .. l : i \in 1 .. n + m
      BY <1>3, <2>9, <2>12
    <3> QED BY <2>11, <2>15, <2>16, <3>1, <3>2 DEF Shows
  <2>18. \E rs \in Seq(LiveRows) : Shows(cut, rs) /\ Len(rs) <= limit /\ TwoBands(rs, named, n)
    BY <2>12, <2>14, <2>15, <2>17
  <2> QED BY <1>1, <1>2, <1>5, <2>18 DEF FuzzyShape, cut, n, card
<1> QED BY <1>4, <1>5

\* What the hits of a fuzzy search say of the rows of the database.
Apart(hs, named, size) ==
    /\ size <= Len(hs)
    /\ \A k \in DOMAIN hs : RowsOfHit(hs[k]) # {} /\ (hs[k].doc \in named <=> k <= size)
    /\ \A k, m \in DOMAIN hs : k # m =>
          RowsOfHit(hs[k]) # RowsOfHit(hs[m]) /\ (k <= size => hs[k].doc # hs[m].doc)

LEMMA ShapeIsApart ==
    ASSUME \A d \in Docs : text[d] \in TextOf(d), NEW hs, NEW named, NEW limit \in Nat,
           FuzzyShape(hs, LiveRows, named, limit)
    PROVE  Apart(hs, named, AtMost(Cardinality(named), limit)) /\ Len(hs) <= limit
<1> DEFINE size == AtMost(Cardinality(named), limit)
           R    == LiveRows
<1>1. PICK rs \in Seq(R) : Shows(hs, rs) /\ Len(rs) <= limit /\ TwoBands(rs, named, size)
  BY DEF FuzzyShape
<1>2. PICK n \in Nat : n = Len(rs) /\ DOMAIN rs = 1 .. n /\ \A k \in 1 .. n : rs[k] \in R
  <2> HIDE DEF R
  <2> QED OBVIOUS
<1> HIDE DEF size
<1>3. /\ size \in 0 .. n /\ n <= limit
      /\ \A k, m \in 1 .. n : rs[k] = rs[m] => k = m
      /\ \A k \in 1 .. n : rs[k].doc \in named <=> k <= size
      /\ \A k, m \in 1 .. n : k # m /\ k <= size => rs[k].doc # rs[m].doc
  BY <1>1, <1>2 DEF TwoBands, Distinct
<1>4. hs \in Seq(Hit) /\ Len(hs) = n /\ \A k \in 1 .. n : HitOf(hs[k], rs[k])
  BY <1>1, <1>2 DEF Shows
<1>5. DOMAIN hs = 1 .. n
  BY <1>4
<1>6. \A k \in 1 .. n : RowsOfHit(hs[k]) = {rs[k]} /\ hs[k].doc = rs[k].doc
  <2> SUFFICES ASSUME NEW k \in 1 .. n PROVE RowsOfHit(hs[k]) = {rs[k]} /\ hs[k].doc = rs[k].doc
    OBVIOUS
  <2>1. PICK h : \E r \in LiveRows : h = hs[k] /\ r = rs[k] /\ HitOf(h, r)
    BY <1>2, <1>4 DEF R
  <2>2. PICK r \in LiveRows : h = hs[k] /\ r = rs[k] /\ HitOf(h, r)
    BY <2>1
  <2>3. RowsOfHit(h) = {r}
    BY <2>2, HitFindsRow
  <2> QED BY <2>2, <2>3 DEF HitOf
<1>7. \A k, m \in 1 .. n : k # m => RowsOfHit(hs[k]) # RowsOfHit(hs[m])
  <2>1. \A k, m \in 1 .. n : {rs[k]} = {rs[m]} => k = m
    BY <1>3
  <2> QED BY <1>6, <2>1
<1>8. \A k \in 1 .. n : RowsOfHit(hs[k]) # {} /\ (hs[k].doc \in named <=> k <= size)
  BY <1>3, <1>6
<1>9. size <= n
  BY <1>3
<1>10. Apart(hs, named, size)
  BY <1>3, <1>4, <1>5, <1>6, <1>7, <1>8, <1>9 DEF Apart
<1> QED BY <1>3, <1>4, <1>10 DEF size

\* The documents of the filename band, given an answer.
BandOf(needle) == IF needle = <<>> THEN {} ELSE Named(needle)

LEMMA FuzzyReturns ==
    ASSUME IndexInv, NEW q \in Queries, NEW limit \in Limits, FuzzySearch(q, limit)
    PROVE  /\ request' = [mode |-> "fuzzy", query |-> q, limit |-> limit] /\ UNCHANGED indexVars
           /\ Needle(q) = <<>> => hits' = <<>>
           /\ FuzzyShape(hits', LiveRows, BandOf(Needle(q)), limit)
<1>1. PICK needle : needle = Needle(q)
  OBVIOUS
<1>2. needle \in Seq(Byte) /\ limit \in Nat
  <2>1. q \in Seq(Char) /\ limit \in Nat
    BY SearchAssumption
  <2> QED BY <1>1, <2>1, NormalizeTyped DEF Needle
<1>3. PICK score \in [RankTexts(BodyCandidates(needle)) -> 0 .. MaxScore] :
         Answer("fuzzy", q, limit, FuzzyHits(needle, limit, score))
  BY <1>1 DEF FuzzySearch
<1>4. request' = [mode |-> "fuzzy", query |-> q, limit |-> limit] /\ hits' = FuzzyHits(needle, limit, score) /\ UNCHANGED indexVars
  BY <1>3 DEF Answer
<1>5. PICK named : named = IF needle = <<>> THEN {} ELSE Named(needle)
  OBVIOUS
<1>6. FuzzyShape(FuzzyHits(needle, limit, score), LiveRows, named, limit)
  BY <1>2, <1>3, <1>5, FuzzyShaped
<1>7. needle = <<>> => hits' = <<>>
  BY <1>4 DEF FuzzyHits
<1> QED BY <1>1, <1>4, <1>5, <1>6, <1>7 DEF BandOf

\* A fuzzy search returns first one row of each document of the base whose name
\* has every term, then rows of other documents, none of them twice, and none
\* that was removed or replaced.
THEOREM BandsAreSeparate == Spec => []FuzzyBandsAreSeparate
<1>1. Init => FuzzyBandsAreSeparate
  BY DEF Init, FuzzyBandsAreSeparate, Answered, NoRequest
<1>2. IndexInv /\ FuzzyBandsAreSeparate /\ [Next]_vars => FuzzyBandsAreSeparate'
  <2> SUFFICES ASSUME IndexInv, FuzzyBandsAreSeparate, [Next]_vars PROVE FuzzyBandsAreSeparate'
    OBVIOUS
  <2>1. CASE UNCHANGED vars
    <3>1. UNCHANGED <<text, base, tracked, tombstones, overflow, request, hits>>
      BY <2>1 DEF vars, indexVars
    <3>2. LiveRows' = LiveRows /\ \A needle : DocsWithFilenameMatch(needle)' = DocsWithFilenameMatch(needle)
      BY <3>1 DEF LiveRows, DocsWithFilenameMatch
    <3>3. \A h : RowsOfHit(h)' = RowsOfHit(h)
      BY <3>2 DEF RowsOfHit
    <3> QED BY <3>1, <3>2, <3>3, Zenon DEF FuzzyBandsAreSeparate, Answered
  <2>2. CASE request' = NoRequest
    BY <2>2 DEF FuzzyBandsAreSeparate, Answered, NoRequest
  <2>3. ASSUME NEW q \in Queries, NEW limit \in Limits, FuzzySearch(q, limit) PROVE FuzzyBandsAreSeparate'
    <3>1. PICK needle, named, size, hs : /\ needle = Needle(q) /\ named = BandOf(needle)
                                         /\ size = AtMost(Cardinality(named), limit) /\ hs = hits'
      OBVIOUS
    <3>2. /\ request' = [mode |-> "fuzzy", query |-> q, limit |-> limit] /\ UNCHANGED indexVars
          /\ needle = <<>> => hs = <<>>
          /\ FuzzyShape(hs, LiveRows, named, limit)
      BY <2>3, <3>1, FuzzyReturns
    <3>3. Apart(hs, named, size)
      <4>1. limit \in Nat
        BY SearchAssumption
      <4>2. \A d \in Docs : text[d] \in TextOf(d)
        BY DEF IndexInv
      <4> QED BY <3>1, <3>2, <4>1, <4>2, ShapeIsApart
    <3>4. text' = text /\ base' = base /\ LiveRows' = LiveRows
      BY <3>2 DEF indexVars, LiveRows
    <3>5. (IF needle = <<>> THEN {} ELSE {d \in DocsWithFilenameMatch(needle)' : RowsOf(d, text'[d]) # {}}) = named
      <4>1. DocsWithFilenameMatch(needle)' = DocsWithFilenameMatch(needle)
        BY <3>4 DEF DocsWithFilenameMatch
      <4> QED BY <3>1, <3>4, <4>1 DEF BandOf, Named
    <3>6. \A k \in DOMAIN hs : RowsOfHit(hits[k])' = RowsOfHit(hs[k])
      BY <3>1, <3>4 DEF RowsOfHit
    <3>7. /\ size <= Len(hits') /\ (needle = <<>> => hits' = <<>>)
          /\ \A k \in DOMAIN hits' : RowsOfHit(hits[k])' # {} /\ (hits'[k].doc \in named <=> k <= size)
          /\ \A k, m \in DOMAIN hits' : k # m =>
                RowsOfHit(hits[k])' # RowsOfHit(hits[m])' /\ (k <= size => hits'[k].doc # hits'[m].doc)
      BY <3>1, <3>2, <3>3, <3>6 DEF Apart
    <3>8. /\ request'.query = q /\ request'.limit = limit /\ request'.mode = "fuzzy"
      BY <3>2
    <3>9. Needle(request'.query) = needle
      BY <3>1, <3>8
    <3> QED BY <3>1, <3>5, <3>7, <3>8, <3>9 DEF FuzzyBandsAreSeparate
  <2>4. ASSUME NEW q \in Queries, NEW limit \in Limits, LiteralSearch(q, limit) PROVE FuzzyBandsAreSeparate'
    BY <2>4 DEF LiteralSearch, Answer, FuzzyBandsAreSeparate, Answered
  <2>5. ASSUME NEW pattern \in Patterns, NEW limit \in Limits, RegexSearch(pattern, limit) PROVE FuzzyBandsAreSeparate'
    BY <2>5 DEF RegexSearch, Answer, FuzzyBandsAreSeparate, Answered
  <2> QED BY <2>1, <2>2, <2>3, <2>4, <2>5, OtherSteps
<1> QED BY <1>1, <1>2, IndexStands, PTL DEF Spec

\* hs is a list of at most limit hits, of whatever kind.
NoMoreThan(hs, limit) == \E S : hs \in Seq(S) /\ Len(hs) <= limit

LEMMA WalkIsLimited ==
    ASSUME NEW S, NEW found \in Seq(S), NEW limit \in Nat, Len(found) <= limit, NEW more \in Seq(S)
    PROVE  Walk(found, more, limit) \in Seq(S) /\ Len(Walk(found, more, limit)) <= limit
<1>1. PICK m \in Nat, n \in Nat : m = Len(found) /\ n = Len(more) /\ m <= limit
  OBVIOUS
<1>2. PICK k \in 0 .. n : k = AtMost(n, limit - m)
  <2>1. limit - m \in Nat
    BY <1>1
  <2>2. AtMost(n, limit - m) \in 0 .. n
    BY <1>1, <2>1 DEF AtMost
  <2> QED BY <2>2
<1>3. k <= limit - m
  BY <1>1, <1>2 DEF AtMost
<1> DEFINE h == SubSeq(more, 1, k)
<1>4. h \in Seq(S) /\ Len(h) = k
  BY <1>1, <1>2, FirstOf
<1>5. Walk(found, more, limit) = found \o h
  BY <1>1, <1>2 DEF Walk
<1> HIDE DEF h
<1>6. found \o h \in Seq(S) /\ Len(found \o h) = Len(found) + Len(h)
  BY <1>4, ConcatProperties
<1> QED BY <1>1, <1>2, <1>3, <1>4, <1>5, <1>6

LEMMA RankIsLimited ==
    ASSUME NEW S, NEW hs \in Seq(S), NEW q, NEW limit, Len(hs) <= limit
    PROVE  NoMoreThan(CheapRank(hs, q), limit)
<1>1. PICK n \in Nat : n = Len(hs) /\ DOMAIN hs = 1 .. n
  <2>1. Len(hs) \in Nat /\ DOMAIN hs = 1 .. Len(hs)
    OBVIOUS
  <2> QED BY <2>1
<1> DEFINE at  == SortedBy([i \in DOMAIN hs |-> RankKey(hs[i], Trim(q)) \o <<i>>])
<1>2. CheapRank(hs, q) = [k \in DOMAIN hs |-> hs[at[k]]]
  BY DEF CheapRank
<1> HIDE DEF at
<1> DEFINE out == [k \in 1 .. n |-> hs[at[k]]]
           T   == {out[k] : k \in 1 .. n}
<1>3. out \in [1 .. n -> T]
  OBVIOUS
<1>4. CheapRank(hs, q) = out
  BY <1>1, <1>2
<1> HIDE DEF out, T
<1>5. out \in Seq(T)
  BY <1>3, SeqDef
<1>6. Len(out) = n
  BY <1>3, <1>5
<1> QED BY <1>1, <1>4, <1>5, <1>6 DEF NoMoreThan

\* The rows of R whose text the expression matches.
WithMatch(hir, R) == {r \in R : Matches(hir, Encode(r.text_utf8))}

\* What an expression makes of rows.
RegexHit(hir, r) == MakeHit(r, MatchAt(hir, Encode(r.text_utf8)))

LEMMA VerifyRegexListed ==
    ASSUME NEW hir, NEW R, NEW rows \in Seq(R)
    PROVE  VerifyRegex(hir, rows) \in Seq({RegexHit(hir, r) : r \in WithMatch(hir, R)})
<1> DEFINE P     == {i \in DOMAIN rows : Matches(hir, Encode(rows[i].text_utf8))}
           found == Sift(rows, P)
           W     == WithMatch(hir, R)
           S     == {RegexHit(hir, r) : r \in W}
<1>1. found \in Seq(R) /\ ToSet(found) \subseteq W
  <2>1. P \in SUBSET DOMAIN rows
    OBVIOUS
  <2>2. Picked(rows, P) \subseteq W
    BY DEF Picked, WithMatch
  <2> HIDE DEF P, W
  <2> QED BY <2>1, <2>2, SiftTyped
<1>2. VerifyRegex(hir, rows) = [k \in DOMAIN found |-> RegexHit(hir, found[k])]
  BY DEF VerifyRegex, RegexHit
<1> HIDE DEF found, W
<1>3. PICK n \in Nat : DOMAIN found = 1 .. n /\ \A k \in 1 .. n : found[k] \in W
  <2>1. PICK n : n = Len(found)
    OBVIOUS
  <2>2. n \in Nat /\ DOMAIN found = 1 .. n /\ \A k \in 1 .. n : found[k] \in W
    BY <1>1, <2>1 DEF ToSet
  <2> QED BY <2>2
<1> DEFINE out == [k \in 1 .. n |-> RegexHit(hir, found[k])]
<1>4. out \in [1 .. n -> S]
  BY <1>3
<1>5. VerifyRegex(hir, rows) = out
  BY <1>2, <1>3
<1> HIDE DEF out, S
<1>6. out \in Seq(S)
  BY <1>4, SeqDef
<1> QED BY <1>5, <1>6 DEF S, W

LEMMA RegexIsLimited ==
    ASSUME IndexInv, NEW pattern, NEW limit \in Nat
    PROVE  NoMoreThan(RegexHits(pattern, limit), limit)
<1> DEFINE tree   == Decompose[pattern.hir].query
           S      == {RegexHit(pattern.hir, r) : r \in WithMatch(pattern.hir, Rows)}
           inBase == VerifyRegex(pattern.hir, BaseCandidates(tree))
           inOver == VerifyRegex(pattern.hir, RegexOverflow(tree))
           first  == Walk(<<>>, inBase, limit)
           all    == Walk(first, inOver, limit)
<1>1. RegexHits(pattern, limit) = IF pattern.source = <<>> \/ limit = 0 THEN <<>> ELSE CheapRank(all, pattern.source)
  BY DEF RegexHits
<1>2. BaseCandidates(tree) \in Seq(Rows)
  BY BaseTyped
<1>3. RegexOverflow(tree) \in Seq(Rows)
  BY DEF RegexOverflow, IndexInv
<1> HIDE DEF tree
<1>4. inBase \in Seq(S) /\ inOver \in Seq(S)
  BY <1>2, <1>3, VerifyRegexListed
<1>5. <<>> \in Seq(S) /\ Len(<<>>) <= limit
  OBVIOUS
<1> HIDE DEF S, inBase, inOver
<1>6. first \in Seq(S) /\ Len(first) <= limit
  BY <1>4, <1>5, WalkIsLimited
<1> HIDE DEF first
<1>7. all \in Seq(S) /\ Len(all) <= limit
  BY <1>4, <1>6, WalkIsLimited
<1> HIDE DEF all
<1>8. NoMoreThan(CheapRank(all, pattern.source), limit)
  BY <1>7, RankIsLimited
<1>9. NoMoreThan(<<>>, limit)
  BY <1>5 DEF NoMoreThan
<1> QED BY <1>1, <1>8, <1>9

\* What holds of the search in hand.
AnswerInv ==
    /\ request.mode \in {"none", "literal", "regex", "fuzzy"}
    /\ Answered("none") => hits = <<>>
    /\ ~Answered("none") => Len(hits) <= request.limit

\* Tombstones are positions in the base, the bigram index has columns for
\* nothing but what occurs there, and no search returns more than it was asked
\* for, whatever it puts together (search() in query/mod.rs).
THEOREM TypeCorrect == Spec => []TypeOK
<1>1. Init => AnswerInv
  BY DEF Init, AnswerInv, Answered, NoRequest
<1>2. IndexInv /\ AnswerInv /\ [Next]_vars => AnswerInv'
  <2> SUFFICES ASSUME IndexInv, AnswerInv, [Next]_vars PROVE AnswerInv'
    OBVIOUS
  <2>0. Limits \subseteq Nat /\ \A d \in Docs : text[d] \in TextOf(d)
    BY SearchAssumption DEF IndexInv
  <2>1. CASE UNCHANGED vars
    BY <2>1 DEF vars, indexVars, AnswerInv, Answered
  <2>2. ASSUME NEW q \in Queries, NEW limit \in Limits, LiteralSearch(q, limit) PROVE AnswerInv'
    <3>1. request' = [mode |-> "literal", query |-> q, limit |-> limit] /\ hits' = LiteralHits(q, limit)
      BY <2>2 DEF LiteralSearch, Answer
    <3>2. PICK hs : hs = LiteralHits(q, limit)
      OBVIOUS
    <3>3. q \in Seq(Char) /\ limit \in Nat
      BY SearchAssumption
    <3>4. Lists(hs, LiteralRows(q), limit)
      BY <3>2, <3>3, LiteralLists
    <3>5. PICK n \in Nat : n = Len(hs) /\ n <= limit
      <4>1. PICK R : R = LiteralRows(q) /\ R \in SUBSET LiveRows
        BY DEF LiteralRows
      <4>2. Len(hs) \in Nat /\ Len(hs) <= limit
        BY <2>0, <3>3, <3>4, <4>1, ListedRows
      <4> QED BY <4>2
    <3> QED BY <3>1, <3>2, <3>5 DEF AnswerInv, Answered
  <2>3. ASSUME NEW pattern \in Patterns, NEW limit \in Limits, RegexSearch(pattern, limit) PROVE AnswerInv'
    <3>1. request' = [mode |-> "regex", query |-> pattern, limit |-> limit] /\ hits' = RegexHits(pattern, limit)
      BY <2>3 DEF RegexSearch, Answer
    <3>2. Len(RegexHits(pattern, limit)) <= limit
      BY <2>0, RegexIsLimited DEF NoMoreThan
    <3> QED BY <3>1, <3>2 DEF AnswerInv, Answered
  <2>4. ASSUME NEW q \in Queries, NEW limit \in Limits, FuzzySearch(q, limit) PROVE AnswerInv'
    <3>1. request' = [mode |-> "fuzzy", query |-> q, limit |-> limit]
      BY <2>4, FuzzyReturns
    <3>2. PICK hs, named : hs = hits' /\ FuzzyShape(hs, LiveRows, named, limit)
      BY <2>4, FuzzyReturns
    <3>3. Len(hs) <= limit
      BY <2>0, <3>2, ShapeIsApart
    <3> QED BY <3>1, <3>2, <3>3 DEF AnswerInv, Answered
  <2>5. CASE UNCHANGED <<request, hits>>
    BY <2>5 DEF AnswerInv, Answered
  <2>6. ASSUME NEW d, NEW rows, Replace(d, rows) PROVE AnswerInv'
    BY <2>5, <2>6 DEF Replace
  <2>7. CASE Return
    BY <2>7 DEF Return, AnswerInv, Answered, NoRequest
  <2> QED BY <2>1, <2>2, <2>3, <2>4, <2>5, <2>6, <2>7 DEF Next, UpsertDoc, RemoveDoc, Rebuild
<1>3. IndexInv /\ AnswerInv => TypeOK
  BY DEF IndexInv, AnswerInv, TypeOK
<1> QED BY <1>1, <1>2, <1>3, IndexStands, PTL DEF Spec

-----------------------------------------------------------------------------
(* Regex search.                                                           *)

\* The bigrams of a text do not depend on its case.
LEMMA WindowsLowercase ==
    ASSUME NEW s \in Seq(Byte), NEW op, NEW d \in Nat
    PROVE  Windows(op, Lowercase(s), d) = Windows(op, s, d)
<1> DEFINE low == Lowercase(s)
<1>1. PICK l \in Int : l = Len(s) - d
  <2>1. Len(s) \in Nat
    OBVIOUS
  <2>2. Len(s) - d \in Int
    BY <2>1
  <2> QED BY <2>2
<1>2. low = [i \in DOMAIN s |-> Lower[s[i]]] /\ DOMAIN s = 1 .. Len(s) /\ Len(s) \in Nat
  BY DEF Lowercase
<1>3. Len(low) = Len(s) /\ \A i \in 1 .. Len(s) : low[i] = Lower[s[i]]
  BY <1>2
<1> HIDE DEF low
<1>4. ASSUME NEW q, NEW i \in 1 .. l PROVE PairAt(q, op, low, d, i) <=> PairAt(q, op, s, d, i)
  <2>1. i \in 1 .. Len(s) /\ i + d \in 1 .. Len(s)
    BY <1>1
  <2>2. PICK a \in Byte, b \in Byte : a = s[i] /\ b = s[i + d]
    BY <2>1
  <2>3. low[i] = Lower[a] /\ low[i + d] = Lower[b]
    BY <1>3, <2>1, <2>2
  <2>4. (Lower[a] \in Printable <=> a \in Printable) /\ (Lower[b] \in Printable <=> b \in Printable)
    BY TreesAssumption
  <2>5. Lower[Lower[a]] = Lower[a] /\ Lower[Lower[b]] = Lower[b]
    BY LowerAssumption
  <2> QED BY <2>2, <2>3, <2>4, <2>5 DEF PairAt
<1>5. \A q : q \in Windows(op, low, d) <=> q \in Windows(op, s, d)
  <2>1. \A q : q \in Windows(op, low, d) <=> \E i \in 1 .. l : PairAt(q, op, low, d, i)
    BY <1>1, <1>3, WindowsMember
  <2>2. \A q : q \in Windows(op, s, d) <=> \E i \in 1 .. l : PairAt(q, op, s, d, i)
    BY <1>1, WindowsMember
  <2> QED BY <1>4, <2>1, <2>2
<1> QED BY <1>5 DEF low

\* The engine says where it finds something.
LEMMA MatchAtTyped ==
    ASSUME NEW s \in Seq(Byte), NEW hir \in Hirs, Matches(hir, s)
    PROVE  /\ MatchAt(hir, s).offset \in Nat /\ MatchAt(hir, s).len \in Nat
           /\ MatchAt(hir, s).offset + MatchAt(hir, s).len <= Len(s)
           /\ MatchAt(hir, s) = Place(MatchAt(hir, s).offset, MatchAt(hir, s).len)
<1> DEFINE S == {i \in 0 .. Len(s) : Ends(hir, s, i) # {}}
<1>1. PICK ends : AllEnds(ends, s) /\ \A h, i : Ends(h, s, i) = ends[h][i]
  BY EndsUnfolds
<1>2. PICK l \in Nat : l = Len(s)
  OBVIOUS
<1>3. S \in SUBSET Nat /\ S # {} /\ \A i \in S : i \in 0 .. l /\ ends[hir][i] # {}
  BY <1>1, <1>2 DEF Matches
<1>4. MatchAt(hir, s) = Place(Min(S), Max(Ends(hir, s, Min(S))) - Min(S))
  BY DEF MatchAt
<1> HIDE DEF S
<1>5. Min(S) \in S
  BY <1>3, MinOf
<1>6. PICK i \in 0 .. l : i = Min(S) /\ ends[hir][i] # {}
  BY <1>3, <1>5
<1>7. PICK E : E = ends[hir][i]
  OBVIOUS
<1>8. \A j \in E : j \in 0 .. l /\ i <= j
  <2> SUFFICES ASSUME NEW j \in E PROVE j \in 0 .. l /\ i <= j
    OBVIOUS
  <2>1. i \in 0 .. Len(s) /\ j \in ends[hir][i]
    BY <1>2, <1>7
  <2>2. MatchOf(ends, hir, s, i, j)
    BY <1>1, <2>1, MatchMadeOf
  <2>3. Step01(i, j, MinLen[hir], MaxLen[hir])
    BY <1>1, <2>1, MatchLengths
  <2> QED BY <1>2, <2>2, <2>3 DEF MatchOf, Step01
<1>9. E \in SUBSET Int /\ E # {} /\ \A k \in E : k <= l
  BY <1>6, <1>7, <1>8
<1>10. Max(E) \in E
  BY <1>9, MaxOf
<1>11. PICK j \in 0 .. l : j = Max(E) /\ i <= j
  BY <1>8, <1>10
<1>12. MatchAt(hir, s) = Place(i, j - i)
  BY <1>1, <1>4, <1>6, <1>7, <1>11, Zenon
<1>13. i \in Nat /\ j - i \in Nat /\ i + (j - i) <= Len(s)
  BY <1>2, <1>11
<1> QED BY <1>12, <1>13 DEF Place

LEMMA VerifyRegexCompletes ==
    ASSUME NEW hir \in Hirs, NEW rows \in Seq(Rows), Distinct(rows)
    PROVE  Complete(VerifyRegex(hir, rows), WithMatch(hir, ToSet(rows)))
<1> DEFINE P     == {i \in DOMAIN rows : Matches(hir, Encode(rows[i].text_utf8))}
           found == Sift(rows, P)
           S     == WithMatch(hir, ToSet(rows))
           At(r) == MatchAt(hir, Encode(r.text_utf8))
           hs    == [k \in DOMAIN found |-> MakeHit(found[k], At(found[k]))]
<1>1. VerifyRegex(hir, rows) = hs
  BY DEF VerifyRegex
<1>2. found \in Seq(Rows) /\ ToSet(found) = Picked(rows, P) /\ Distinct(found)
  <2>1. P \in SUBSET DOMAIN rows
    OBVIOUS
  <2> HIDE DEF P
  <2> QED BY <2>1, SiftTyped
<1>3. Picked(rows, P) = S
  BY DEF Picked, WithMatch, ToSet
<1> HIDE DEF P, found, S, At
<1>4. PICK n \in Nat : n = Len(found) /\ DOMAIN found = 1 .. n
  BY <1>2
<1>5. \A k \in 1 .. n : found[k] \in S /\ found[k] \in Rows
  BY <1>2, <1>3, <1>4 DEF ToSet
<1>6. found \in Seq(S)
  <2>1. found \in [1 .. n -> S]
    BY <1>2, <1>4, <1>5
  <2> QED BY <2>1, SeqDef
<1>7. ASSUME NEW k \in 1 .. n PROVE HitOf(MakeHit(found[k], At(found[k])), found[k])
  <2>1. PICK r \in Rows : r = found[k] /\ Matches(hir, Encode(r.text_utf8))
    BY <1>5 DEF S, WithMatch
  <2>2. Encode(r.text_utf8) \in Seq(Byte)
    BY RowsTyped, EncodeTyped DEF IsRow
  <2>3. At(r).offset \in Nat /\ At(r).len \in Nat
    BY <2>1, <2>2, MatchAtTyped DEF At
  <2>4. HitOf(MakeHit(r, At(r)), r)
    BY <2>3, HitMade
  <2> QED BY <2>1, <2>4
<1>8. hs \in Seq(Hit) /\ Len(hs) = n /\ \A k \in 1 .. n : HitOf(hs[k], found[k])
  <2>1. \A k \in 1 .. n : hs[k] = MakeHit(found[k], At(found[k]))
    BY <1>4
  <2>2. DOMAIN hs = 1 .. n /\ hs = [k \in 1 .. n |-> hs[k]]
    BY <1>4
  <2> HIDE DEF hs
  <2>3. \A k \in 1 .. n : HitOf(hs[k], found[k])
    BY <1>7, <2>1
  <2>4. \A k \in 1 .. n : hs[k] \in Hit
    BY <2>3 DEF HitOf
  <2>5. hs \in [1 .. n -> Hit]
    BY <2>2, <2>4
  <2>6. hs \in Seq(Hit)
    BY <2>5, SeqDef
  <2> QED BY <2>2, <2>3, <2>6
<1> HIDE DEF hs
<1>9. Shows(hs, found)
  BY <1>4, <1>8 DEF Shows
<1>10. Complete(hs, S)
  BY <1>2, <1>3, <1>6, <1>9 DEF Complete
<1> QED BY <1>1, <1>10 DEF S

\* The rows that a regex search returns, if it may return all.
RegexRows(hir) ==
    WithMatch(hir, ToSet(BaseCandidates(Decompose[hir].query))) \cup WithMatch(hir, ToSet(overflow))

LEMMA RegexLists ==
    ASSUME IndexInv, NEW p \in Patterns, NEW limit \in Nat
    PROVE  /\ Lists(RegexHits(p, limit), IF p.source = <<>> THEN {} ELSE RegexRows(p.hir), limit)
           /\ RegexRows(p.hir) \subseteq WithMatch(p.hir, LiveRows)
<1> DEFINE tree   == Decompose[p.hir].query
           rows   == BaseCandidates(tree)
           inBase == VerifyRegex(p.hir, rows)
           inOver == VerifyRegex(p.hir, overflow)
           all    == Walk(Walk(<<>>, inBase, limit), inOver, limit)
           R      == WithMatch(p.hir, ToSet(rows))
           S      == WithMatch(p.hir, ToSet(overflow))
<1>1. RegexHits(p, limit) = IF p.source = <<>> \/ limit = 0 THEN <<>> ELSE CheapRank(all, p.source)
  BY DEF RegexHits, RegexOverflow
<1>2. LiveRows = Picked(base, LiveBase) \cup ToSet(overflow)
  BY DEF IndexInv
<1>3. RegexRows(p.hir) = R \cup S
  BY DEF RegexRows
<1>4. p.source \in Seq(Byte) /\ p.hir \in Hirs
  BY SearchAssumption
<1>5. rows \in Seq(Rows) /\ Distinct(rows) /\ ToSet(rows) \subseteq Picked(base, LiveBase)
  <2> HIDE DEF tree
  <2>1. /\ rows \in Seq(Rows) /\ Distinct(rows) /\ ToSet(rows) = Picked(base, Passed(tree)) /\ Passed(tree) \subseteq LiveBase
    BY BaseTyped
  <2> QED BY <2>1 DEF Picked
<1>6. overflow \in Seq(Rows) /\ Distinct(overflow)
  BY DEF IndexInv
<1>7. R \cap S = {} /\ R \cup S \subseteq WithMatch(p.hir, LiveRows)
  <2>1. Picked(base, LiveBase) \cap ToSet(overflow) = {}
    BY SidesApart
  <2> HIDE DEF rows
  <2> QED BY <1>2, <1>5, <2>1 DEF WithMatch
<1> HIDE DEF rows
<1>8. Complete(inBase, R) /\ Complete(inOver, S)
  BY <1>4, <1>5, <1>6, VerifyRegexCompletes
<1> HIDE DEF inBase, inOver, R, S
<1>9. Lists(all, R \cup S, limit)
  BY <1>7, <1>8, BothSidesList
<1> HIDE DEF all
<1>10. Lists(CheapRank(all, p.source), R \cup S, limit)
  BY <1>4, <1>9, RankLists
<1>11. CASE p.source = <<>>
  <2>1. RegexHits(p, limit) = <<>>
    BY <1>1, <1>11
  <2> QED BY <1>3, <1>7, <1>11, <2>1, ListsNothing
<1>12. CASE p.source # <<>> /\ limit = 0
  <2>1. RegexHits(p, limit) = <<>>
    BY <1>1, <1>12
  <2> DEFINE X == RegexRows(p.hir)
             none == <<>>
  <2>2. none \in Seq(X) /\ Distinct(none) /\ Shows(none, none) /\ Len(none) <= limit /\ ~(Len(none) < limit)
    BY <1>12 DEF Distinct, Shows
  <2> HIDE DEF X, none
  <2>3. Lists(none, X, limit)
    BY <2>2 DEF Lists
  <2> QED BY <1>3, <1>7, <1>12, <2>1, <2>3 DEF none, X
<1>13. CASE p.source # <<>> /\ limit # 0
  BY <1>1, <1>3, <1>7, <1>10, <1>13
<1> QED BY <1>11, <1>12, <1>13

\* The prefilter leaves out no row that matches, as long as nothing was folded
\* away and no edge is hidden.
LEMMA PlainRowsFound ==
    ASSUME IndexInv, NEW hir \in Hirs, ~JoinsAHiddenEdge(hir), \A r \in WithMatch(hir, LiveRows) : IsPlain(r)
    PROVE  RegexRows(hir) = WithMatch(hir, LiveRows)
<1> DEFINE tree == Decompose[hir].query
           L    == Picked(base, LiveBase)
<1>1. ToSet(BaseCandidates(tree)) = Picked(base, Passed(tree)) /\ Passed(tree) \subseteq LiveBase
  <2> HIDE DEF tree
  <2> QED BY BaseTyped
<1>2. LiveRows = L \cup ToSet(overflow)
  BY DEF IndexInv
<1>3. ASSUME NEW i \in LiveBase, Matches(hir, Encode(base[i].text_utf8)) PROVE i \in Passed(tree)
  <2>1. PICK r \in Rows : r = base[i]
    BY BaseRow
  <2>2. r \in WithMatch(hir, LiveRows)
    BY <1>2, <1>3, <2>1 DEF WithMatch, Picked
  <2>3. PICK s \in Seq(Byte) : s = Encode(r.text_utf8)
    BY RowsTyped, EncodeTyped DEF IsRow
  <2>4. r.text_norm_ascii = Lowercase(s)
    BY <2>2, <2>3 DEF IsPlain
  <2>5. TextBigrams(Lowercase(s)) = TextBigrams(s)
    BY WindowsLowercase DEF TextBigrams
  <2>6. Matches(hir, s)
    BY <1>3, <2>1, <2>3
  <2>7. Includes(tree, BigramsOf[tree] \ tracked, s)
    BY <2>6, RegexIncludes
  <2> HIDE DEF tree
  <2>8. Includes(tree, BigramsOf[tree] \ tracked, base[i].text_norm_ascii)
    BY <2>1, <2>4, <2>5, <2>7 DEF Includes
  <2> QED BY <2>8 DEF Passed, LiveBase
<1> HIDE DEF tree
<1>4. WithMatch(hir, Picked(base, Passed(tree))) = WithMatch(hir, L)
  BY <1>1, <1>3 DEF WithMatch, Picked
<1>5. RegexRows(hir) = WithMatch(hir, L) \cup WithMatch(hir, ToSet(overflow))
  BY <1>1, <1>4 DEF RegexRows, tree
<1> HIDE DEF L
<1> QED BY <1>2, <1>5 DEF WithMatch

\* A regex search returns rows that the expression matches, and all of them, in
\* overlay and base alike, as long as nothing was folded away that it may match
\* and it hides no edge.
THEOREM RegexIsExact == Spec => []RegexSearchIsExact
<1>1. Init => RegexSearchIsExact
  BY DEF Init, RegexSearchIsExact, Answered, NoRequest
<1>2. IndexInv /\ RegexSearchIsExact /\ [Next]_vars => RegexSearchIsExact'
  <2> SUFFICES ASSUME IndexInv, RegexSearchIsExact, [Next]_vars PROVE RegexSearchIsExact'
    OBVIOUS
  <2>1. CASE UNCHANGED vars
    BY <2>1 DEF vars, indexVars, RegexSearchIsExact, Answered, Exactly, RowsOfHit, LiveRows
  <2>2. CASE request' = NoRequest
    BY <2>2 DEF RegexSearchIsExact, Answered, NoRequest
  <2>3. ASSUME NEW q \in Queries, NEW limit \in Limits, LiteralSearch(q, limit) PROVE RegexSearchIsExact'
    BY <2>3 DEF LiteralSearch, Answer, RegexSearchIsExact, Answered
  <2>4. ASSUME NEW p \in Patterns, NEW limit \in Limits, RegexSearch(p, limit) PROVE RegexSearchIsExact'
    <3>1. request' = [mode |-> "regex", query |-> p, limit |-> limit] /\ hits' = RegexHits(p, limit) /\ UNCHANGED indexVars
      BY <2>4 DEF RegexSearch, Answer
    <3>2. p.source \in Seq(Byte) /\ p.hir \in Hirs /\ limit \in Nat
      BY SearchAssumption
    <3>3. PICK R : R = IF p.source = <<>> THEN {} ELSE RegexRows(p.hir)
      OBVIOUS
    <3>4. PICK M : M = WithMatch(p.hir, LiveRows)
      OBVIOUS
    <3>5. R \subseteq M /\ R \in SUBSET LiveRows /\ Lists(hits', R, limit)
      <4>1. Lists(RegexHits(p, limit), R, limit) /\ RegexRows(p.hir) \subseteq M
        BY <3>2, <3>3, <3>4, RegexLists
      <4>2. M \subseteq LiveRows
        BY <3>4 DEF WithMatch
      <4> QED BY <3>1, <3>3, <4>1, <4>2
    <3>6. Exactly(R)'
      BY <3>1, <3>2, <3>5, ReturnsExactly
    <3>7. {r \in LiveRows' : Matches(request'.query.hir, Encode(r.text_utf8))} = M
      <4>1. LiveRows' = LiveRows
        BY <3>1 DEF indexVars, LiveRows
      <4> QED BY <3>1, <3>4, <4>1 DEF WithMatch
    <3>8. ASSUME p.source # <<>>, \A r \in M : IsPlain(r), ~JoinsAHiddenEdge(p.hir) PROVE R = M
      BY <3>2, <3>3, <3>4, <3>8, PlainRowsFound
    <3>9. \A k \in DOMAIN hits' : RowsOfHit(hits[k])' # {} /\ RowsOfHit(hits[k])' \subseteq M
      BY <3>5, <3>6 DEF Exactly
    <3>10. p.source # <<>> /\ (\A r \in M : IsPlain(r)) /\ ~JoinsAHiddenEdge(p.hir) => Exactly(M)'
      BY <3>6, <3>8
    <3> QED BY <3>1, <3>7, <3>9, <3>10 DEF RegexSearchIsExact
  <2>5. ASSUME NEW q \in Queries, NEW limit \in Limits, FuzzySearch(q, limit) PROVE RegexSearchIsExact'
    BY <2>5 DEF FuzzySearch, Answer, RegexSearchIsExact, Answered
  <2> QED BY <2>1, <2>2, <2>3, <2>4, <2>5, OtherSteps
<1> QED BY <1>1, <1>2, IndexStands, PTL DEF Spec

-----------------------------------------------------------------------------
(* Snippets. Places in a text are positions of characters or offsets in    *)
(* its encoding.                                                           *)

\* The offset behind the first n characters.
ByteAt(t, n) == ByteLen(SubSeq(t, 1, n))

\* The characters of a text from the n-th on, up to another one.
Slice(t, m, n) == SubSeq(t, m + 1, n)

LEMMA SliceFacts ==
    ASSUME NEW S, NEW t \in Seq(S), NEW m \in Nat, NEW n \in Nat, m <= n, n <= Len(t)
    PROVE  /\ Slice(t, m, n) \in Seq(S) /\ Len(Slice(t, m, n)) = n - m
           /\ \A i \in 1 .. n - m : Slice(t, m, n)[i] = t[m + i]
<1>1. /\ SubSeq(t, m + 1, n) \in Seq(S) /\ Len(SubSeq(t, m + 1, n)) = IF m <= n THEN n - m ELSE 0
      /\ \A i \in 1 .. n - m : SubSeq(t, m + 1, n)[i] = t[m + i]
  BY SubSeqFacts
<1> QED BY <1>1, Zenon DEF Slice

\* The same, as one fact.
SliceFine(t, S, m, n) ==
    /\ Slice(t, m, n) \in Seq(S) /\ Len(Slice(t, m, n)) = n - m
    /\ \A i \in 1 .. n - m : Slice(t, m, n)[i] = t[m + i]

LEMMA SliceIsFine ==
    ASSUME NEW S, NEW t \in Seq(S), NEW m \in Nat, NEW n \in Nat, m <= n, n <= Len(t)
    PROVE  SliceFine(t, S, m, n)
BY SliceFacts DEF SliceFine

\* The encoding of a part of a text is a part of its encoding.
LEMMA EncodedConcat ==
    ASSUME NEW x \in Seq(Char), NEW y \in Seq(Char)
    PROVE  Encode(x) \in Seq(Byte) /\ Encode(y) \in Seq(Byte) /\ x \o y \in Seq(Char) /\ Encode(x \o y) = Encode(x) \o Encode(y)
<1>1. Utf8 \in [Char -> Seq(Byte)]
  BY TextAssumption
<1>2. Spelled(x \o y, Utf8) = Spelled(x, Utf8) \o Spelled(y, Utf8)
  BY <1>1, SpelledConcat
<1> QED BY <1>2, EncodeTyped DEF Encode

LEMMA EncodedPart ==
    ASSUME NEW t \in Seq(Char), NEW m \in Nat, NEW n \in Nat, m <= n, n <= Len(t)
    PROVE  /\ Slice(t, m, n) \in Seq(Char) /\ ByteLen(Slice(t, m, n)) \in Nat /\ ByteAt(t, m) \in Nat
           /\ ByteAt(t, n) = ByteAt(t, m) + ByteLen(Slice(t, m, n)) /\ ByteAt(t, n) <= ByteLen(t)
           /\ PartAt(ByteAt(t, m), Encode(Slice(t, m, n)), Encode(t))
<1>b. ASSUME NEW f \in Nat, NEW i \in Nat, NEW j \in Nat, NEW e \in Nat, f <= i, i <= j, j <= e, e <= Len(t)
      PROVE  SubSeq(t, f + 1, e) = (SubSeq(t, f + 1, i) \o SubSeq(t, i + 1, j)) \o SubSeq(t, j + 1, e)
  BY <1>b, ThreeParts
<1>1. PICK l \in Nat, o \in Nat : l = Len(t) /\ o = 0
  OBVIOUS
<1>a. o <= m /\ m <= Len(t) /\ n <= l /\ l <= Len(t)
  BY <1>1
<1>2. Slice(t, o, m) \in Seq(Char) /\ Slice(t, m, n) \in Seq(Char) /\ Slice(t, n, l) \in Seq(Char)
  BY <1>a, SliceFacts
<1>3. PICK x \in Seq(Char), y \in Seq(Char), z \in Seq(Char) : x = Slice(t, o, m) /\ y = Slice(t, m, n) /\ z = Slice(t, n, l)
  BY <1>2
<1>4. t = (x \o y) \o z /\ SubSeq(t, 1, n) = x \o y /\ SubSeq(t, 1, m) = x
  <2>1. SubSeq(t, o + 1, l) = (SubSeq(t, o + 1, m) \o SubSeq(t, m + 1, n)) \o SubSeq(t, n + 1, l)
    BY <1>a, <1>b
  <2>2. SubSeq(t, o + 1, n) = (SubSeq(t, o + 1, m) \o SubSeq(t, m + 1, n)) \o SubSeq(t, n + 1, n)
    BY <1>a, <1>b
  <2>3. SubSeq(t, n + 1, n) = <<>>
    OBVIOUS
  <2>4. (x \o y) \o <<>> = x \o y
    OBVIOUS
  <2>5. o + 1 = 1 /\ SubSeq(t, 1, l) = t
    BY <1>1
  <2>6. t = (x \o y) \o z
    BY <1>3, <2>1, <2>5, Zenon DEF Slice
  <2>7. SubSeq(t, 1, n) = x \o y
    BY <1>3, <2>2, <2>3, <2>4, <2>5, Zenon DEF Slice
  <2>8. SubSeq(t, 1, m) = x
    BY <1>3, <2>5, Zenon DEF Slice
  <2> QED BY <2>6, <2>7, <2>8
<1>5. PICK ex \in Seq(Byte), ey \in Seq(Byte), ez \in Seq(Byte) : ex = Encode(x) /\ ey = Encode(y) /\ ez = Encode(z)
  BY EncodeTyped
<1>6. Encode(x \o y) = ex \o ey /\ Encode(t) = (ex \o ey) \o ez
  <2>1. PICK w \in Seq(Char) : w = x \o y
    BY EncodedConcat
  <2>2. Encode(w) = ex \o ey
    BY <1>5, <2>1, EncodedConcat
  <2>3. Encode(w \o z) = Encode(w) \o ez
    BY <1>5, EncodedConcat
  <2> QED BY <1>4, <2>1, <2>2, <2>3
<1>7. PICK a \in Nat, b \in Nat, c \in Nat : a = Len(ex) /\ b = Len(ey) /\ c = Len(ez)
  OBVIOUS
<1>8. ByteAt(t, m) = a /\ ByteLen(y) = b /\ ByteAt(t, n) = Len(ex \o ey) /\ ByteLen(t) = Len((ex \o ey) \o ez)
  BY <1>4, <1>5, <1>6, <1>7, Zenon DEF ByteAt, ByteLen
<1>9. Len(ex \o ey) = a + b /\ Len((ex \o ey) \o ez) = a + b + c /\ \A i \in 1 .. b : ((ex \o ey) \o ez)[a + i] = ey[i]
  BY <1>7
<1>10. PartAt(a, ey, Encode(t))
  BY <1>6, <1>7, <1>9 DEF PartAt
<1>11. ByteAt(t, n) = a + b /\ ByteAt(t, n) <= ByteLen(t)
  BY <1>7, <1>8, <1>9
<1> QED BY <1>3, <1>5, <1>7, <1>8, <1>10, <1>11

LEMMA EncodedChar ==
    ASSUME NEW c \in Char
    PROVE  /\ Encode(<<c>>) = Utf8[c] /\ Utf8[c] \in Seq(Byte) /\ Len(Utf8[c]) \in Nat /\ Len(Utf8[c]) > 0
           /\ 2 * Len(Utf8[c]) <= Context + 2 /\ Context \in Nat
<1>1. Utf8 \in [Char -> Seq(Byte) \ {<<>>}]
  BY TextAssumption
<1>2. Utf8 \in [Char -> Seq(Byte)] /\ <<c>> \in Seq(Char) /\ Utf8[c] \in Seq(Byte) /\ Utf8[c] # <<>>
  BY <1>1
<1>3. PICK out : Spells(out, <<c>>, Utf8, Byte) /\ Spelled(<<c>>, Utf8) = out[Len(<<c>>)]
  BY <1>2, SpelledUnfolds
<1>4. out[1] = out[0] \o Utf8[c] /\ out[0] = <<>> /\ Spelled(<<c>>, Utf8) = out[1]
  <2>1. Len(<<c>>) = 1 /\ <<c>>[1] = c /\ 1 \in 1 .. Len(<<c>>) /\ 1 - 1 = 0
    OBVIOUS
  <2>2. out[0] = <<>> /\ \A n \in 1 .. Len(<<c>>) : out[n] = out[n - 1] \o Utf8[<<c>>[n]]
    BY <1>3 DEF Spells
  <2>3. out[1] = out[1 - 1] \o Utf8[<<c>>[1]]
    BY <2>1, <2>2
  <2> QED BY <1>3, <2>1, <2>2, <2>3
<1>5. <<>> \o Utf8[c] = Utf8[c]
  BY <1>2
<1>6. Encode(<<c>>) = Utf8[c]
  BY <1>4, <1>5 DEF Encode
<1> QED BY <1>2, <1>6, SearchAssumption

\* What is known of offsets: they grow by a character's length.
LEMMA OffsetsGrow ==
    ASSUME NEW t \in Seq(Char)
    PROVE  /\ ByteAt(t, 0) = 0 /\ ByteAt(t, Len(t)) = ByteLen(t) /\ ByteLen(t) \in Nat
           /\ \A m, n \in 0 .. Len(t) : ByteAt(t, n) \in Nat /\ (m <= n => ByteAt(t, m) <= ByteAt(t, n))
           /\ \A n \in 0 .. Len(t) : n < Len(t) =>
                 /\ t[n + 1] \in Char /\ ByteAt(t, n + 1) = ByteAt(t, n) + Len(Utf8[t[n + 1]])
                 /\ PartAt(ByteAt(t, n), Utf8[t[n + 1]], Encode(t))
<1>1. PICK l \in Nat : l = Len(t)
  OBVIOUS
<1>2. SubSeq(t, 1, 0) = <<>> /\ SubSeq(t, 1, Len(t)) = t
  OBVIOUS
<1>3. ByteLen(t) \in Nat
  BY EncodeTyped
<1>4. ByteLen(<<>>) = 0
  <2>1. <<>> \in Seq(Char) /\ Utf8 \in [Char -> Seq(Byte)]
    BY TextAssumption
  <2>2. PICK out : Spells(out, <<>>, Utf8, Byte) /\ Spelled(<<>>, Utf8) = out[Len(<<>>)]
    BY <2>1, SpelledUnfolds
  <2>3. Spelled(<<>>, Utf8) = <<>>
    BY <2>2 DEF Spells
  <2> QED BY <2>3 DEF ByteLen, Encode
<1>5. ByteAt(t, 0) = 0 /\ ByteAt(t, Len(t)) = ByteLen(t)
  BY <1>2, <1>4, Zenon DEF ByteAt
<1>6. ASSUME NEW m \in 0 .. Len(t), NEW n \in 0 .. Len(t)
      PROVE  ByteAt(t, n) \in Nat /\ (m <= n => ByteAt(t, m) <= ByteAt(t, n))
  <2>1. ByteAt(t, n) \in Nat
    <3>1. n \in Nat /\ n <= n /\ n <= Len(t)
      BY <1>1
    <3> QED BY <3>1, EncodedPart
  <2>2. ASSUME m <= n PROVE ByteAt(t, m) <= ByteAt(t, n)
    <3>1. m \in Nat /\ n \in Nat /\ n <= Len(t)
      BY <1>1
    <3>2. ByteLen(Slice(t, m, n)) \in Nat /\ ByteAt(t, m) \in Nat /\ ByteAt(t, n) = ByteAt(t, m) + ByteLen(Slice(t, m, n))
      BY <2>2, <3>1, EncodedPart
    <3> QED BY <3>2
  <2> QED BY <2>1, <2>2
<1>7. ASSUME NEW n \in 0 .. Len(t), n < Len(t)
      PROVE  /\ t[n + 1] \in Char /\ ByteAt(t, n + 1) = ByteAt(t, n) + Len(Utf8[t[n + 1]])
             /\ PartAt(ByteAt(t, n), Utf8[t[n + 1]], Encode(t))
  <2>1. PICK k \in Nat : k = n + 1 /\ n \in Nat /\ n <= k /\ k <= Len(t) /\ k - n = 1
    BY <1>1, <1>7
  <2>2. PICK c \in Char : c = t[k]
    BY <2>1
  <2>3. Slice(t, n, k) = <<c>>
    <3>1. Slice(t, n, k) \in Seq(Char) /\ Len(Slice(t, n, k)) = k - n /\ \A i \in 1 .. k - n : Slice(t, n, k)[i] = t[n + i]
      <4>1. n \in Nat /\ n <= k /\ k <= Len(t)
        BY <2>1
      <4> QED BY <4>1, SliceFacts
    <3>2. 1 \in 1 .. k - n /\ k - n = 1 /\ n + 1 = k
      BY <2>1
    <3>3. Len(Slice(t, n, k)) = 1 /\ Slice(t, n, k)[1] = c
      BY <2>2, <3>1, <3>2
    <3>4. \A y \in Seq(Char) : Len(y) = 1 /\ y[1] = c => y = <<c>>
      OBVIOUS
    <3> QED BY <3>1, <3>3, <3>4
  <2>4. ByteLen(<<c>>) = Len(Utf8[c]) /\ Encode(<<c>>) = Utf8[c]
    BY EncodedChar DEF ByteLen
  <2>5. ByteAt(t, k) = ByteAt(t, n) + ByteLen(<<c>>) /\ PartAt(ByteAt(t, n), Encode(<<c>>), Encode(t))
    <3>1. n \in Nat /\ n <= k /\ k <= Len(t)
      BY <2>1
    <3>2. ByteAt(t, k) = ByteAt(t, n) + ByteLen(Slice(t, n, k)) /\ PartAt(ByteAt(t, n), Encode(Slice(t, n, k)), Encode(t))
      BY <3>1, EncodedPart
    <3> QED BY <2>3, <3>2
  <2> QED BY <2>1, <2>2, <2>4, <2>5
<1> QED BY <1>3, <1>5, <1>6, <1>7

\* How many characters of a text lie within its first max bytes.
Cut(t, max) == Len(TakeCharsWithinBytes(t, max))

LEMMA CutIs ==
    ASSUME NEW t \in Seq(Char), NEW max \in Nat
    PROVE  /\ Cut(t, max) \in 0 .. Len(t) /\ ByteLen(TakeCharsWithinBytes(t, max)) = ByteAt(t, Cut(t, max))
           /\ ByteAt(t, Cut(t, max)) <= max
           /\ \A k \in 0 .. Len(t) : ByteAt(t, k) <= max => k <= Cut(t, max)
<1> DEFINE Fit == {n \in 0 .. Len(t) : ByteAt(t, n) <= max}
<1>1. PICK l \in Nat : l = Len(t)
  OBVIOUS
<1>2. TakeCharsWithinBytes(t, max) = SubSeq(t, 1, Max(Fit))
  BY DEF TakeCharsWithinBytes, ByteAt
<1>3. ByteAt(t, 0) = 0
  BY OffsetsGrow
<1>4. Fit \in SUBSET Int /\ Fit # {} /\ \A k \in Fit : k <= l /\ k \in 0 .. l /\ ByteAt(t, k) <= max
  <2>1. 0 \in Fit
    BY <1>1, <1>3
  <2> QED BY <1>1, <2>1
<1>5. \A k \in 0 .. l : ByteAt(t, k) <= max => k \in Fit
  BY <1>1
<1> HIDE DEF Fit
<1>6. Max(Fit) \in Fit /\ \A k \in Fit : k <= Max(Fit)
  <2>1. Fit \in SUBSET Int /\ Fit # {} /\ \A k \in Fit : k <= l
    BY <1>4
  <2>2. l \in Int
    OBVIOUS
  <2> QED BY <2>1, <2>2, MaxOf
<1>7. PICK m : m = Max(Fit)
  OBVIOUS
<1>8. m \in 0 .. l /\ ByteAt(t, m) <= max /\ \A k \in Fit : k <= m
  BY <1>4, <1>6, <1>7
<1>9. TakeCharsWithinBytes(t, max) = SubSeq(t, 1, m)
  BY <1>2, <1>7
<1>10. Len(SubSeq(t, 1, m)) = m
  <2>1. m \in Nat /\ m <= Len(t)
    BY <1>1, <1>8
  <2> QED BY <2>1
<1>11. Cut(t, max) = m /\ ByteLen(TakeCharsWithinBytes(t, max)) = ByteAt(t, m)
  BY <1>9, <1>10 DEF Cut, ByteAt
<1> QED BY <1>1, <1>5, <1>8, <1>11

\* Where a cut is, seen from both sides.
LEMMA CutBetween ==
    ASSUME NEW t \in Seq(Char), NEW max \in Nat, max <= ByteLen(t), NEW m, m = Cut(t, max)
    PROVE  /\ m \in 0 .. Len(t) /\ ByteAt(t, m) \in Nat /\ ByteAt(t, m) <= max
           /\ \/ ByteAt(t, m) = max
              \/ m < Len(t) /\ max < ByteAt(t, m + 1)
           /\ 2 * (max - ByteAt(t, m)) <= Context /\ Context \in Nat
<1>1. m \in 0 .. Len(t) /\ ByteAt(t, m) <= max /\ \A k \in 0 .. Len(t) : ByteAt(t, k) <= max => k <= m
  BY CutIs
<1>2. PICK l \in Nat, e \in Nat : l = Len(t) /\ e = ByteAt(t, m) /\ m \in Nat /\ m <= l
  <2>1. Len(t) \in Nat /\ ByteAt(t, m) \in Nat
    BY <1>1, OffsetsGrow
  <2> QED BY <1>1, <2>1
<1>3. Context \in Nat
  BY SearchAssumption
<1>4. CASE m = l
  <2>1. ByteAt(t, m) = ByteLen(t) /\ ByteLen(t) \in Nat
    BY <1>2, <1>4, OffsetsGrow
  <2>2. e = max
    BY <1>1, <1>2, <2>1
  <2> QED BY <1>1, <1>2, <1>3, <2>2
<1>5. CASE m < l
  <2>1. PICK c \in Char : c = t[m + 1] /\ ByteAt(t, m + 1) = e + Len(Utf8[c])
    BY <1>1, <1>2, <1>5, OffsetsGrow
  <2>2. PICK w \in Nat : w = Len(Utf8[c]) /\ 2 * w <= Context + 2
    BY EncodedChar
  <2>3. ~(ByteAt(t, m + 1) <= max)
    <3>1. m + 1 \in 0 .. Len(t) /\ ~(m + 1 <= m)
      BY <1>2, <1>5
    <3> QED BY <1>1, <3>1
  <2>4. max < e + w
    BY <1>2, <2>1, <2>2, <2>3
  <2>5. 2 * (max - e) <= Context
    BY <1>3, <2>2, <2>4
  <2> QED BY <1>1, <1>2, <1>3, <1>5, <2>1, <2>2, <2>4, <2>5
<1> QED BY <1>2, <1>4, <1>5

\* What a snippet covers: it begins at or before the character with the match,
\* and it ends at or behind the last byte of it.
Covers(t, a, b, offset, len) ==
    /\ a \in 0 .. Len(t) /\ b \in 0 .. Len(t) /\ a <= Cut(t, offset)
    /\ \A n \in 0 .. Len(t) : ByteAt(t, n) <= offset + len => n <= b
    /\ offset + len <= ByteAt(t, b)

LEMMA RenderCovers ==
    ASSUME NEW t \in Seq(Char), NEW offset \in Nat, NEW len \in Nat, offset + len <= ByteLen(t)
    PROVE  \E a, b : /\ Covers(t, a, b, offset, len)
                     /\ RenderWindow(t, Place(offset, len)) = CollapseWhitespaceForDisplay(SubSeq(t, a + 1, b))
<1>1. PICK B \in Nat : B = ByteLen(t) /\ offset + len <= B /\ offset <= B
  BY OffsetsGrow
<1>2. PICK p : p = Cut(t, offset)
  OBVIOUS
<1>3. PICK center \in Nat : center = ByteAt(t, p) /\ center <= offset /\ 2 * (offset - center) <= Context /\ Context \in Nat
  BY <1>1, <1>2, CutBetween
<1>4. PICK x \in Nat : x = Max({center - Context, 0}) /\ x <= center
  <2>1. center - Context \in Int /\ center - Context <= center /\ 0 <= center
    BY <1>3
  <2> DEFINE T == {center - Context, 0}
  <2>2. T \in SUBSET Int /\ T # {} /\ (\A k \in T : k <= center) /\ 0 \in T
    BY <2>1
  <2> HIDE DEF T
  <2>3. Max(T) \in T /\ \A k \in T : k <= Max(T)
    BY <2>2, MaxOf
  <2>4. PICK k \in T : k = Max(T) /\ \A j \in T : j <= k
    BY <2>3
  <2>5. k \in Nat /\ k <= center
    <3>1. 0 <= k /\ k \in Int
      BY <2>2, <2>4
    <3> QED BY <2>2, <3>1
  <2> QED BY <2>4, <2>5 DEF T
<1>5. PICK y \in Nat : /\ y = AtMost(AtMost(center + len, B) + Context, B) /\ y <= B /\ offset + len <= y
                       /\ y = B \/ y = center + len + Context
  <2>1. AtMost(center + len, B) = center + len
    BY <1>1, <1>3 DEF AtMost
  <2>2. PICK z \in Nat : z = center + len + Context /\ offset + len <= z
    BY <1>3
  <2>3. AtMost(z, B) \in Nat /\ AtMost(z, B) <= B /\ offset + len <= AtMost(z, B) /\ (AtMost(z, B) = B \/ AtMost(z, B) = z)
    BY <1>1, <2>2 DEF AtMost
  <2> QED BY <2>1, <2>2, <2>3
<1>6. PICK a, b : a = Cut(t, x) /\ b = Cut(t, y)
  OBVIOUS
<1>7. /\ a \in 0 .. Len(t) /\ ByteAt(t, a) <= x
      /\ \A k \in 0 .. Len(t) : ByteAt(t, k) <= offset => k <= p
  BY <1>2, <1>6, CutIs
<1>8. a <= p
  <2>1. ByteAt(t, a) \in Nat
    BY <1>7, OffsetsGrow
  <2>2. ByteAt(t, a) <= offset
    BY <1>3, <1>4, <1>7, <2>1
  <2> QED BY <1>7, <2>2
<1>9. /\ b \in 0 .. Len(t) /\ ByteAt(t, b) \in Nat
      /\ ByteAt(t, b) = y \/ (b < Len(t) /\ y < ByteAt(t, b + 1))
  BY <1>1, <1>5, <1>6, CutBetween
<1>10. ASSUME NEW n \in 0 .. Len(t), ByteAt(t, n) <= offset + len PROVE n <= b
  <2>1. ByteAt(t, n) \in Nat
    BY OffsetsGrow
  <2>2. ByteAt(t, n) <= y
    BY <1>5, <1>10, <2>1
  <2> QED BY <1>6, <2>2, CutIs
<1>11. offset + len <= ByteAt(t, b)
  <2>1. CASE ByteAt(t, b) = y
    BY <1>5, <2>1
  <2>2. CASE b < Len(t) /\ y < ByteAt(t, b + 1)
    <3>1. PICK c \in Char : c = t[b + 1] /\ ByteAt(t, b + 1) = ByteAt(t, b) + Len(Utf8[c])
      BY <1>9, <2>2, OffsetsGrow
    <3>2. PICK w \in Nat : w = Len(Utf8[c]) /\ 2 * w <= Context + 2
      BY EncodedChar
    <3>3. ByteAt(t, b + 1) <= B
      <4>1. b + 1 \in 0 .. Len(t) /\ Len(t) \in 0 .. Len(t) /\ b + 1 <= Len(t)
        BY <1>9, <2>2
      <4> QED BY <1>1, <4>1, OffsetsGrow
    <3>4. PICK e \in Nat : e = ByteAt(t, b) /\ y < e + w /\ e + w <= B
      BY <1>9, <2>2, <3>1, <3>2, <3>3
    <3>5. y = center + len + Context
      BY <1>1, <1>5, <3>4
    <3>6. 2 * (offset - center) <= Context /\ 2 * w <= Context + 2 /\ center + len + Context < e + w
      BY <1>3, <3>2, <3>4, <3>5
    <3>7. offset + len <= e
      BY <1>3, <3>4, <3>6
    <3> QED BY <3>4, <3>7
  <2> QED BY <1>9, <2>1, <2>2
<1>12. Covers(t, a, b, offset, len)
  BY <1>2, <1>7, <1>8, <1>9, <1>10, <1>11 DEF Covers
<1>13. RenderWindow(t, Place(offset, len)) = CollapseWhitespaceForDisplay(SubSeq(t, a + 1, b))
  <2>1. Place(offset, len).offset = offset /\ Place(offset, len).len = len
    BY DEF Place
  <2>2. ByteLen(TakeCharsWithinBytes(t, offset)) = center
    BY <1>2, <1>3, CutIs
  <2> DEFINE pl == Place(offset, len)
  <2> HIDE DEF pl
  <2>3. pl.offset = offset /\ pl.len = len
    BY <2>1 DEF pl
  <2>4. RenderWindow(t, pl) =
           CollapseWhitespaceForDisplay(SubSeq(t, Len(TakeCharsWithinBytes(t, Max({center - Context, 0}))) + 1,
               Len(TakeCharsWithinBytes(t, AtMost(AtMost(center + len, ByteLen(t)) + Context, ByteLen(t))))))
    BY <2>2, <2>3, Zenon DEF RenderWindow
  <2>5. Len(TakeCharsWithinBytes(t, x)) = a /\ Len(TakeCharsWithinBytes(t, y)) = b
    BY <1>6 DEF Cut
  <2>6. RenderWindow(t, pl) = CollapseWhitespaceForDisplay(SubSeq(t, Len(TakeCharsWithinBytes(t, x)) + 1, Len(TakeCharsWithinBytes(t, y))))
    BY <1>1, <1>4, <1>5, <2>4, Zenon
  <2>7. RenderWindow(t, pl) = CollapseWhitespaceForDisplay(SubSeq(t, a + 1, b))
    BY <2>5, <2>6, Zenon
  <2> QED BY <2>7 DEF pl
<1> QED BY <1>12, <1>13

-----------------------------------------------------------------------------
(* What collapsing leaves.                                                 *)

\* A part of a text is, collapsed, a part of the collapsed text.
LEMMA CollapsedFound ==
    ASSUME NEW B, Space \in B, NEW blanks, Space \in blanks, NEW s \in Seq(B), NEW y \in Seq(B),
           NEW a \in Nat, PartAt(a, y, s)
    PROVE  Has(CollapseBlanks(y, blanks), CollapseBlanks(s, blanks))
<1> DEFINE g == CollapseBlanks(y, blanks)
           z == CollapseBlanks(s, blanks)
<1>1. z \in Seq(B)
  BY CollapseTyped
<1>2. CASE g = <<>>
  <2> HIDE DEF g, z
  <2>1. Occurrences(<<>>, z) = {i \in 0 .. Len(z) - Len(<<>>) : \A k \in DOMAIN <<>> : z[i + k] = <<>>[k]}
    BY DEF Occurrences
  <2>2. DOMAIN <<>> = {} /\ Len(<<>>) = 0 /\ Len(z) \in Nat
    BY <1>1
  <2>3. 0 \in 0 .. Len(z) - Len(<<>>)
    BY <2>2
  <2>4. 0 \in Occurrences(<<>>, z)
    BY <2>1, <2>2, <2>3
  <2>5. Has(g, z)
    BY <1>2, <2>4, Zenon DEF Has
  <2> QED BY <2>5 DEF g, z
<1>3. CASE g # <<>>
  <2>1. PICK m \in 1 .. Len(y) : y[m] \notin blanks /\ g = Sift(Spaced(y, blanks), Kept(y, blanks, m)) /\ g \in Seq(B)
    BY <1>3, CollapseKeeps
  <2>2. a + Len(y) <= Len(s) /\ \A i \in 1 .. Len(y) : s[a + i] = y[i]
    BY DEF PartAt
  <2> HIDE DEF g
  <2>3. Occurrences(g, CollapseBlanks(s, blanks)) # {}
    BY <2>1, <2>2, CollapseFinds
  <2> QED BY <2>3 DEF Has, g
<1> QED BY <1>2, <1>3

\* The blanks of a collapsed text: single spaces between what is not blank.
Clean(g, blanks) ==
    \A k \in 1 .. Len(g) : g[k] \in blanks => g[k] = Space /\ k > 1 /\ k < Len(g) /\ g[k + 1] \notin blanks

LEMMA CollapsedIsClean ==
    ASSUME NEW B, Space \in B, NEW blanks, Space \in blanks, NEW s \in Seq(B)
    PROVE  Clean(CollapseBlanks(s, blanks), blanks)
<1> DEFINE g == CollapseBlanks(s, blanks)
<1>1. CASE g = <<>>
  <2>1. 1 .. Len(<<>>) = {}
    OBVIOUS
  <2> HIDE DEF g
  <2>2. Clean(g, blanks)
    BY <1>1, <2>1 DEF Clean
  <2> QED BY <2>2 DEF g
<1>2. CASE g # <<>>
  <2>1. PICK m \in 1 .. Len(s) : s[m] \notin blanks /\ g = Sift(Spaced(s, blanks), Kept(s, blanks, m)) /\ g \in Seq(B)
    BY <1>2, CollapseKeeps
  <2> DEFINE K == Kept(s, blanks, m)
             z == Spaced(s, blanks)
  <2>2. m \in Nat /\ K \subseteq 1 .. m /\ IsFiniteSet(K)
    <3>1. m \in Nat /\ K \subseteq 1 .. m
      BY DEF Kept
    <3>2. IsFiniteSet(1 .. m)
      BY <3>1, FS_Interval
    <3> HIDE DEF K
    <3> QED BY <3>1, <3>2, FS_Subset
  <2>3. \A i \in 1 .. m : i \in K <=> (s[i] \notin blanks \/ (i > 1 /\ s[i - 1] \notin blanks))
    BY DEF Kept
  <2>4. \A i \in 1 .. m : z[i] = IF s[i] \in blanks THEN Space ELSE s[i]
    BY <2>1 DEF Spaced
  <2> HIDE DEF K, z
  <2>a. PICK n \in Nat : \E p : SiftedBy(p, z, K, n)
    <3>1. K \subseteq Int
      BY <2>2
    <3>2. PICK n : n = Cardinality(K)
      OBVIOUS
    <3> QED BY <2>2, <3>1, <3>2, SiftProperties
  <2>5. PICK p : SiftedBy(p, z, K, n)
    BY <2>a
  <2>6. g = [k \in 1 .. n |-> z[p[k]]]
    BY <2>1, <2>5 DEF SiftedBy, K, z
  <2>7. Enumerates(p, K, n)
    BY <2>5 DEF SiftedBy
  <2>8. \A k \in 1 .. n : p[k] \in K /\ p[k] \in 1 .. m
    BY <2>2, <2>7 DEF Enumerates
  <2>9. ASSUME NEW i \in K PROVE \E k \in 1 .. n : p[k] = i
    BY <2>7 DEF Enumerates
  <2>10. \A k, j \in 1 .. n : k < j => p[k] < p[j]
    BY <2>7 DEF Enumerates
  <2> HIDE DEF g
  <2>11. Len(g) = n /\ \A k \in 1 .. n : g[k] = z[p[k]]
    BY <2>1, <2>6
  <2>12. ASSUME NEW k \in 1 .. n PROVE g[k] \in blanks => g[k] = Space /\ s[p[k]] \in blanks
    BY <2>4, <2>8, <2>11
  <2>13. ASSUME NEW k \in 1 .. n, g[k] \in blanks PROVE k > 1 /\ k < n /\ g[k + 1] \notin blanks
    <3>1. PICK i \in 1 .. m : i = p[k] /\ i \in K /\ s[i] \in blanks
      BY <2>8, <2>12, <2>13
    <3>2. i > 1 /\ s[i - 1] \notin blanks /\ i - 1 \in 1 .. m
      BY <2>3, <3>1
    <3>3. PICK h \in 1 .. m : h = i - 1
      BY <3>2
    <3>4. h \in K
      BY <2>3, <3>2, <3>3
    <3>5. PICK j \in 1 .. n : p[j] = h
      BY <2>9, <3>4
    <3>6. j < k
      BY <2>8, <2>10, <3>1, <3>3, <3>5
    <3>7. m \in K /\ m # i
      BY <2>1, <2>2, <2>3, <3>1
    <3>8. PICK last \in 1 .. n : p[last] = m
      BY <2>9, <3>7
    <3>9. k < last
      BY <2>2, <2>8, <2>10, <3>1, <3>7, <3>8
    <3>10. k > 1 /\ k < n /\ k + 1 \in 1 .. n
      BY <3>6, <3>9
    <3>11. ASSUME g[k + 1] \in blanks PROVE FALSE
      <4>1. PICK r \in 1 .. n : r = k + 1
        BY <3>10
      <4>2. PICK u \in 1 .. m : u = p[r] /\ u \in K /\ s[u] \in blanks
        BY <2>8, <2>12, <3>11, <4>1
      <4>3. u > 1 /\ s[u - 1] \notin blanks
        BY <2>3, <4>2
      <4>4. PICK v \in 1 .. m : v = u - 1
        BY <4>2, <4>3
      <4>5. v \in K
        BY <2>3, <4>3, <4>4
      <4>6. PICK q \in 1 .. n : p[q] = v
        BY <2>9, <4>5
      <4>7. i < u
        BY <2>10, <3>1, <4>1, <4>2
      <4>8. i < v
        BY <3>1, <4>3, <4>4, <4>7
      <4>9. k < q
        BY <2>10, <3>1, <4>6, <4>8
      <4>10. q < r
        BY <2>10, <4>2, <4>4, <4>6
      <4> QED BY <4>1, <4>9, <4>10
    <3> QED BY <3>10, <3>11
  <2>14. Clean(g, blanks)
    BY <2>11, <2>12, <2>13 DEF Clean
  <2> QED BY <2>14 DEF g
<1> QED BY <1>1, <1>2

LEMMA IntervalSize ==
    ASSUME NEW n \in Nat
    PROVE  IsFiniteSet(1 .. n) /\ Cardinality(1 .. n) = n
BY FS_Interval

\* A filter that keeps all.
LEMMA SiftAll ==
    ASSUME NEW B, NEW y \in Seq(B), NEW n, n = Len(y)
    PROVE  Sift(y, 1 .. n) = y
<1>1. n \in Nat
  OBVIOUS
<1> DEFINE K == 1 .. n
<1>2. K \subseteq Int /\ IsFiniteSet(K) /\ Cardinality(K) = n
  <2>1. IsFiniteSet(1 .. n) /\ Cardinality(1 .. n) = n
    BY <1>1, IntervalSize
  <2> QED BY <2>1
<1>3. ASSUME NEW i \in 1 .. n PROVE PlaceIn(K, i) = i
  <2>1. {j \in K : j < i} = 1 .. i - 1
    BY <1>1
  <2>2. i - 1 \in Nat /\ Cardinality(1 .. i - 1) = i - 1
    <3>1. PICK h \in Nat : h = i - 1
      OBVIOUS
    <3>2. Cardinality(1 .. h) = h
      BY FS_Interval
    <3> QED BY <3>1, <3>2
  <2> HIDE DEF K
  <2>3. PlaceIn(K, i) = Cardinality(1 .. i - 1) + 1
    BY <2>1 DEF PlaceIn
  <2> QED BY <2>2, <2>3
<1>4. \A i \in 1 .. n : i \in K
  OBVIOUS
<1> HIDE DEF K
<1>5. PICK p : SiftedBy(p, y, K, n)
  <2>1. n = Cardinality(K)
    BY <1>2
  <2> QED BY <1>2, <2>1, SiftProperties
<1>6. \A i \in 1 .. n : p[i] = i
  BY <1>3, <1>4, <1>5 DEF SiftedBy, Enumerates
<1>7. Sift(y, K) = [k \in 1 .. n |-> y[p[k]]]
  BY <1>5 DEF SiftedBy
<1>8. [k \in 1 .. n |-> y[p[k]]] = y
  BY <1>6
<1> QED BY <1>7, <1>8 DEF K

\* A part of a clean text that ends with no blank is found in every greater part
\* of it, collapsed or not.
LEMMA CleanPartFound ==
    ASSUME NEW B, Space \in B, NEW blanks, Space \in blanks, NEW t \in Seq(B), Clean(t, blanks),
           NEW a \in Nat, NEW f \in Nat, NEW h \in Nat, NEW b \in Nat, a <= f, f < h, h <= b, b <= Len(t),
           t[f + 1] # Space, t[h] # Space
    PROVE  Has(SubSeq(t, f + 1, h), CollapseBlanks(SubSeq(t, a + 1, b), blanks))
<1>1. PICK l \in Nat : l = Len(t)
  OBVIOUS
<1>2. PICK y \in Seq(B), n \in Nat \ {0} : y = SubSeq(t, f + 1, h) /\ n = h - f /\ Len(y) = n /\ \A i \in 1 .. n : y[i] = t[f + i]
  <2>1. h <= Len(t) /\ h - f \in Nat \ {0}
    BY <1>1
  <2>2. PICK y : y = SubSeq(t, f + 1, h)
    OBVIOUS
  <2>3. y \in Seq(B) /\ Len(y) = (IF f <= h THEN h - f ELSE 0) /\ \A i \in 1 .. h - f : y[i] = t[f + i]
    BY <2>1, <2>2, SubSeqFacts
  <2> QED BY <2>1, <2>2, <2>3
<1>3. PICK s \in Seq(B) : s = SubSeq(t, a + 1, b) /\ Len(s) = b - a /\ \A i \in 1 .. b - a : s[i] = t[a + i]
  <2>1. a <= b /\ b <= Len(t)
    OBVIOUS
  <2> HIDE DEF Slice
  <2>2. Slice(t, a, b) \in Seq(B) /\ Len(Slice(t, a, b)) = b - a /\ \A i \in 1 .. b - a : Slice(t, a, b)[i] = t[a + i]
    <3>1. SliceFine(t, B, a, b)
      BY <2>1, SliceIsFine
    <3> QED BY <3>1 DEF SliceFine
  <2> QED BY <2>2 DEF Slice
<1>4. PICK d \in Nat : d = f - a /\ d + n <= Len(s) /\ \A i \in 1 .. n : s[d + i] = y[i]
  <2>1. PICK d \in Nat : d = f - a /\ d + n <= b - a /\ \A i \in 1 .. n : d + i \in 1 .. b - a /\ a + (d + i) = f + i
    <3>1. n \in Nat /\ n = h - f
      BY <1>2
    <3>2. f - a \in Nat /\ (f - a) + n <= b - a
      BY <3>1
    <3>3. \A i \in 1 .. n : (f - a) + i \in 1 .. b - a /\ a + ((f - a) + i) = f + i
      BY <3>1
    <3> QED BY <3>2, <3>3
  <2>2. \A i \in 1 .. n : s[d + i] = t[a + (d + i)]
    BY <1>3, <2>1
  <2>3. \A i \in 1 .. n : s[d + i] = y[i]
    BY <1>2, <2>1, <2>2
  <2>4. Len(s) = b - a
    BY <1>3
  <2> QED BY <2>1, <2>3, <2>4
<1>5. \A k \in 1 .. l : t[k] \in blanks => t[k] = Space /\ k > 1 /\ k < l /\ t[k + 1] \notin blanks
  BY <1>1 DEF Clean
<1>6. y[n] \notin blanks
  <2>1. n \in 1 .. n /\ f + n = h
    <3>1. n \in Nat /\ n # 0 /\ n = h - f
      BY <1>2
    <3> QED BY <3>1
  <2>2. h \in 1 .. l
    BY <1>1
  <2> QED BY <1>2, <1>5, <2>1, <2>2
<1>7. ASSUME NEW i \in 1 .. n, y[i] \in blanks PROVE y[i] = Space /\ i > 1 /\ y[i - 1] \notin blanks
  <2>1. PICK k \in 1 .. l : k = f + i /\ t[k] = y[i]
    BY <1>1, <1>2
  <2>2. t[k] = Space
    BY <1>5, <1>7, <2>1
  <2>3. i # 1
    BY <1>2, <1>7, <2>1, <2>2
  <2>4. PICK j \in 1 .. n : j = i - 1
    BY <2>3
  <2>5. PICK m \in 1 .. l : m = f + j /\ t[m] = y[j] /\ m + 1 = k
    BY <1>1, <1>2, <2>1, <2>4
  <2>6. t[m] \notin blanks
    BY <1>5, <1>7, <2>1, <2>5
  <2> QED BY <2>1, <2>2, <2>3, <2>4, <2>5, <2>6
<1>8. Spaced(y, blanks) = y
  <2>1. DOMAIN y = 1 .. n
    BY <1>2
  <2>2. \A i \in 1 .. n : (IF y[i] \in blanks THEN Space ELSE y[i]) = y[i]
    BY <1>7
  <2> QED BY <2>1, <2>2 DEF Spaced
<1>9. Kept(y, blanks, n) = 1 .. n
  BY <1>7 DEF Kept
<1>10. y = Sift(Spaced(y, blanks), Kept(y, blanks, n))
  BY <1>2, <1>8, <1>9, SiftAll
<1>11. n \in 1 .. Len(y) /\ d + Len(y) <= Len(s) /\ \A i \in 1 .. Len(y) : s[d + i] = y[i]
  BY <1>2, <1>4
<1>12. Occurrences(y, CollapseBlanks(s, blanks)) # {}
  BY <1>6, <1>10, <1>11, CollapseFinds
<1> QED BY <1>2, <1>3, <1>12 DEF Has

-----------------------------------------------------------------------------
(* What was found is in the snippet.                                       *)

\* The character that has the byte at an offset.
LEMMA CharAtOffset ==
    ASSUME NEW t \in Seq(Char), NEW x \in Nat, x < ByteLen(t), NEW m, m = Cut(t, x)
    PROVE  /\ m \in Nat /\ m < Len(t) /\ ByteAt(t, m) \in Nat /\ ByteAt(t, m + 1) \in Nat
           /\ ByteAt(t, m) <= x /\ x < ByteAt(t, m + 1)
           /\ t[m + 1] = Space => Encode(t)[x + 1] = Space
<1>1. PICK B \in Nat : B = ByteLen(t) /\ x < B
  BY OffsetsGrow
<1>2. PICK l \in Nat : l = Len(t) /\ ByteAt(t, l) = B
  BY <1>1, OffsetsGrow
<1>3. m \in 0 .. l /\ ByteAt(t, m) \in Nat /\ ByteAt(t, m) <= x /\ \A k \in 0 .. l : ByteAt(t, k) <= x => k <= m
  <2>1. m \in 0 .. Len(t) /\ ByteAt(t, m) <= x /\ \A k \in 0 .. Len(t) : ByteAt(t, k) <= x => k <= m
    BY CutIs
  <2> QED BY <1>2, <2>1, OffsetsGrow
<1>4. m < l
  BY <1>1, <1>2, <1>3
<1>5. PICK c \in Char : /\ c = t[m + 1] /\ ByteAt(t, m + 1) = ByteAt(t, m) + Len(Utf8[c])
                        /\ PartAt(ByteAt(t, m), Utf8[c], Encode(t))
  BY <1>2, <1>3, <1>4, OffsetsGrow
<1>6. Len(Utf8[c]) \in Nat
  BY EncodedChar
<1>7. x < ByteAt(t, m + 1)
  <2>1. m + 1 \in 0 .. l /\ ~(m + 1 <= m) /\ ByteAt(t, m + 1) \in Nat
    BY <1>3, <1>4, <1>5, <1>6
  <2> QED BY <1>3, <2>1
<1>8. ASSUME c = Space PROVE Encode(t)[x + 1] = Space
  <2>1. Utf8[c] = <<Space>> /\ Len(<<Space>>) = 1 /\ <<Space>>[1] = Space /\ 1 \in 1 .. Len(<<Space>>)
    BY <1>8, SearchAssumption
  <2>2. ByteAt(t, m) = x
    BY <1>3, <1>5, <1>7, <2>1
  <2>3. Encode(t)[x + 1] = <<Space>>[1]
    BY <1>5, <2>1, <2>2 DEF PartAt
  <2> QED BY <2>1, <2>3
<1> QED BY <1>2, <1>3, <1>4, <1>5, <1>6, <1>7, <1>8

LEMMA LowercaseIs ==
    ASSUME NEW s \in Seq(Byte)
    PROVE  Len(Lowercase(s)) = Len(s) /\ \A i \in 1 .. Len(s) : Lowercase(s)[i] = Lower[s[i]]
BY DEF Lowercase

\* Numbers of a part, counted from two places.
LEMMA InPart ==
    ASSUME NEW c \in Nat, NEW w \in Nat, NEW o \in 0 .. c - w, NEW e \in Nat, NEW b \in Nat, e + c <= b, NEW k \in 1 .. w
    PROVE  o + k \in 1 .. c /\ e + (o + k) = (e + o) + k /\ (e + o) + k \in 1 .. b /\ e + o \in 0 .. b - w
OBVIOUS

\* Bytes that are found between two offsets are in what is between them.
LEMMA FoundBetween ==
    ASSUME NEW s \in Seq(Byte), NEW y \in Seq(Byte), NEW e \in Nat, PartAt(e, y, s),
           NEW needle \in Seq(Byte), NEW o \in Occurrences(needle, Lowercase(s)), e <= o, o + Len(needle) <= e + Len(y)
    PROVE  Has(needle, Lowercase(y))
<1>1. PICK l \in Nat, n \in Nat, b \in Nat : l = Len(needle) /\ n = Len(y) /\ b = Len(s) /\ DOMAIN needle = 1 .. l
  OBVIOUS
<1>2. e + n <= b /\ \A i \in 1 .. n : s[e + i] = y[i]
  BY <1>1 DEF PartAt
<1>3. Len(Lowercase(s)) = b /\ (\A i \in 1 .. b : Lowercase(s)[i] = Lower[s[i]])
  BY <1>1 DEF Lowercase
<1>4. Len(Lowercase(y)) = n /\ (\A i \in 1 .. n : Lowercase(y)[i] = Lower[y[i]])
  BY <1>1 DEF Lowercase
<1>5. o \in 0 .. b - l /\ \A k \in 1 .. l : Lowercase(s)[o + k] = needle[k]
  BY <1>1, <1>3 DEF Occurrences
<1>6. PICK d \in Nat : d = o - e /\ d \in 0 .. n - l
  BY <1>1, <1>5
<1>7. ASSUME NEW k \in 1 .. l PROVE Lowercase(y)[d + k] = needle[k]
  <2>1. PICK i \in 1 .. n : i = d + k /\ e + i = o + k /\ o + k \in 1 .. b
    <3>1. d \in 0 .. n - l /\ e + n <= b
      BY <1>2, <1>6
    <3>2. d + k \in 1 .. n /\ e + (d + k) = (e + d) + k /\ (e + d) + k \in 1 .. b
      BY <3>1, InPart
    <3>3. e + d = o
      BY <1>5, <1>6
    <3> QED BY <3>2, <3>3
  <2>2. s[o + k] = y[i]
    BY <1>2, <2>1
  <2> QED BY <1>3, <1>4, <1>5, <2>1, <2>2
<1>8. d \in Occurrences(needle, Lowercase(y))
  BY <1>1, <1>4, <1>6, <1>7 DEF Occurrences
<1> QED BY <1>8 DEF Has

\* Bytes found in the encoding of a part are found in that of the whole.
LEMMA FoundInWhole ==
    ASSUME NEW t \in Seq(Char), NEW y \in Seq(Char), Has(y, t), NEW needle \in Seq(Byte), Has(needle, Lowercase(Encode(y)))
    PROVE  Has(needle, Lowercase(Encode(t)))
<1>1. PICK n \in Nat, l \in Nat : n = Len(y) /\ l = Len(t) /\ DOMAIN y = 1 .. n
  OBVIOUS
<1>2. PICK i \in Nat : i + n <= l /\ \A k \in 1 .. n : t[i + k] = y[k]
  <2>1. PICK i \in 0 .. Len(t) - Len(y) : \A k \in DOMAIN y : t[i + k] = y[k]
    BY DEF Has, Occurrences
  <2>2. Len(t) - Len(y) = l - n /\ \A k \in 1 .. n : t[i + k] = y[k]
    BY <1>1, <2>1
  <2>3. i \in Nat /\ i + n <= l
    <3>1. i \in 0 .. l - n
      BY <2>2, Zenon
    <3> QED BY <3>1
  <2> QED BY <2>2, <2>3
<1>3. PICK j \in Nat : j = i + n /\ i <= j /\ j <= Len(t) /\ j - i = n
  BY <1>1, <1>2
<1>4. y = Slice(t, i, j)
  <2>1. SliceFine(t, Char, i, j)
    BY <1>3, SliceIsFine
  <2>2. PICK z \in Seq(Char) : z = Slice(t, i, j) /\ Len(z) = j - i /\ \A k \in 1 .. j - i : z[k] = t[i + k]
    BY <2>1 DEF SliceFine
  <2>3. Len(z) = Len(y) /\ \A k \in 1 .. Len(y) : z[k] = y[k]
    BY <1>1, <1>2, <1>3, <2>2
  <2>4. z = y
    BY <2>3
  <2> QED BY <2>2, <2>4
<1>5. PICK e \in Nat : e = ByteAt(t, i) /\ PartAt(e, Encode(y), Encode(t))
  <2>1. ByteAt(t, i) \in Nat /\ PartAt(ByteAt(t, i), Encode(Slice(t, i, j)), Encode(t))
    BY <1>3, EncodedPart
  <2> QED BY <1>4, <2>1
<1>6. PICK s \in Seq(Byte), x \in Seq(Byte) : s = Encode(t) /\ x = Encode(y)
  BY EncodeTyped
<1>7. PICK b \in Nat, c \in Nat, w \in Nat : b = Len(s) /\ c = Len(x) /\ w = Len(needle) /\ DOMAIN needle = 1 .. w
  OBVIOUS
<1>8. e + c <= b /\ \A k \in 1 .. c : s[e + k] = x[k]
  BY <1>5, <1>6, <1>7 DEF PartAt
<1>9. Len(Lowercase(s)) = b /\ (\A k \in 1 .. b : Lowercase(s)[k] = Lower[s[k]])
  BY <1>7 DEF Lowercase
<1>10. Len(Lowercase(x)) = c /\ (\A k \in 1 .. c : Lowercase(x)[k] = Lower[x[k]])
  BY <1>7 DEF Lowercase
<1>11. PICK o \in 0 .. c - w : \A k \in 1 .. w : Lowercase(x)[o + k] = needle[k]
  <2>1. Has(needle, Lowercase(x))
    BY <1>6
  <2>2. PICK o \in 0 .. Len(Lowercase(x)) - Len(needle) : \A k \in DOMAIN needle : Lowercase(x)[o + k] = needle[k]
    BY <2>1 DEF Has, Occurrences
  <2> QED BY <1>7, <1>10, <2>2
<1>12. PICK p \in Nat : p = e + o /\ p \in 0 .. b - w
  BY <1>7, <1>8, <1>11
<1>13. ASSUME NEW k \in 1 .. w PROVE Lowercase(s)[p + k] = needle[k]
  <2>1. PICK h \in 1 .. c : h = o + k /\ e + h = p + k /\ p + k \in 1 .. b
    <3>1. o + k \in 1 .. c /\ e + (o + k) = (e + o) + k /\ (e + o) + k \in 1 .. b
      BY <1>8, InPart
    <3> QED BY <1>12, <3>1
  <2>2. s[p + k] = x[h]
    BY <1>8, <2>1
  <2> QED BY <1>9, <1>10, <1>11, <2>1, <2>2
<1>14. p \in Occurrences(needle, Lowercase(s))
  BY <1>7, <1>9, <1>12, <1>13 DEF Occurrences
<1> QED BY <1>6, <1>14 DEF Has

\* The snippet around a literal in a text that is shown as it is.
LEMMA NeedleShown ==
    ASSUME NEW t \in Seq(Char), CollapseWhitespaceForDisplay(t) = t,
           NEW needle \in Seq(Byte), needle # <<>>, needle[1] # Space, needle[Len(needle)] # Space,
           NEW o \in Occurrences(needle, Lowercase(Encode(t)))
    PROVE  Has(needle, Lowercase(Encode(RenderWindow(t, Place(o, Len(needle))))))
<1> DEFINE blanks == Whitespace \cup Control
<1>1. Space \in Char /\ Space \in blanks
  BY TextAssumption
<1>2. Clean(t, blanks)
  <2>1. CollapseBlanks(t, blanks) = t
    BY DEF CollapseWhitespaceForDisplay
  <2> HIDE DEF blanks
  <2> QED BY <1>1, <2>1, CollapsedIsClean
<1>3. PICK s \in Seq(Byte), B \in Nat : s = Encode(t) /\ B = Len(s) /\ B = ByteLen(t)
  BY EncodeTyped DEF ByteLen
<1>4. PICK l \in Nat \ {0} : l = Len(needle) /\ DOMAIN needle = 1 .. l
  OBVIOUS
<1>5. o \in Nat /\ o + l <= B /\ \A k \in 1 .. l : Lower[s[o + k]] = needle[k]
  <2>1. Len(Lowercase(s)) = B /\ \A k \in 1 .. B : Lowercase(s)[k] = Lower[s[k]]
    <3>1. Len(Lowercase(s)) = Len(s) /\ \A k \in 1 .. Len(s) : Lowercase(s)[k] = Lower[s[k]]
      BY LowercaseIs
    <3> QED BY <1>3, <3>1
  <2>2. o \in 0 .. B - l /\ \A k \in 1 .. l : Lowercase(s)[o + k] = needle[k]
    BY <1>3, <1>4, <2>1 DEF Occurrences
  <2>3. \A k \in 1 .. l : o + k \in 1 .. B
    BY <2>2
  <2> QED BY <2>1, <2>2, <2>3
<1>6. PICK a, b : /\ Covers(t, a, b, o, l)
                  /\ RenderWindow(t, Place(o, l)) = CollapseWhitespaceForDisplay(SubSeq(t, a + 1, b))
  BY <1>3, <1>5, RenderCovers
<1>7. PICK end \in Nat : end = o + l - 1 /\ end + 1 = o + l
  BY <1>4, <1>5
<1>8. PICK f, h : f = Cut(t, o) /\ h = Cut(t, end)
  OBVIOUS
<1>9. /\ f \in Nat /\ f < Len(t) /\ ByteAt(t, f) \in Nat /\ ByteAt(t, f) <= o
      /\ t[f + 1] = Space => s[o + 1] = Space
  <2>1. o < ByteLen(t)
    BY <1>3, <1>4, <1>5
  <2> QED BY <1>3, <1>5, <1>8, <2>1, CharAtOffset
<1>10. /\ h \in Nat /\ h < Len(t) /\ ByteAt(t, h) \in Nat /\ ByteAt(t, h + 1) \in Nat
       /\ ByteAt(t, h) <= end /\ end < ByteAt(t, h + 1) /\ (t[h + 1] = Space => s[end + 1] = Space)
  <2>1. end < ByteLen(t)
    BY <1>3, <1>5, <1>7
  <2> QED BY <1>3, <1>8, <2>1, CharAtOffset
<1>11. t[f + 1] # Space
  <2>1. 1 \in 1 .. l /\ Lower[Space] = Space
    BY <1>4, SearchAssumption
  <2>2. Lower[s[o + 1]] = needle[1]
    BY <1>5, <2>1
  <2> QED BY <1>9, <2>1, <2>2
<1>12. t[h + 1] # Space
  <2>1. l \in 1 .. l /\ Lower[Space] = Space
    BY <1>4, SearchAssumption
  <2>2. Lower[s[o + l]] = needle[l]
    BY <1>5, <2>1
  <2> QED BY <1>4, <1>7, <1>10, <2>1, <2>2
<1>13. f <= h
  <2>1. ByteAt(t, f) <= end /\ f \in 0 .. Len(t)
    BY <1>4, <1>5, <1>7, <1>9
  <2> QED BY <1>8, <2>1, CutIs
<1>14. a \in Nat /\ b \in Nat /\ a <= f /\ b <= Len(t) /\ b \in 0 .. Len(t) /\ o + l <= ByteAt(t, b)
  BY <1>6, <1>8 DEF Covers
<1>15. h < b
  <2>1. SUFFICES ASSUME b <= h PROVE FALSE
    BY <1>10, <1>14
  <2>2. h \in 0 .. Len(t)
    BY <1>10
  <2>3. ByteAt(t, b) \in Nat /\ ByteAt(t, b) <= ByteAt(t, h)
    BY <1>14, <2>1, <2>2, OffsetsGrow
  <2> QED BY <1>5, <1>7, <1>10, <1>14, <2>3
<1>16. PICK g \in Nat : g = h + 1 /\ f < g /\ g <= b /\ g <= Len(t) /\ t[g] # Space
  BY <1>9, <1>10, <1>12, <1>13, <1>14, <1>15
<1>17. PICK y, snippet : y = Slice(t, f, g) /\ snippet = CollapseBlanks(SubSeq(t, a + 1, b), blanks)
  OBVIOUS
<1>18. snippet \in Seq(Char) /\ RenderWindow(t, Place(o, Len(needle))) = snippet
  <2>1. SubSeq(t, a + 1, b) \in Seq(Char)
    BY <1>14, SubSeqFacts
  <2>2. snippet \in Seq(Char)
    <3> HIDE DEF blanks
    <3> QED BY <1>1, <1>17, <2>1, CollapseTyped
  <2> QED BY <1>4, <1>6, <1>17, <2>2 DEF CollapseWhitespaceForDisplay
<1>19. Has(y, snippet)
  <2> HIDE DEF blanks
  <2> QED BY <1>1, <1>2, <1>9, <1>11, <1>14, <1>16, <1>17, CleanPartFound DEF Slice
<1>20. y \in Seq(Char) /\ ByteAt(t, g) = ByteAt(t, f) + ByteLen(y) /\ PartAt(ByteAt(t, f), Encode(y), Encode(t))
  BY <1>9, <1>16, <1>17, EncodedPart
<1>21. Has(needle, Lowercase(Encode(y)))
  <2>1. PICK x \in Seq(Byte) : x = Encode(y) /\ Len(x) = ByteLen(y)
    BY <1>20, EncodeTyped DEF ByteLen
  <2>2. PICK e \in Nat : e = ByteAt(t, f) /\ e <= o /\ PartAt(e, x, s)
    BY <1>3, <1>9, <1>20, <2>1
  <2>3. o + Len(needle) <= e + Len(x)
    BY <1>4, <1>5, <1>7, <1>10, <1>16, <1>20, <2>1, <2>2
  <2>4. o \in Occurrences(needle, Lowercase(s))
    BY <1>3
  <2> QED BY <2>1, <2>2, <2>3, <2>4, FoundBetween
<1> QED BY <1>18, <1>19, <1>20, <1>21, FoundInWhole

\* The snippet around a match: what lies between its ends is shown.
LEMMA MatchShown ==
    ASSUME NEW t \in Seq(Char), NEW o \in Nat, NEW l \in Nat, o + l <= ByteLen(t)
    PROVE  Has(CollapseWhitespaceForDisplay(SubSeq(t, Cut(t, o) + 1, Cut(t, o + l))), RenderWindow(t, Place(o, l)))
<1> DEFINE blanks == Whitespace \cup Control
<1>1. Space \in Char /\ Space \in blanks
  BY TextAssumption
<1>2. PICK a, b : /\ Covers(t, a, b, o, l)
                  /\ RenderWindow(t, Place(o, l)) = CollapseWhitespaceForDisplay(SubSeq(t, a + 1, b))
  BY RenderCovers
<1>3. PICK p, q : p = Cut(t, o) /\ q = Cut(t, o + l)
  OBVIOUS
<1>4. o + l \in Nat
  OBVIOUS
<1>5. p \in 0 .. Len(t) /\ ByteAt(t, p) <= o
  BY <1>3, CutIs
<1>6. q \in 0 .. Len(t) /\ ByteAt(t, q) <= o + l /\ \A k \in 0 .. Len(t) : ByteAt(t, k) <= o + l => k <= q
  BY <1>3, <1>4, CutIs
<1>7. p <= q
  <2>1. ByteAt(t, p) \in Nat
    BY <1>5, OffsetsGrow
  <2>2. ByteAt(t, p) <= o + l
    BY <1>5, <2>1
  <2> QED BY <1>5, <1>6, <2>2
<1>8. a \in Nat /\ b \in Nat /\ a <= p /\ q <= b /\ b <= Len(t) /\ p \in Nat /\ q \in Nat /\ Len(t) \in Nat
  BY <1>2, <1>3, <1>5, <1>6 DEF Covers
<1>9. PICK y \in Seq(Char), n \in Nat : y = SubSeq(t, p + 1, q) /\ n = q - p /\ Len(y) = n /\ \A i \in 1 .. n : y[i] = t[p + i]
  <2>1. p <= q /\ q <= Len(t) /\ q - p \in Nat
    BY <1>7, <1>8
  <2>2. SliceFine(t, Char, p, q)
    BY <1>8, <2>1, SliceIsFine
  <2> QED BY <2>1, <2>2 DEF SliceFine, Slice
<1>10. PICK s \in Seq(Char), w \in Nat : s = SubSeq(t, a + 1, b) /\ w = b - a /\ Len(s) = w /\ \A i \in 1 .. w : s[i] = t[a + i]
  <2>1. a <= b /\ b - a \in Nat
    BY <1>7, <1>8
  <2>2. SliceFine(t, Char, a, b)
    BY <1>8, <2>1, SliceIsFine
  <2> QED BY <2>1, <2>2 DEF SliceFine, Slice
<1>11. PICK d \in Nat : d = p - a /\ d + n <= w
  <2>1. n = q - p /\ w = b - a
    BY <1>9, <1>10
  <2> QED BY <1>7, <1>8, <2>1
<1>12. ASSUME NEW i \in 1 .. n PROVE s[d + i] = y[i]
  <2>1. PICK k \in 1 .. w : k = d + i /\ a + k = p + i
    BY <1>8, <1>11
  <2> QED BY <1>9, <1>10, <2>1
<1>13. PartAt(d, y, s)
  BY <1>9, <1>10, <1>11, <1>12 DEF PartAt
<1>14. Has(CollapseBlanks(y, blanks), CollapseBlanks(s, blanks))
  <2> HIDE DEF blanks
  <2> QED BY <1>1, <1>13, CollapsedFound
<1> QED BY <1>2, <1>3, <1>9, <1>10, <1>14 DEF CollapseWhitespaceForDisplay

-----------------------------------------------------------------------------
(* The snippets of the searches.                                           *)

LEMMA SeqWithin ==
    ASSUME NEW S, NEW s \in Seq(S), NEW T, ToSet(s) \subseteq T
    PROVE  s \in Seq(T)
<1>1. PICK n \in Nat : n = Len(s) /\ s \in [1 .. n -> S]
  OBVIOUS
<1>2. \A k \in 1 .. n : s[k] \in T
  BY <1>1 DEF ToSet
<1>3. s \in [1 .. n -> T]
  BY <1>1, <1>2
<1> QED BY <1>3, SeqDef

\* The rows that are verified are rows of the database.
LEMMA CandidatesLive ==
    ASSUME IndexInv
    PROVE  /\ \A tree : BaseCandidates(tree) \in Seq(LiveRows)
           /\ overflow \in Seq(LiveRows) /\ \A needle : OverflowMatches(needle) \in Seq(LiveRows)
<1>1. LiveRows = Picked(base, LiveBase) \cup ToSet(overflow) /\ overflow \in Seq(Rows)
  BY DEF IndexInv
<1>2. ASSUME NEW tree PROVE BaseCandidates(tree) \in Seq(LiveRows)
  <2>1. BaseCandidates(tree) \in Seq(Rows) /\ ToSet(BaseCandidates(tree)) = Picked(base, Passed(tree)) /\ Passed(tree) \subseteq LiveBase
    BY BaseTyped
  <2>2. ToSet(BaseCandidates(tree)) \subseteq LiveRows
    BY <1>1, <2>1 DEF Picked
  <2> QED BY <2>1, <2>2, SeqWithin
<1>3. overflow \in Seq(LiveRows)
  <2>1. ToSet(overflow) \subseteq LiveRows
    BY <1>1
  <2> QED BY <1>1, <2>1, SeqWithin
<1>4. ASSUME NEW needle PROVE OverflowMatches(needle) \in Seq(LiveRows)
  <2> DEFINE K == {i \in DOMAIN overflow : Windows("consec", needle, 1) \subseteq Windows("consec", overflow[i].text_norm_ascii, 1)}
  <2>1. OverflowMatches(needle) = Sift(overflow, K)
    BY DEF OverflowMatches
  <2>2. K \in SUBSET DOMAIN overflow
    OBVIOUS
  <2> HIDE DEF K
  <2> QED BY <1>3, <2>1, <2>2, SiftTyped
<1> QED BY <1>2, <1>3, <1>4

\* What a regex search makes of rows is what it returns.
RegexMakes(hir) == {RegexHit(hir, r) : r \in WithMatch(hir, LiveRows)}

LEMMA RegexHitTyped ==
    ASSUME NEW hir \in Hirs, NEW r \in Rows, Matches(hir, Encode(r.text_utf8))
    PROVE  HitOf(RegexHit(hir, r), r)
<1>1. Encode(r.text_utf8) \in Seq(Byte)
  BY RowsTyped, EncodeTyped DEF IsRow
<1>2. PICK place : place = MatchAt(hir, Encode(r.text_utf8)) /\ place.offset \in Nat /\ place.len \in Nat
  BY <1>1, MatchAtTyped
<1> QED BY <1>2, HitMade DEF RegexHit

LEMMA RegexMade ==
    ASSUME IndexInv, NEW p \in Patterns, NEW limit \in Nat
    PROVE  RegexHits(p, limit) \in Seq(RegexMakes(p.hir))
<1> DEFINE tree   == Decompose[p.hir].query
           S      == RegexMakes(p.hir)
           inBase == VerifyRegex(p.hir, BaseCandidates(tree))
           inOver == VerifyRegex(p.hir, overflow)
           first  == Walk(<<>>, inBase, limit)
           all    == Walk(first, inOver, limit)
<1>1. RegexHits(p, limit) = IF p.source = <<>> \/ limit = 0 THEN <<>> ELSE CheapRank(all, p.source)
  BY DEF RegexHits, RegexOverflow
<1>2. p.source \in Seq(Byte) /\ p.hir \in Hirs
  BY SearchAssumption
<1>3. BaseCandidates(tree) \in Seq(LiveRows) /\ overflow \in Seq(LiveRows)
  <2> HIDE DEF tree
  <2> QED BY CandidatesLive
<1> HIDE DEF tree
<1>4. inBase \in Seq(S) /\ inOver \in Seq(S)
  BY <1>3, VerifyRegexListed DEF RegexMakes
<1>5. S \in SUBSET Hit
  <2> SUFFICES ASSUME NEW r \in WithMatch(p.hir, LiveRows) PROVE RegexHit(p.hir, r) \in Hit
    BY DEF RegexMakes
  <2>1. r \in Rows /\ Matches(p.hir, Encode(r.text_utf8))
    BY LiveRowsFinite DEF WithMatch, IndexInv
  <2> QED BY <1>2, <2>1, RegexHitTyped DEF HitOf
<1>6. <<>> \in Seq(S) /\ Len(<<>>) <= limit
  OBVIOUS
<1> HIDE DEF S, inBase, inOver
<1>7. first \in Seq(S) /\ Len(first) <= limit
  BY <1>4, <1>6, WalkIsLimited
<1> HIDE DEF first
<1>8. all \in Seq(S)
  BY <1>4, <1>7, WalkIsLimited
<1> HIDE DEF all
<1>9. CheapRank(all, p.source) \in Seq(S)
  BY <1>2, <1>5, <1>8, RankMade
<1> QED BY <1>1, <1>6, <1>9 DEF S

\* What a literal search makes of rows is what it returns.
LiteralHit(needle, r) == MakeHit(r, NormPlace(r, Find(needle, r.text_norm_ascii), Len(needle)))

LiteralMakes(needle) == {LiteralHit(needle, r) : r \in WithNeedle(needle, LiveRows)}

LEMMA VerifyLiteralListed ==
    ASSUME NEW needle, NEW R, NEW rows \in Seq(R)
    PROVE  VerifyLiteral(needle, rows) \in Seq({LiteralHit(needle, r) : r \in WithNeedle(needle, R)})
<1> DEFINE P     == {i \in DOMAIN rows : Has(needle, rows[i].text_norm_ascii)}
           found == Sift(rows, P)
           W     == WithNeedle(needle, R)
           S     == {LiteralHit(needle, r) : r \in W}
<1>1. found \in Seq(R) /\ ToSet(found) \subseteq W
  <2>1. P \in SUBSET DOMAIN rows
    OBVIOUS
  <2>2. Picked(rows, P) \subseteq W
    BY DEF Picked, WithNeedle
  <2> HIDE DEF P, W
  <2> QED BY <2>1, <2>2, SiftTyped
<1>2. VerifyLiteral(needle, rows) = [k \in DOMAIN found |-> LiteralHit(needle, found[k])]
  BY DEF VerifyLiteral, LiteralHit
<1> HIDE DEF found, W
<1>3. PICK n \in Nat : DOMAIN found = 1 .. n /\ \A k \in 1 .. n : found[k] \in W
  <2>1. PICK n : n = Len(found)
    OBVIOUS
  <2>2. n \in Nat /\ DOMAIN found = 1 .. n /\ \A k \in 1 .. n : found[k] \in W
    BY <1>1, <2>1 DEF ToSet
  <2> QED BY <2>2
<1> DEFINE out == [k \in 1 .. n |-> LiteralHit(needle, found[k])]
<1>4. out \in [1 .. n -> S]
  BY <1>3
<1>5. VerifyLiteral(needle, rows) = out
  BY <1>2, <1>3
<1> HIDE DEF out, S
<1>6. out \in Seq(S)
  BY <1>4, SeqDef
<1> QED BY <1>5, <1>6 DEF S, W

LEMMA LiteralHitTyped ==
    ASSUME NEW needle \in Seq(Byte), NEW r \in Rows, Has(needle, r.text_norm_ascii)
    PROVE  HitOf(LiteralHit(needle, r), r)
<1>1. PICK o \in Nat, l \in Nat : o = Find(needle, r.text_norm_ascii) /\ l = Len(needle)
  BY FindTyped
<1>2. NormPlace(r, o, l).offset \in Nat /\ NormPlace(r, o, l).len \in Nat
  BY NormPlaceTyped
<1>3. HitOf(MakeHit(r, NormPlace(r, o, l)), r)
  BY <1>2, HitMade
<1> QED BY <1>1, <1>3 DEF LiteralHit

LEMMA LiteralMade ==
    ASSUME IndexInv, NEW q \in Seq(Char), NEW limit \in Nat
    PROVE  /\ LiteralHits(q, limit) \in Seq(LiteralMakes(Needle(q)))
           /\ Needle(q) = <<>> => LiteralHits(q, limit) = <<>>
<1> DEFINE needle == Needle(q)
           S      == LiteralMakes(needle)
           inBase == VerifyLiteral(needle, BaseCandidates(LiteralQuery(needle)))
           inOver == VerifyLiteral(needle, OverflowMatches(needle))
           first  == Walk(<<>>, inBase, limit)
           all    == Walk(first, inOver, limit)
<1>1. LiteralHits(q, limit) = IF needle = <<>> \/ limit = 0 THEN <<>> ELSE CheapRank(all, needle)
  BY DEF LiteralHits
<1>2. needle \in Seq(Byte)
  BY NormalizeTyped DEF Needle
<1> HIDE DEF needle
<1>3. BaseCandidates(LiteralQuery(needle)) \in Seq(LiveRows) /\ OverflowMatches(needle) \in Seq(LiveRows)
  BY CandidatesLive
<1>4. inBase \in Seq(S) /\ inOver \in Seq(S)
  BY <1>3, VerifyLiteralListed DEF LiteralMakes
<1>5. S \in SUBSET Hit
  <2> SUFFICES ASSUME NEW r \in WithNeedle(needle, LiveRows) PROVE LiteralHit(needle, r) \in Hit
    BY DEF LiteralMakes
  <2>1. r \in Rows /\ Has(needle, r.text_norm_ascii)
    BY LiveRowsFinite DEF WithNeedle, IndexInv
  <2> QED BY <1>2, <2>1, LiteralHitTyped DEF HitOf
<1>6. <<>> \in Seq(S) /\ Len(<<>>) <= limit
  OBVIOUS
<1> HIDE DEF S, inBase, inOver
<1>7. first \in Seq(S) /\ Len(first) <= limit
  BY <1>4, <1>6, WalkIsLimited
<1> HIDE DEF first
<1>8. all \in Seq(S)
  BY <1>4, <1>7, WalkIsLimited
<1> HIDE DEF all
<1>9. CheapRank(all, needle) \in Seq(S)
  BY <1>2, <1>5, <1>8, RankMade
<1> QED BY <1>1, <1>6, <1>9 DEF S, needle

-----------------------------------------------------------------------------
(* Every snippet shows what was found.                                     *)

\* Rounding to the nearest number does nothing to a number.
LEMMA RoundedIsExact ==
    ASSUME NEW n \in Nat \ {0}, NEW o \in Nat
    PROVE  (2 * n * o + n) \div (2 * n) = o
<1>1. PICK m \in Nat \ {0} : m = 2 * n /\ n < m
  OBVIOUS
<1>2. PICK x \in Nat : x = m * o + n
  OBVIOUS
<1>3. PICK d \in Int, r \in Int : d = x \div m /\ x = m * d + r /\ 0 <= r /\ r < m
  <2>1. x \div m \in Int /\ x % m \in Int /\ x = m * (x \div m) + (x % m) /\ 0 <= x % m /\ x % m < m
    OBVIOUS
  <2> QED BY <2>1
<1>4. m * d + r = m * o + n
  BY <1>2, <1>3
<1>5. ASSUME d <= o - 1 PROVE FALSE
  <2>1. m * d <= m * (o - 1)
    BY <1>5
  <2>2. m * (o - 1) = m * o - m
    OBVIOUS
  <2> QED BY <1>1, <1>3, <1>4, <2>1, <2>2
<1>6. ASSUME o + 1 <= d PROVE FALSE
  <2>1. m * (o + 1) <= m * d
    BY <1>6
  <2>2. m * (o + 1) = m * o + m
    OBVIOUS
  <2> QED BY <1>1, <1>3, <1>4, <2>1, <2>2
<1>7. d = o
  BY <1>5, <1>6
<1>8. 2 * n * o + n = x /\ 2 * n = m
  BY <1>1, <1>2
<1> QED BY <1>3, <1>7, <1>8

\* A query begins and ends with no blank.
LEMMA NeedleEnds ==
    ASSUME NEW q \in Seq(Char), Needle(q) # <<>>
    PROVE  Needle(q) \in Seq(Byte) /\ Needle(q)[1] # Space /\ Needle(q)[Len(Needle(q))] # Space
<1>1. Space \in Byte /\ Space \in AsciiBlank
  BY TextAssumption
<1>2. Fold(q) \in Seq(Byte)
  <2>1. <<>> \in Seq(Char)
    OBVIOUS
  <2> QED BY <2>1, FoldConcat
<1>3. PICK g \in Seq(Byte) : g = Needle(q) /\ Clean(g, AsciiBlank)
  <2>1. Clean(CollapseBlanks(Fold(q), AsciiBlank), AsciiBlank)
    BY <1>1, <1>2, CollapsedIsClean
  <2> QED BY <2>1, NormalizeTyped DEF Needle, NormalizeForIndex
<1>4. PICK l \in Nat \ {0} : l = Len(g)
  BY <1>3
<1>5. \A k \in 1 .. l : g[k] \in AsciiBlank => k > 1 /\ k < l
  BY <1>3, <1>4 DEF Clean
<1>6. g[1] \notin AsciiBlank /\ g[l] \notin AsciiBlank
  BY <1>5
<1> QED BY <1>1, <1>3, <1>4, <1>6

\* The snippet of a row that has the query has it, if row and snippet are as
\* they were printed.
LEMMA LiteralShown ==
    ASSUME NEW q \in Seq(Char), Needle(q) # <<>>, NEW r \in Rows, Has(Needle(q), r.text_norm_ascii),
           IsPlain(r), IsShownAsItIs(r)
    PROVE  Has(Needle(q), Lowercase(Encode(LiteralHit(Needle(q), r).snippet)))
<1>1. PICK needle \in Seq(Byte) : needle = Needle(q) /\ needle # <<>> /\ needle[1] # Space /\ needle[Len(needle)] # Space
  BY NeedleEnds
<1>2. PICK t \in Seq(Char) : t = r.text_utf8
  BY RowsTyped DEF IsRow
<1>3. r.text_norm_ascii = Lowercase(Encode(t)) /\ CollapseWhitespaceForDisplay(t) = t
  BY <1>2 DEF IsPlain, IsShownAsItIs
<1>4. PICK o \in Nat : o = Find(needle, r.text_norm_ascii) /\ o \in Occurrences(needle, Lowercase(Encode(t)))
  BY <1>1, <1>3, FindTyped
<1>5. PICK n \in Nat : Len(Lowercase(Encode(t))) = n /\ ByteLen(t) = n
  <2>1. ByteLen(t) \in Nat /\ Len(Lowercase(Encode(t))) = Len(Encode(t))
    BY EncodeTyped
  <2> QED BY <2>1 DEF ByteLen
<1>6. n # 0 /\ o <= n
  <2>1. Len(needle) \in Nat \ {0}
    BY <1>1
  <2>2. o \in 0 .. n - Len(needle)
    BY <1>4, <1>5 DEF Occurrences
  <2> QED BY <2>1, <2>2
<1>7. NormPlace(r, o, Len(needle)) = Place(o, Len(needle))
  <2>1. (2 * n * o + n) \div (2 * n) = o
    BY <1>6, RoundedIsExact
  <2>2. Len(r.text_norm_ascii) = n /\ ByteLen(r.text_utf8) = n
    BY <1>2, <1>3, <1>5
  <2>3. NormPlace(r, o, Len(needle)) = Place(IF n = 0 THEN 0 ELSE AtMost((2 * n * o + n) \div (2 * n), n), Len(needle))
    BY <2>2, Zenon DEF NormPlace
  <2>4. AtMost(o, n) = o
    BY <1>6 DEF AtMost
  <2> QED BY <1>6, <2>1, <2>3, <2>4, Zenon
<1>8. LiteralHit(needle, r) = MakeHit(r, Place(o, Len(needle)))
  BY <1>4, <1>7, Zenon DEF LiteralHit
<1>9. MakeHit(r, Place(o, Len(needle))).snippet = RenderWindow(t, Place(o, Len(needle)))
  BY <1>2 DEF MakeHit
<1>10. Has(needle, Lowercase(Encode(RenderWindow(t, Place(o, Len(needle))))))
  BY <1>1, <1>3, <1>4, NeedleShown
<1> QED BY <1>1, <1>8, <1>9, <1>10, Zenon

\* What an expression matches in a text, collapsed.
ShownMatch(hir, t) ==
    LET m == MatchAt(hir, Encode(t))
    IN  CollapseWhitespaceForDisplay(SubSeq(t, Cut(t, m.offset) + 1, Cut(t, m.offset + m.len)))

LEMMA RegexShown ==
    ASSUME NEW hir \in Hirs, NEW r \in Rows, Matches(hir, Encode(r.text_utf8))
    PROVE  Has(ShownMatch(hir, r.text_utf8), RegexHit(hir, r).snippet)
<1>1. PICK t \in Seq(Char) : t = r.text_utf8
  BY RowsTyped DEF IsRow
<1>2. PICK s \in Seq(Byte) : s = Encode(t) /\ Len(s) = ByteLen(t) /\ Matches(hir, s)
  BY <1>1, EncodeTyped DEF ByteLen
<1>3. PICK o \in Nat, l \in Nat : /\ o = MatchAt(hir, s).offset /\ l = MatchAt(hir, s).len
                                  /\ o + l <= Len(s) /\ MatchAt(hir, s) = Place(o, l)
  BY <1>2, MatchAtTyped
<1>4. Has(CollapseWhitespaceForDisplay(SubSeq(t, Cut(t, o) + 1, Cut(t, o + l))), RenderWindow(t, Place(o, l)))
  <2>1. o + l <= ByteLen(t)
    BY <1>2, <1>3
  <2> QED BY <2>1, MatchShown
<1>5. ShownMatch(hir, t) = CollapseWhitespaceForDisplay(SubSeq(t, Cut(t, o) + 1, Cut(t, o + l)))
  BY <1>2, <1>3, Zenon DEF ShownMatch
<1>6. RegexHit(hir, r) = MakeHit(r, Place(o, l))
  BY <1>1, <1>2, <1>3, Zenon DEF RegexHit
<1>7. MakeHit(r, Place(o, l)).snippet = RenderWindow(t, Place(o, l))
  BY <1>1 DEF MakeHit
<1> QED BY <1>1, <1>4, <1>5, <1>6, <1>7, Zenon

\* The snippet of a hit shows what was found: the match of an expression, and
\* the literal query where folding changed nothing but case and collapsing
\* nothing. The rounded offset, the context and the moves to a boundary never
\* leave part of it out.
THEOREM SnippetsShow == Spec => []SnippetShowsMatch
<1>1. Init => SnippetShowsMatch
  BY DEF Init, SnippetShowsMatch
<1>2. IndexInv /\ SnippetShowsMatch /\ [Next]_vars => SnippetShowsMatch'
  <2> SUFFICES ASSUME IndexInv, SnippetShowsMatch, [Next]_vars PROVE SnippetShowsMatch'
    OBVIOUS
  <2>0. \A d \in Docs : text[d] \in TextOf(d)
    BY DEF IndexInv
  <2>a. LiveRows \subseteq Rows
    BY <2>0, LiveRowsFinite
  <2>1. CASE UNCHANGED vars
    BY <2>1 DEF vars, indexVars, SnippetShowsMatch, Answered, RowsOfHit, LiveRows
  <2>2. CASE request' = NoRequest
    BY <2>2 DEF SnippetShowsMatch, Answered, NoRequest
  <2>3. ASSUME NEW q \in Queries, NEW limit \in Limits, LiteralSearch(q, limit) PROVE SnippetShowsMatch'
    <3>1. request' = [mode |-> "literal", query |-> q, limit |-> limit] /\ hits' = LiteralHits(q, limit) /\ UNCHANGED indexVars
      BY <2>3 DEF LiteralSearch, Answer
    <3>2. q \in Seq(Char) /\ limit \in Nat
      BY SearchAssumption
    <3>3. PICK needle \in Seq(Byte) : needle = Needle(q)
      BY <3>2, NormalizeTyped DEF Needle
    <3>4. hits' \in Seq(LiteralMakes(needle)) /\ (needle = <<>> => hits' = <<>>)
      BY <3>1, <3>2, <3>3, LiteralMade
    <3>5. ASSUME NEW k \in DOMAIN hits', NEW r \in RowsOfHit(hits[k])', IsPlain(r), IsShownAsItIs(r)
          PROVE  Has(needle, Lowercase(Encode(hits'[k].snippet)))
      <4>1. PICK h : h = hits'[k] /\ h \in LiteralMakes(needle)
        BY <3>4
      <4>2. PICK s \in WithNeedle(needle, LiveRows) : h = LiteralHit(needle, s)
        BY <4>1 DEF LiteralMakes
      <4>3. s \in LiveRows /\ s \in Rows /\ Has(needle, s.text_norm_ascii)
        BY <2>a, <4>2 DEF WithNeedle
      <4>4. HitOf(h, s)
        BY <4>2, <4>3, LiteralHitTyped
      <4>5. RowsOfHit(h) = {s}
        BY <2>0, <4>3, <4>4, HitFindsRow
      <4>6. RowsOfHit(hits[k])' = RowsOfHit(h)
        BY <3>1, <4>1 DEF RowsOfHit, LiveRows, indexVars
      <4>7. r = s
        BY <4>5, <4>6
      <4>8. needle # <<>>
        BY <3>4
      <4>9. Has(needle, Lowercase(Encode(LiteralHit(needle, s).snippet)))
        BY <3>2, <3>3, <3>5, <4>3, <4>7, <4>8, LiteralShown
      <4> QED BY <4>1, <4>2, <4>9
    <3>6. Answered("literal")' /\ ~Answered("regex")' /\ request'.query = q
      BY <3>1 DEF Answered
    <3> QED BY <3>3, <3>5, <3>6 DEF SnippetShowsMatch
  <2>4. ASSUME NEW p \in Patterns, NEW limit \in Limits, RegexSearch(p, limit) PROVE SnippetShowsMatch'
    <3>1. request' = [mode |-> "regex", query |-> p, limit |-> limit] /\ hits' = RegexHits(p, limit) /\ UNCHANGED indexVars
      BY <2>4 DEF RegexSearch, Answer
    <3>2. PICK hir \in Hirs : hir = p.hir /\ limit \in Nat
      BY SearchAssumption
    <3>3. hits' \in Seq(RegexMakes(hir))
      BY <3>1, <3>2, RegexMade
    <3>4. ASSUME NEW k \in DOMAIN hits', NEW r \in RowsOfHit(hits[k])'
          PROVE  Has(ShownMatch(hir, r.text_utf8), hits'[k].snippet)
      <4>1. PICK h : h = hits'[k] /\ h \in RegexMakes(hir)
        BY <3>3
      <4>2. PICK s \in WithMatch(hir, LiveRows) : h = RegexHit(hir, s)
        BY <4>1 DEF RegexMakes
      <4>3. s \in LiveRows /\ s \in Rows /\ Matches(hir, Encode(s.text_utf8))
        BY <2>a, <4>2 DEF WithMatch
      <4>4. HitOf(h, s)
        BY <4>2, <4>3, RegexHitTyped
      <4>5. RowsOfHit(h) = {s}
        BY <2>0, <4>3, <4>4, HitFindsRow
      <4>6. RowsOfHit(hits[k])' = RowsOfHit(h)
        BY <3>1, <4>1 DEF RowsOfHit, LiveRows, indexVars
      <4>7. r = s
        BY <4>5, <4>6
      <4>8. Has(ShownMatch(hir, s.text_utf8), RegexHit(hir, s).snippet)
        BY <4>3, RegexShown
      <4> QED BY <4>1, <4>2, <4>7, <4>8
    <3>5. Answered("regex")' /\ ~Answered("literal")' /\ request'.query.hir = hir
      BY <3>1, <3>2 DEF Answered
    <3>6. ASSUME NEW k \in DOMAIN hits', NEW r \in RowsOfHit(hits[k])'
          PROVE  LET s == Encode(r.text_utf8)
                     m == MatchAt(hir, s)
                     shown == CollapseWhitespaceForDisplay(
                                 SubSeq(r.text_utf8, Len(TakeCharsWithinBytes(r.text_utf8, m.offset)) + 1,
                                        Len(TakeCharsWithinBytes(r.text_utf8, m.offset + m.len))))
                 IN  Has(shown, hits'[k].snippet)
      BY <3>4, Zenon DEF ShownMatch, Cut
    <3> QED BY <3>5, <3>6, Zenon DEF SnippetShowsMatch
  <2>5. ASSUME NEW q \in Queries, NEW limit \in Limits, FuzzySearch(q, limit) PROVE SnippetShowsMatch'
    BY <2>5 DEF FuzzySearch, Answer, SnippetShowsMatch, Answered
  <2> QED BY <2>1, <2>2, <2>3, <2>4, <2>5, OtherSteps
<1> QED BY <1>1, <1>2, IndexStands, PTL DEF Spec

=============================================================================
