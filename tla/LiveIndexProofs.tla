-------------------------- MODULE LiveIndexProofs --------------------------
(***************************************************************************)
(* Proofs about LiveIndex, for every set of documents, every number of     *)
(* query threads and every value of the thresholds.                        *)
(***************************************************************************)
EXTENDS LiveIndex, FiniteSetTheorems, TLAPS

-----------------------------------------------------------------------------
(* The inductive invariant                                                 *)

BaseChunks(b)      == {b.chunks[i] : i \in DOMAIN b.chunks}
OneVersion(chunks) == \A c1, c2 \in chunks : c1.doc = c2.doc => c1.version = c2.version

\* A base is sorted, so that doc_ranges are exact, and holds one extraction of
\* each document.
BaseOK(b) ==
    /\ IsBase(b)
    /\ \A i, j \in DOMAIN b.chunks : i < j => ~Before(b.chunks[j], b.chunks[i])
    /\ OneVersion(BaseChunks(b))

\* The rows of a document are its own, of one extraction, and active only
\* while its status is 'ok'.
StoredOK ==
    \A d \in Docs :
        /\ \A c \in stored[d] : c.doc = d
        /\ OneVersion(stored[d])
        /\ status[d] # "ok" => ActiveChunks(d) = {}

\* Tombstones hide a document's base chunks all together or not at all, and
\* hide them when the document has rows in the overflow set.
HidesWholeDocs(b, ov) ==
    /\ OneVersion(ov.overflow)
    /\ \A i, j \in DOMAIN b.chunks :
          b.chunks[i].doc = b.chunks[j].doc /\ i \in ov.tombstones => j \in ov.tombstones
    /\ \A c \in ov.overflow : \A i \in DOMAIN b.chunks :
          b.chunks[i].doc = c.doc => i \in ov.tombstones

OverlayOK == ~OverlayLocked => HidesWholeDocs(base, overlay)

\* What a rebuild is about to publish, or has just published, is the database.
RebuildOK ==
    /\ pc = "store" => BaseChunks(loaded) = AllActiveChunks
    /\ pc = "reset" => loaded.count = base.count

\* A document is tombstoned only while the database holds it deleted.
DeletingOK == pc = "tombstone" => ActiveChunks(cur) = {}

IInv ==
    /\ TypeOK
    /\ BaseOK(base) /\ BaseOK(loaded)
    /\ StoredOK
    /\ OverlayOK
    /\ RebuildOK /\ DeletingOK
    /\ ViewMatchesDatabase

-----------------------------------------------------------------------------
(* Lemmas about the operators                                              *)

\* There are finitely many chunks, so a layout of any rows has a length.
LEMMA ChunkFinite == IsFiniteSet(Chunk)
<1> DEFINE Places == (1 .. MaxPages) \X (0 .. MaxWindows - 1)
           Keys == (Docs \X (1 .. MaxVersion)) \X Places
           f == [k \in Keys |-> [doc |-> k[1][1], version |-> k[1][2],
                                 page |-> k[2][1], ord |-> k[2][2]]]
<1>1. IsFiniteSet(1 .. MaxVersion) /\ IsFiniteSet(Places)
  <2>1. IsFiniteSet(1 .. MaxVersion) /\ IsFiniteSet(1 .. MaxPages)
    BY FS_Interval, LiveIndexAssumption
  <2>2. IsFiniteSet(0 .. MaxWindows - 1)
    <3>1. MaxWindows - 1 \in Int
      BY LiveIndexAssumption
    <3> QED BY <3>1, FS_Interval
  <2> QED BY <2>1, <2>2, FS_Product
<1>2. IsFiniteSet(Docs \X (1 .. MaxVersion))
  BY <1>1, FS_Product, LiveIndexAssumption
<1>3. IsFiniteSet(Keys)
  BY <1>1, <1>2, FS_Product
<1>4. f \in Surjection(Keys, Chunk)
  <2>1. f \in [Keys -> Chunk]
    BY DEF Chunk
  <2>2. ASSUME NEW c \in Chunk PROVE \E k \in Keys : f[k] = c
    <3> DEFINE k == <<<<c.doc, c.version>>, <<c.page, c.ord>>>>
    <3>1. k \in Keys
      BY DEF Chunk
    <3>2. f[k] = c
      BY <3>1 DEF Chunk
    <3> QED BY <3>1, <3>2
  <2> QED BY <2>1, <2>2 DEF Surjection
<1> QED BY <1>3, <1>4, FS_Surjection

\* Whatever order SQLite streams the rows in, the base holds exactly those
\* rows, sorted.
LEMMA StreamedBaseOK ==
  ASSUME NEW rows \in SUBSET Chunk, OneVersion(rows),
         NEW b \in StreamedBases(rows)
  PROVE  BaseOK(b) /\ BaseChunks(b) = rows
<1>1. Cardinality(rows) \in Nat
  BY ChunkFinite, FS_Subset, FS_CardinalityType
<1>2. PICK t \in [0 .. Cardinality(rows) - 1 -> rows] :
         /\ \A c \in rows : \E i \in DOMAIN t : t[i] = c
         /\ \A i, j \in DOMAIN t : i < j => ~Before(t[j], t[i])
         /\ b = [count |-> Cardinality(rows), chunks |-> t]
  BY DEF StreamedBases
<1>3. b.count = Cardinality(rows) /\ b.chunks = t
  BY <1>2
<1>4. BaseChunks(b) = rows
  BY <1>2, <1>3 DEF BaseChunks
<1>5. b.chunks \in [0 .. b.count - 1 -> Chunk]
  BY <1>2, <1>3
<1> QED BY <1>1, <1>2, <1>3, <1>4, <1>5 DEF BaseOK, IsBase

\* doc_ranges is exact: the contiguous range of a document holds all of its
\* chunks and no other document's.
LEMMA DocRangeExact ==
  ASSUME NEW b, BaseOK(b), NEW d \in Docs
  PROVE  DocRange(b, d) = {i \in DOMAIN b.chunks : b.chunks[i].doc = d}
<1>1. DOMAIN b.chunks \subseteq Int
  BY DEF BaseOK, IsBase
<1>2. ASSUME NEW i \in DOMAIN b.chunks PROVE b.chunks[i].doc \in Nat
  <2>1. b.chunks[i] \in Chunk
    BY DEF BaseOK, IsBase
  <2> QED BY <2>1, LiveIndexAssumption DEF Chunk
<1>3. ASSUME NEW i \in DOMAIN b.chunks, b.chunks[i].doc = d
      PROVE  i \in DocRange(b, d)
  BY <1>1, <1>3 DEF DocRange
<1>4. ASSUME NEW i \in DocRange(b, d)
      PROVE  b.chunks[i].doc = d
  <2>1. PICK first, last \in DOMAIN b.chunks :
           /\ first <= i /\ i <= last
           /\ b.chunks[first].doc = d /\ b.chunks[last].doc = d
    BY DEF DocRange
  <2>2. i \in DOMAIN b.chunks
    BY DEF DocRange
  <2>3. d <= b.chunks[i].doc
    <3>1. CASE first = i BY <1>2, <2>1, <2>2, <3>1
    <3>2. CASE first < i
      BY <1>2, <2>1, <2>2, <3>2 DEF BaseOK, Before
    <3> QED BY <1>1, <2>1, <2>2, <3>1, <3>2
  <2>4. b.chunks[i].doc <= d
    <3>1. CASE last = i BY <1>2, <2>1, <2>2, <3>1
    <3>2. CASE i < last
      BY <1>2, <2>1, <2>2, <3>2 DEF BaseOK, Before
    <3> QED BY <1>1, <2>1, <2>2, <3>1, <3>2
  <2> QED BY <1>2, <2>2, <2>3, <2>4, LiveIndexAssumption
<1> QED BY <1>3, <1>4 DEF DocRange

\* A bitset sized to a base has a word for each of its chunks.
LEMMA CapacityCovers ==
  ASSUME NEW len \in Nat, NEW i \in 0 .. len - 1
  PROVE  i < WordCapacity(len)
BY DEF WordCapacity, BITS_PER_WORD

\* tombstone_doc_in_base: publishing d hides exactly d's chunks of the base the
\* overlay was built for.
LEMMA SetBitsExact ==
  ASSUME NEW b, BaseOK(b), NEW ov, ov.len = b.count, NEW d \in Docs
  PROVE  SetBits(ov, DocRange(b, d)) =
            ov.tombstones \cup {i \in DOMAIN b.chunks : b.chunks[i].doc = d}
<1>1. DOMAIN b.chunks = 0 .. b.count - 1 /\ b.count \in Nat
  BY DEF BaseOK, IsBase
<1>2. \A i \in DOMAIN b.chunks : i < WordCapacity(ov.len)
  BY <1>1, CapacityCovers
<1> QED BY <1>2, DocRangeExact DEF SetBits

\* A fresh overlay on a base of rows shows those rows and nothing else.
LEMMA FreshShowsBase ==
  ASSUME NEW b, NEW n
  PROVE  Visible(b, NewOverlay(n)) = BaseChunks(b)
BY DEF Visible, BaseVisible, IsTombstoned, NewOverlay, BaseChunks

\* The active chunks of a document are its own, and of one extraction.
LEMMA ActiveChunksOK ==
  ASSUME TypeOK, StoredOK
  PROVE  /\ \A d \in Docs : /\ ActiveChunks(d) \subseteq Chunk
                            /\ \A c \in ActiveChunks(d) : c.doc = d
                            /\ OneVersion(ActiveChunks(d))
                            /\ Searchable(d) = ActiveChunks(d)
         /\ AllActiveChunks \in SUBSET Chunk
         /\ OneVersion(AllActiveChunks)
         /\ \A d \in Docs : OfDoc(AllActiveChunks, d) = Searchable(d)
<1>1. \A d \in Docs : /\ ActiveChunks(d) \subseteq Chunk
                      /\ \A c \in ActiveChunks(d) : c.doc = d
                      /\ OneVersion(ActiveChunks(d))
                      /\ Searchable(d) = ActiveChunks(d)
  BY DEF TypeOK, DatabaseTypeOK, StoredOK, ActiveChunks, OneVersion, Searchable
<1>2. AllActiveChunks \in SUBSET Chunk
  BY <1>1 DEF AllActiveChunks
<1>3. \A d \in Docs : OfDoc(AllActiveChunks, d) = Searchable(d)
  BY <1>1 DEF AllActiveChunks, OfDoc, Searchable
<1>4. OneVersion(AllActiveChunks)
  <2> SUFFICES ASSUME NEW c1 \in AllActiveChunks, NEW c2 \in AllActiveChunks,
                      c1.doc = c2.doc
               PROVE  c1.version = c2.version
    BY DEF OneVersion
  <2>1. PICK d1 \in Docs : c1 \in ActiveChunks(d1)
    BY DEF AllActiveChunks
  <2>2. PICK d2 \in Docs : c2 \in ActiveChunks(d2)
    BY DEF AllActiveChunks
  <2>3. d1 = d2
    BY <1>1, <2>1, <2>2
  <2> QED BY <1>1, <2>1, <2>2, <2>3 DEF OneVersion
<1> QED BY <1>1, <1>2, <1>3, <1>4

-----------------------------------------------------------------------------
(* What one overlay update does                                            *)

IsOverlay(b, ov) ==
    /\ ov \in [len : Nat, tombstones : SUBSET Nat, overflow : SUBSET Chunk]
    /\ ov.tombstones \subseteq 0 .. ov.len - 1
    /\ ov.len = b.count

\* Publishing d hides what was shown of d, shows its new chunks - none when it
\* is deleted, empty or unreadable - and leaves every other document alone.
LEMMA PublishOne ==
  ASSUME NEW b, BaseOK(b), NEW ov, IsOverlay(b, ov), HidesWholeDocs(b, ov),
         NEW d \in Docs,
         NEW chunks \in SUBSET Chunk, OneVersion(chunks), \A c \in chunks : c.doc = d,
         NEW new, new = OverlayForUpsert(ov, d, chunks, b)
  PROVE  /\ IsOverlay(b, new)
         /\ HidesWholeDocs(b, new)
         /\ OfDoc(Visible(b, new), d) = chunks
         /\ \A e \in Docs \ {d} : OfDoc(Visible(b, new), e) = OfDoc(Visible(b, ov), e)
<1> DEFINE mine == {i \in DOMAIN b.chunks : b.chunks[i].doc = d}
<1>1. new = [ov EXCEPT !.tombstones = ov.tombstones \cup mine,
                       !.overflow   = DropDoc(ov.overflow, d) \cup chunks]
  <2>1. SetBits(ov, DocRange(b, d)) = ov.tombstones \cup mine
    BY SetBitsExact DEF IsOverlay
  <2> HIDE DEF mine
  <2>2. CASE chunks = {}
    BY <2>1, <2>2 DEF OverlayForUpsert, TombstoneDoc, IsOverlay
  <2>3. CASE chunks # {}
    BY <2>1, <2>3 DEF OverlayForUpsert, ModifyDoc, TombstoneDoc, IsOverlay
  <2> QED BY <2>2, <2>3
<1>2. /\ new.len = ov.len
      /\ new.tombstones = ov.tombstones \cup mine
      /\ new.overflow = DropDoc(ov.overflow, d) \cup chunks
  BY <1>1 DEF IsOverlay
<1>3. mine \subseteq 0 .. b.count - 1 /\ mine \subseteq Nat
  BY DEF BaseOK, IsBase
<1>4. IsOverlay(b, new)
  <2> HIDE DEF mine
  <2>1. new.tombstones \subseteq 0 .. new.len - 1
    BY <1>2, <1>3 DEF IsOverlay
  <2>2. new \in [len : Nat, tombstones : SUBSET Nat, overflow : SUBSET Chunk]
    <3>1. ov.tombstones \cup mine \in SUBSET Nat
      BY <1>3 DEF IsOverlay
    <3>2. DropDoc(ov.overflow, d) \cup chunks \in SUBSET Chunk
      BY DEF IsOverlay, DropDoc
    <3> QED BY <1>1, <3>1, <3>2 DEF IsOverlay
  <2>3. new.len = b.count
    BY <1>2 DEF IsOverlay
  <2> QED BY <2>1, <2>2, <2>3 DEF IsOverlay
<1>5. HidesWholeDocs(b, new)
  BY <1>2 DEF HidesWholeDocs, OneVersion, DropDoc
<1>6. OfDoc(Visible(b, new), d) = chunks
  BY <1>2 DEF OfDoc, Visible, BaseVisible, IsTombstoned, DropDoc
<1>7. ASSUME NEW e \in Docs \ {d}
      PROVE  OfDoc(Visible(b, new), e) = OfDoc(Visible(b, ov), e)
  BY <1>2 DEF OfDoc, Visible, BaseVisible, IsTombstoned, DropDoc
<1> QED BY <1>4, <1>5, <1>6, <1>7

\* A pair that hides whole documents shows one extraction of each.
LEMMA OneVersionShown ==
  ASSUME NEW b, BaseOK(b), NEW ov, HidesWholeDocs(b, ov)
  PROVE  OneVersion(Visible(b, ov))
<1> SUFFICES ASSUME NEW c1 \in Visible(b, ov), NEW c2 \in Visible(b, ov), c1.doc = c2.doc
             PROVE  c1.version = c2.version
  BY DEF OneVersion
<1>1. CASE c1 \in ov.overflow /\ c2 \in ov.overflow
  BY <1>1 DEF HidesWholeDocs, OneVersion
<1>2. CASE c1 \in BaseVisible(b, ov) /\ c2 \in BaseVisible(b, ov)
  BY <1>2 DEF BaseOK, OneVersion, BaseChunks, BaseVisible
<1>3. ~(c1 \in BaseVisible(b, ov) /\ c2 \in ov.overflow)
  BY DEF BaseVisible, IsTombstoned, HidesWholeDocs
<1>4. ~(c2 \in BaseVisible(b, ov) /\ c1 \in ov.overflow)
  BY DEF BaseVisible, IsTombstoned, HidesWholeDocs
<1> QED BY <1>1, <1>2, <1>3, <1>4 DEF Visible

\* A new overlay hides nothing.
LEMMA FreshHidesNothing ==
  ASSUME NEW b, BaseOK(b), NEW n, n = b.count
  PROVE  IsOverlay(b, NewOverlay(n)) /\ HidesWholeDocs(b, NewOverlay(n))
<1>1. b.count \in Nat
  BY DEF BaseOK, IsBase
<1> QED BY <1>1 DEF NewOverlay, IsOverlay, HidesWholeDocs, OneVersion

-----------------------------------------------------------------------------
(* The invariant holds initially and is preserved by every action          *)

\* BaseIndex::empty() is a base, and holds no chunks.
LEMMA EmptyBaseOK == BaseOK(EmptyBase) /\ BaseChunks(EmptyBase) = {}
<1>1. EmptyBase.count = 0 /\ EmptyBase.chunks = [i \in {} |-> 0]
  BY DEF EmptyBase
<1>2. 0 .. EmptyBase.count - 1 = {}
  BY <1>1
<1> QED BY <1>1, <1>2 DEF BaseOK, IsBase, OneVersion, BaseChunks

\* An index opened on an empty database satisfies the invariant.
LEMMA InitIInv == Init => IInv
<1> SUFFICES ASSUME Init PROVE IInv
  OBVIOUS
<1>1. base = EmptyBase /\ loaded = EmptyBase /\ overlay = NewOverlay(0) /\ pc = "recv"
  BY DEF Init
<1>2. EmptyBase.count = 0
  BY DEF EmptyBase
<1>3. IsOverlay(base, overlay) /\ HidesWholeDocs(base, overlay)
  BY <1>1, <1>2, EmptyBaseOK, FreshHidesNothing
<1>4. TypeOK
  <2>1. DatabaseTypeOK
    <3>1. version \in 0 .. MaxVersion
      BY LiveIndexAssumption DEF Init
    <3> QED BY <3>1 DEF Init, DatabaseTypeOK
  <2>2. IndexTypeOK
    BY <1>1, <1>3, EmptyBaseOK DEF IndexTypeOK, IsOverlay, BaseOK
  <2>3. WriterTypeOK
    BY DEF Init, WriterTypeOK
  <2>4. ReadersTypeOK
    BY EmptyBaseOK DEF Init, ReadersTypeOK, IdleReader, BaseOK
  <2> QED BY <2>1, <2>2, <2>3, <2>4 DEF TypeOK
<1>5. StoredOK
  BY DEF Init, StoredOK, OneVersion, ActiveChunks
<1>6. ViewMatchesDatabase
  <2>1. \A d \in Docs : Searchable(d) = {}
    BY DEF Init, Searchable
  <2>2. \A d \in Docs : Shown(d) = {}
    BY <1>1, FreshShowsBase, EmptyBaseOK DEF Shown, CurrentOverlay, OverlayLocked, OfDoc
  <2> QED BY <2>1, <2>2 DEF ViewMatchesDatabase
<1> QED BY <1>1, <1>3, <1>4, <1>5, <1>6, EmptyBaseOK DEF IInv, OverlayOK, RebuildOK, DeletingOK

\* A committed upsert changes only the rows of the document in hand, which is
\* unsettled from then on; what is shown does not change.
LEMMA CommitDocIInv ==
  ASSUME IInv, NEW d \in Docs, NEW st \in DocStatus,
         NEW places \in SUBSET ((1 .. MaxPages) \X (0 .. MaxWindows - 1)),
         st # "ok" => places = {}, CommitDoc(d, st, places)
  PROVE  IInv'
<1> DEFINE new == ChunksAt(d, version + 1, places)
<1>1. /\ pc = "recv" /\ pc' = "publish" /\ cur' = d
      /\ base' = base /\ overlay' = overlay /\ loaded' = loaded /\ reader' = reader
      /\ unpublished' = unpublished
  BY DEF CommitDoc, indexVars, ghostVars
<1>2. /\ version' = version + 1 /\ version + 1 \in 1 .. MaxVersion
      /\ stored' = [stored EXCEPT ![d] = new]
      /\ status' = [status EXCEPT ![d] = st]
      /\ active' = [active EXCEPT ![d] = TRUE]
  BY LiveIndexAssumption DEF CommitDoc, IInv, TypeOK, DatabaseTypeOK
<1>3. /\ new \in SUBSET Chunk /\ OneVersion(new) /\ (\A c \in new : c.doc = d)
      /\ st # "ok" => new = {}
  BY <1>2, LiveIndexAssumption DEF Chunk, OneVersion, ChunksAt
<1> HIDE DEF new
<1>4. TypeOK'
  <2>1. DatabaseTypeOK'
    BY <1>2, <1>3, LiveIndexAssumption DEF IInv, TypeOK, DatabaseTypeOK
  <2>2. IndexTypeOK'
    BY <1>1 DEF IInv, TypeOK, IndexTypeOK, OverlayLocked, IsBase
  <2>3. WriterTypeOK'
    BY <1>1 DEF IInv, TypeOK, WriterTypeOK, CommitDoc, ghostVars
  <2>4. ReadersTypeOK'
    BY <1>1 DEF IInv, TypeOK, ReadersTypeOK, IsBase
  <2> QED BY <2>1, <2>2, <2>3, <2>4 DEF TypeOK
<1>5. StoredOK'
  BY <1>2, <1>3 DEF IInv, TypeOK, DatabaseTypeOK, StoredOK, ActiveChunks
<1>6. ViewMatchesDatabase'
  <2> SUFFICES ASSUME NEW e \in Docs, Settled(e)' PROVE Shown(e)' = Searchable(e)'
    BY DEF ViewMatchesDatabase
  <2>1. e # d /\ Settled(e)
    BY <1>1 DEF Settled
  <2>2. Searchable(e)' = Searchable(e)
    BY <1>2, <2>1 DEF Searchable, ActiveChunks, IInv, TypeOK, DatabaseTypeOK
  <2>3. Shown(e)' = Shown(e)
    BY <1>1 DEF Shown, CurrentOverlay, OverlayLocked
  <2> QED BY <2>1, <2>2, <2>3 DEF IInv, ViewMatchesDatabase
<1> QED BY <1>1, <1>4, <1>5, <1>6 
        DEF IInv, OverlayOK, OverlayLocked, RebuildOK, DeletingOK

\* A committed deletion deactivates the rows of the document in hand and
\* leaves the index alone.
LEMMA CommitDeleteIInv ==
  ASSUME IInv, NEW d \in Docs, CommitDelete(d)
  PROVE  IInv'
<1>1. /\ pc = "recv" /\ pc' = "tombstone" /\ cur' = d
      /\ base' = base /\ overlay' = overlay /\ loaded' = loaded /\ reader' = reader
      /\ unpublished' = unpublished
      /\ status' = [status EXCEPT ![d] = "deleted"]
      /\ active' = [active EXCEPT ![d] = FALSE]
      /\ stored' = stored /\ version' = version
  BY DEF CommitDelete, indexVars, ghostVars
<1>2. TypeOK'
  <2>1. DatabaseTypeOK'
    BY <1>1 DEF IInv, TypeOK, DatabaseTypeOK, DocStatus
  <2>2. IndexTypeOK'
    BY <1>1 DEF IInv, TypeOK, IndexTypeOK, OverlayLocked, IsBase
  <2>3. WriterTypeOK'
    BY <1>1 DEF IInv, TypeOK, WriterTypeOK, CommitDelete, ghostVars
  <2>4. ReadersTypeOK'
    BY <1>1 DEF IInv, TypeOK, ReadersTypeOK, IsBase
  <2> QED BY <2>1, <2>2, <2>3, <2>4 DEF TypeOK
<1>3. StoredOK'
  BY <1>1 DEF IInv, TypeOK, DatabaseTypeOK, StoredOK, ActiveChunks
<1>4. ViewMatchesDatabase'
  <2> SUFFICES ASSUME NEW e \in Docs, Settled(e)' PROVE Shown(e)' = Searchable(e)'
    BY DEF ViewMatchesDatabase
  <2>1. e # d /\ Settled(e)
    BY <1>1 DEF Settled
  <2>2. Searchable(e)' = Searchable(e)
    BY <1>1, <2>1 DEF Searchable, ActiveChunks, IInv, TypeOK, DatabaseTypeOK
  <2>3. Shown(e)' = Shown(e)
    BY <1>1 DEF Shown, CurrentOverlay, OverlayLocked
  <2> QED BY <2>1, <2>2, <2>3 DEF IInv, ViewMatchesDatabase
<1>5. DeletingOK'
  BY <1>1 DEF IInv, TypeOK, DatabaseTypeOK, DeletingOK, ActiveChunks
<1> QED BY <1>1, <1>2, <1>3, <1>4, <1>5 DEF IInv, OverlayOK, OverlayLocked, RebuildOK

\* The three overlay updates of the writer, once the rows are in the database.
LEMMA PublishIInv ==
  ASSUME IInv, ~OverlayLocked, pc' = "check",
         overlay' = OverlayForUpsert(overlay, cur, ActiveChunks(cur), base),
         unpublished' = unpublished \ {cur},
         UNCHANGED <<dbVars, base, cur, loaded, reader, overdue>>
  PROVE  IInv'
<1>1. /\ IsOverlay(base, overlay) /\ HidesWholeDocs(base, overlay)
      /\ BaseOK(base) /\ cur \in Docs /\ ~OverlayLocked'
  BY DEF IInv, TypeOK, IndexTypeOK, WriterTypeOK, IsOverlay, OverlayOK, OverlayLocked
<1>2. ActiveChunks(cur) \in SUBSET Chunk /\ OneVersion(ActiveChunks(cur))
      /\ \A c \in ActiveChunks(cur) : c.doc = cur
  BY <1>1, ActiveChunksOK DEF IInv
<1>3. /\ IsOverlay(base, overlay') /\ HidesWholeDocs(base, overlay')
      /\ OfDoc(Visible(base, overlay'), cur) = ActiveChunks(cur)
      /\ \A e \in Docs \ {cur} :
            OfDoc(Visible(base, overlay'), e) = OfDoc(Visible(base, overlay), e)
  BY <1>1, <1>2, PublishOne
<1>4. /\ version' = version /\ status' = status /\ stored' = stored /\ active' = active
      /\ base' = base /\ cur' = cur /\ loaded' = loaded /\ reader' = reader
      /\ overdue' = overdue
  BY DEF dbVars
<1>5. TypeOK'
  <2>1. DatabaseTypeOK'
    BY <1>4 DEF IInv, TypeOK, DatabaseTypeOK
  <2>2. IndexTypeOK'
    BY <1>3, <1>4 DEF IInv, TypeOK, IndexTypeOK, IsBase, IsOverlay
  <2>3. WriterTypeOK'
    BY <1>4 DEF IInv, TypeOK, WriterTypeOK
  <2>4. ReadersTypeOK'
    BY <1>4 DEF IInv, TypeOK, ReadersTypeOK, IsBase
  <2> QED BY <2>1, <2>2, <2>3, <2>4 DEF TypeOK
<1>6. StoredOK'
  BY <1>4 DEF IInv, StoredOK, ActiveChunks
<1>7. ViewMatchesDatabase'
  <2> SUFFICES ASSUME NEW e \in Docs, Settled(e)' PROVE Shown(e)' = Searchable(e)'
    BY DEF ViewMatchesDatabase
  <2>1. Searchable(e)' = Searchable(e)
    BY <1>4 DEF Searchable, ActiveChunks
  <2>2. Shown(e)' = OfDoc(Visible(base, overlay'), e)
    BY <1>1, <1>4 DEF Shown, CurrentOverlay
  <2>3. CASE e = cur
    BY <1>3, <2>1, <2>2, <2>3, ActiveChunksOK DEF IInv
  <2>4. CASE e # cur
    <3>1. Settled(e)
      BY <2>4 DEF Settled
    <3>2. Shown(e) = OfDoc(Visible(base, overlay), e)
      BY DEF Shown, CurrentOverlay
    <3> QED BY <1>3, <2>1, <2>2, <2>4, <3>1, <3>2 DEF IInv, ViewMatchesDatabase
  <2> QED BY <2>3, <2>4
<1>8. OverlayOK'
  BY <1>3, <1>4 DEF OverlayOK
<1>9. BaseOK(base)' /\ BaseOK(loaded)' /\ RebuildOK'
  BY <1>4 DEF IInv, RebuildOK
<1> QED BY <1>5, <1>6, <1>7, <1>8, <1>9 DEF IInv, DeletingOK

\* Steps of the writer that touch neither the database nor the index.
LEMMA WriterMovesIInv ==
  ASSUME IInv, ~OverlayLocked,
         pc' \in {"recv", "check", "rebuild"},
         unpublished' \subseteq Docs, unpublished \subseteq unpublished',
         pc \in {"publish", "tombstone"} => cur \in unpublished',
         overdue' \in BOOLEAN,
         UNCHANGED <<dbVars, indexVars, cur, loaded, reader>>
  PROVE  IInv'
<1>1. /\ version' = version /\ status' = status /\ stored' = stored /\ active' = active
      /\ base' = base /\ overlay' = overlay
      /\ cur' = cur /\ loaded' = loaded /\ reader' = reader /\ ~OverlayLocked'
  BY DEF dbVars, indexVars, OverlayLocked
<1>2. TypeOK'
  <2>1. DatabaseTypeOK'
    BY <1>1 DEF IInv, TypeOK, DatabaseTypeOK
  <2>2. IndexTypeOK'
    BY <1>1 DEF IInv, TypeOK, IndexTypeOK, IsBase
  <2>3. WriterTypeOK'
    BY <1>1 DEF IInv, TypeOK, WriterTypeOK
  <2>4. ReadersTypeOK'
    BY <1>1 DEF IInv, TypeOK, ReadersTypeOK, IsBase
  <2> QED BY <2>1, <2>2, <2>3, <2>4 DEF TypeOK
<1>3. StoredOK'
  BY <1>1 DEF IInv, StoredOK, ActiveChunks
<1>4. ViewMatchesDatabase'
  <2> SUFFICES ASSUME NEW e \in Docs, Settled(e)' PROVE Shown(e)' = Searchable(e)'
    BY DEF ViewMatchesDatabase
  <2>1. Searchable(e)' = Searchable(e) /\ Shown(e)' = Shown(e)
    BY <1>1 DEF Searchable, ActiveChunks, Shown, CurrentOverlay
  <2>2. Settled(e)
    BY <1>1 DEF Settled
  <2> QED BY <2>1, <2>2 DEF IInv, ViewMatchesDatabase
<1>5. OverlayOK' /\ BaseOK(base)' /\ BaseOK(loaded)' /\ RebuildOK'
  BY <1>1 DEF IInv, OverlayOK, RebuildOK, OverlayLocked
<1> QED BY <1>2, <1>3, <1>4, <1>5 DEF IInv, DeletingOK

\* The base a rebuild builds holds exactly the active rows in SQLite, and the
\* writer commits nothing before it is published.
LEMMA LoadNewBaseIInv == ASSUME IInv, LoadNewBase PROVE IInv'
<1>1. /\ AllActiveChunks \in SUBSET Chunk /\ OneVersion(AllActiveChunks)
  BY ActiveChunksOK DEF IInv
<1>2. BaseOK(loaded') /\ BaseChunks(loaded') = AllActiveChunks
  BY <1>1, StreamedBaseOK DEF LoadNewBase
<1>3. /\ version' = version /\ status' = status /\ stored' = stored /\ active' = active
      /\ base' = base /\ overlay' = overlay /\ cur' = cur /\ reader' = reader
      /\ unpublished' = unpublished /\ overdue' = overdue
      /\ pc = "rebuild" /\ pc' = "store"
  BY DEF LoadNewBase, dbVars, indexVars, ghostVars
<1>4. TypeOK'
  <2>1. DatabaseTypeOK'
    BY <1>3 DEF IInv, TypeOK, DatabaseTypeOK
  <2>2. IndexTypeOK'
    BY <1>2, <1>3 DEF IInv, TypeOK, IndexTypeOK, IsBase, BaseOK, OverlayLocked
  <2>3. WriterTypeOK'
    BY <1>3 DEF IInv, TypeOK, WriterTypeOK
  <2>4. ReadersTypeOK'
    BY <1>3 DEF IInv, TypeOK, ReadersTypeOK, IsBase
  <2> QED BY <2>1, <2>2, <2>3, <2>4 DEF TypeOK
<1>5. StoredOK'
  BY <1>3 DEF IInv, StoredOK, ActiveChunks
<1>6. ViewMatchesDatabase'
  BY <1>3 DEF IInv, ViewMatchesDatabase, Settled, Shown, CurrentOverlay, OverlayLocked,
              Searchable, ActiveChunks
<1>7. OverlayOK'
  BY <1>3 DEF IInv, OverlayOK, OverlayLocked
<1>8. RebuildOK'
  BY <1>2, <1>3 DEF RebuildOK, AllActiveChunks, ActiveChunks
<1>9. BaseOK(base)' /\ BaseOK(loaded)'
  BY <1>2, <1>3 DEF IInv
<1> QED BY <1>3, <1>4, <1>5, <1>6, <1>7, <1>8, <1>9 DEF IInv, DeletingOK

\* Publishing the rebuilt base under the write lock: the pair a reader can
\* take next shows what the database holds.
LEMMA StoreBaseIInv == ASSUME IInv, StoreBase PROVE IInv'
<1>1. /\ version' = version /\ status' = status /\ stored' = stored /\ active' = active
      /\ base' = loaded /\ loaded' = loaded /\ overlay' = overlay /\ cur' = cur
      /\ reader' = reader /\ unpublished' = {} /\ overdue' = overdue
      /\ pc = "store" /\ pc' = "reset"
  BY DEF StoreBase, dbVars
<1>2. BaseOK(loaded) /\ BaseChunks(loaded) = AllActiveChunks
  BY <1>1 DEF IInv, RebuildOK
<1>3. TypeOK'
  <2>1. DatabaseTypeOK'
    BY <1>1 DEF IInv, TypeOK, DatabaseTypeOK
  <2>2. IndexTypeOK'
    BY <1>1 DEF IInv, TypeOK, IndexTypeOK, IsBase, OverlayLocked
  <2>3. WriterTypeOK'
    BY <1>1 DEF IInv, TypeOK, WriterTypeOK
  <2>4. ReadersTypeOK'
    BY <1>1 DEF IInv, TypeOK, ReadersTypeOK, IsBase
  <2> QED BY <2>1, <2>2, <2>3, <2>4 DEF TypeOK
<1>4. StoredOK'
  BY <1>1 DEF IInv, StoredOK, ActiveChunks
<1>5. ViewMatchesDatabase'
  <2> SUFFICES ASSUME NEW e \in Docs PROVE Shown(e)' = Searchable(e)'
    BY DEF ViewMatchesDatabase
  <2>1. Searchable(e)' = Searchable(e)
    BY <1>1 DEF Searchable, ActiveChunks
  <2>2. Shown(e)' = OfDoc(Visible(loaded, NewOverlay(loaded.count)), e)
    BY <1>1 DEF Shown, CurrentOverlay, OverlayLocked
  <2>3. Shown(e)' = OfDoc(AllActiveChunks, e)
    BY <1>2, <2>2, FreshShowsBase
  <2> QED BY <2>1, <2>3, ActiveChunksOK DEF IInv
<1>6. OverlayOK' /\ RebuildOK' /\ BaseOK(base)' /\ BaseOK(loaded)'
  BY <1>1, <1>2 DEF OverlayOK, OverlayLocked, RebuildOK
<1> QED BY <1>1, <1>3, <1>4, <1>5, <1>6 DEF IInv, DeletingOK

\* Replacing the overlay under the write lock leaves what the pair shows
\* unchanged: readers saw none of the intermediate state.
LEMMA ResetOverlayIInv == ASSUME IInv, ResetOverlay PROVE IInv'
<1>1. /\ version' = version /\ status' = status /\ stored' = stored /\ active' = active
      /\ base' = base /\ loaded' = EmptyBase /\ overlay' = NewOverlay(loaded.count)
      /\ cur' = cur /\ reader' = reader
      /\ unpublished' = unpublished /\ overdue' = overdue
      /\ pc = "reset" /\ pc' = "recv"
  BY DEF ResetOverlay, dbVars, ghostVars
<1>2. IsOverlay(base, overlay') /\ HidesWholeDocs(base, overlay') /\ BaseOK(base)
  BY <1>1, FreshHidesNothing DEF IInv, RebuildOK
<1>3. TypeOK'
  <2>1. DatabaseTypeOK'
    BY <1>1 DEF IInv, TypeOK, DatabaseTypeOK
  <2>2. IndexTypeOK'
    BY <1>1, <1>2, EmptyBaseOK DEF IInv, TypeOK, IndexTypeOK, IsBase, BaseOK, IsOverlay
  <2>3. WriterTypeOK'
    BY <1>1 DEF IInv, TypeOK, WriterTypeOK
  <2>4. ReadersTypeOK'
    BY <1>1 DEF IInv, TypeOK, ReadersTypeOK, IsBase
  <2> QED BY <2>1, <2>2, <2>3, <2>4 DEF TypeOK
<1>4. StoredOK'
  BY <1>1 DEF IInv, StoredOK, ActiveChunks
<1>5. ViewMatchesDatabase'
  <2> SUFFICES ASSUME NEW e \in Docs, Settled(e)' PROVE Shown(e)' = Searchable(e)'
    BY DEF ViewMatchesDatabase
  <2>1. Searchable(e)' = Searchable(e) /\ Settled(e)
    BY <1>1 DEF Searchable, ActiveChunks, Settled
  <2>2. Shown(e)' = OfDoc(BaseChunks(base), e)
    BY <1>1, FreshShowsBase DEF Shown, CurrentOverlay, OverlayLocked
  <2>3. Shown(e) = OfDoc(BaseChunks(base), e)
    BY <1>1, FreshShowsBase DEF Shown, CurrentOverlay, OverlayLocked
  <2> QED BY <2>1, <2>2, <2>3 DEF IInv, ViewMatchesDatabase
<1>6. OverlayOK' /\ RebuildOK' /\ BaseOK(base)' /\ BaseOK(loaded)'
  BY <1>1, <1>2, EmptyBaseOK DEF OverlayOK, RebuildOK
<1> QED BY <1>1, <1>3, <1>4, <1>5, <1>6 DEF IInv, DeletingOK

\* Everything but the readers is left alone.
LEMMA ReadersIInv ==
  ASSUME IInv, ReadersTypeOK', UNCHANGED <<dbVars, indexVars, writerVars, ghostVars>>
  PROVE  IInv'
<1>1. /\ version' = version /\ status' = status /\ stored' = stored /\ active' = active
      /\ base' = base /\ overlay' = overlay /\ pc' = pc
      /\ cur' = cur /\ loaded' = loaded
      /\ unpublished' = unpublished /\ overdue' = overdue
  BY DEF dbVars, indexVars, writerVars, ghostVars
<1>2. TypeOK'
  BY <1>1 DEF IInv, TypeOK, DatabaseTypeOK, IndexTypeOK, WriterTypeOK, IsBase, OverlayLocked
<1>3. StoredOK'
  BY <1>1 DEF IInv, StoredOK, ActiveChunks
<1>4. ViewMatchesDatabase'
  BY <1>1 DEF IInv, ViewMatchesDatabase, Settled, Shown, CurrentOverlay, OverlayLocked,
              Searchable, ActiveChunks
<1>5. OverlayOK' /\ RebuildOK' /\ DeletingOK' /\ BaseOK(base)' /\ BaseOK(loaded)'
  BY <1>1 DEF IInv, OverlayOK, OverlayLocked, RebuildOK, DeletingOK, AllActiveChunks,
              ActiveChunks
<1> QED BY <1>2, <1>3, <1>4, <1>5 DEF IInv

\* Queries change nothing but their own thread.
LEMMA QueryIInv == ASSUME IInv, Query PROVE IInv'
<1>1. ASSUME NEW r \in Readers, LoadBase(r) PROVE ReadersTypeOK'
  BY <1>1 DEF LoadBase, IInv, TypeOK, IndexTypeOK, ReadersTypeOK, IsBase
<1>2. ASSUME NEW r \in Readers, SearchOverlay(r) PROVE ReadersTypeOK'
  <2> DEFINE hits == Visible(reader[r].snap, overlay)
             band == FilenameBand(reader[r].snap, overlay)
  <2>0. \A i \in DOMAIN reader[r].snap.chunks : reader[r].snap.chunks[i] \in Chunk
    BY DEF IInv, TypeOK, ReadersTypeOK, IsBase
  <2>1. hits \subseteq Chunk
    <3>1. overlay.overflow \subseteq Chunk
      BY DEF IInv, TypeOK, IndexTypeOK
    <3> QED BY <2>0, <3>1 DEF Visible, BaseVisible
  <2>2. band \subseteq Docs
    <3>1. \A c \in Chunk : c.doc \in Docs
      BY DEF Chunk
    <3> QED BY <2>0, <3>1 DEF FilenameBand
  <2>3. reader' = [reader EXCEPT ![r] = [phase |-> "answered", snap |-> EmptyBase,
                                         hits |-> hits, band |-> band]]
    BY <1>2 DEF SearchOverlay
  <2> HIDE DEF hits, band
  <2> QED BY <2>1, <2>2, <2>3, EmptyBaseOK DEF IInv, TypeOK, ReadersTypeOK, BaseOK
<1>3. UNCHANGED <<dbVars, indexVars, writerVars, ghostVars>>
  BY DEF Query, LoadBase, SearchOverlay
<1> QED BY <1>1, <1>2, <1>3, ReadersIInv DEF Query

\* A crash at any point, followed by IndexState::new from the database,
\* restores the invariant whatever was lost.
LEMMA RestartIInv == ASSUME IInv, Restart PROVE IInv'
<1>1. /\ version' = version /\ status' = status /\ stored' = stored /\ active' = active
      /\ loaded' = EmptyBase /\ overlay' = NewOverlay(base'.count)
      /\ cur' = cur /\ reader' = [r \in Readers |-> IdleReader]
      /\ unpublished' = {} /\ overdue' = FALSE /\ pc' = "recv"
  BY DEF Restart, dbVars
<1>2. BaseOK(base') /\ BaseChunks(base') = AllActiveChunks
  BY StreamedBaseOK, ActiveChunksOK DEF Restart, IInv
<1>3. IsOverlay(base', overlay') /\ HidesWholeDocs(base', overlay')
  BY <1>1, <1>2, FreshHidesNothing
<1>4. TypeOK'
  <2>1. DatabaseTypeOK'
    BY <1>1 DEF IInv, TypeOK, DatabaseTypeOK
  <2>2. IndexTypeOK'
    BY <1>1, <1>2, <1>3, EmptyBaseOK DEF IndexTypeOK, IsBase, BaseOK, IsOverlay
  <2>3. WriterTypeOK'
    BY <1>1 DEF IInv, TypeOK, WriterTypeOK
  <2>4. ReadersTypeOK'
    BY <1>1, EmptyBaseOK DEF ReadersTypeOK, IdleReader, BaseOK
  <2> QED BY <2>1, <2>2, <2>3, <2>4 DEF TypeOK
<1>5. StoredOK'
  BY <1>1 DEF IInv, StoredOK, ActiveChunks
<1>6. ViewMatchesDatabase'
  <2> SUFFICES ASSUME NEW e \in Docs PROVE Shown(e)' = Searchable(e)'
    BY DEF ViewMatchesDatabase
  <2>1. Searchable(e)' = Searchable(e)
    BY <1>1 DEF Searchable, ActiveChunks
  <2>2. Shown(e)' = OfDoc(AllActiveChunks, e)
    BY <1>1, <1>2, FreshShowsBase DEF Shown, CurrentOverlay, OverlayLocked
  <2> QED BY <2>1, <2>2, ActiveChunksOK DEF IInv
<1>7. OverlayOK' /\ RebuildOK' /\ BaseOK(base)' /\ BaseOK(loaded)'
  BY <1>1, <1>2, <1>3, EmptyBaseOK DEF OverlayOK, RebuildOK
<1> QED BY <1>1, <1>4, <1>5, <1>6, <1>7 DEF IInv, DeletingOK

\* Every step of the system preserves the invariant.
LEMMA StepIInv == IInv /\ [Next]_vars => IInv'
<1> SUFFICES ASSUME IInv, [Next]_vars PROVE IInv'
  OBVIOUS
<1>1. CASE Receive
  <2>1. ASSUME NEW d \in Docs, NEW places \in Extraction, CommitDoc(d, "ok", places)
        PROVE  IInv'
    BY <2>1, CommitDocIInv DEF DocStatus, Extraction
  <2>2. ASSUME NEW d \in Docs, NEW st \in {"empty", "error"}, CommitDoc(d, st, {})
        PROVE  IInv'
    <3>1. st \in DocStatus
      BY DEF DocStatus
    <3> QED BY <2>2, <3>1, CommitDocIInv
  <2>3. ASSUME NEW d \in Docs, CommitDelete(d) PROVE IInv'
    BY <2>3, CommitDeleteIInv
  <2> QED BY <1>1, <2>1, <2>2, <2>3 DEF Receive
<1>2. CASE PublishDoc
  BY <1>2, PublishIInv DEF PublishDoc, OverlayLocked
<1>3. CASE PublishDelete
  <2>1. cur \in Docs
    BY DEF IInv, TypeOK, WriterTypeOK
  <2>2. CASE ActiveChunks(cur) = {}
    BY <1>3, <2>2, PublishIInv DEF PublishDelete, OverlayForUpsert, OverlayLocked
  <2>3. CASE ActiveChunks(cur) # {}
    BY <1>3, <2>1, <2>3 DEF PublishDelete, IInv, DeletingOK
  <2> QED BY <2>2, <2>3
<1>4. CASE PublishFails
  BY <1>4, WriterMovesIInv
     DEF PublishFails, OverlayLocked, IInv, TypeOK, WriterTypeOK
<1>5. CASE CheckThresholds
  BY <1>5, WriterMovesIInv
     DEF CheckThresholds, OverlayLocked, IInv, TypeOK, WriterTypeOK
<1>6. CASE RebuildFails
  BY <1>6, WriterMovesIInv
     DEF RebuildFails, OverlayLocked, IInv, TypeOK, WriterTypeOK
<1>7. CASE LoadNewBase
  BY <1>7, LoadNewBaseIInv
<1>8. CASE StoreBase
  BY <1>8, StoreBaseIInv
<1>9. CASE ResetOverlay
  BY <1>9, ResetOverlayIInv
<1>10. CASE Query
  BY <1>10, QueryIInv
<1>11. CASE Restart
  BY <1>11, RestartIInv
<1>12. CASE UNCHANGED vars
  <2>1. UNCHANGED <<dbVars, indexVars, writerVars, ghostVars>> /\ reader' = reader
    BY <1>12 DEF vars
  <2>2. ReadersTypeOK'
    BY <2>1 DEF IInv, TypeOK, ReadersTypeOK, IsBase
  <2> QED BY <2>1, <2>2, ReadersIInv
<1> QED BY <1>1, <1>2, <1>3, <1>4, <1>5, <1>6, <1>7, <1>8, <1>9, <1>10, <1>11, <1>12
        DEF Next, WriterStep

-----------------------------------------------------------------------------
(* Theorems                                                                *)

\* The inductive invariant holds in every reachable state.
THEOREM InvariantHolds == Spec => []IInv
BY InitIInv, StepIInv, PTL DEF Spec

\* Every variable keeps its type, and the tombstone bitset always fits the
\* base it sits on, whatever the order of commits, rebuilds and crashes.
THEOREM TypeCorrect == Spec => []TypeOK
<1>1. IInv => TypeOK
  BY DEF IInv
<1> QED BY <1>1, InvariantHolds, PTL

\* The published pair shows every settled document with exactly its active
\* chunks in SQLite, for any number of documents, chunks and readers and any
\* thresholds.
THEOREM ViewCorrect == Spec => []ViewMatchesDatabase
<1>1. IInv => ViewMatchesDatabase
  BY DEF IInv
<1> QED BY <1>1, InvariantHolds, PTL

\* No document is shown with chunks of two extractions by the published pair.
THEOREM NeverDoublyVisible == Spec => []NoDoubleVisibility
<1>1. IInv => NoDoubleVisibility
  <2> SUFFICES ASSUME IInv PROVE OneVersion(Visible(base, CurrentOverlay))
    BY DEF NoDoubleVisibility, Shown, OfDoc, OneVersion
  <2>1. CASE OverlayLocked
    BY <2>1, FreshShowsBase DEF IInv, BaseOK, CurrentOverlay
  <2>2. CASE ~OverlayLocked
    BY <2>2, OneVersionShown DEF IInv, OverlayOK, CurrentOverlay
  <2> QED BY <2>1, <2>2
<1> QED BY <1>1, InvariantHolds, PTL

\* An overlay that was just made needs no rebuild.
LEMMA FreshNeedsNoRebuild ==
    ASSUME NEW b, b.count \in Nat
    PROVE  ~NeedsRebuild(NewOverlay(b.count), b)
<1>1. Cardinality({}) = 0
  BY FS_EmptySet
<1> QED BY <1>1, LiveIndexAssumption DEF NeedsRebuild, NewOverlay

\* The overlay is below both thresholds whenever the writer waits for a message,
\* unless the rebuild that was due failed: every way back to recv goes through
\* the check, a rebuild or a start, for any thresholds.
THEOREM OverlayStaysBounded == Spec => []OverlayBounded
<1>1. Init => OverlayBounded
  <2>1. EmptyBase.count \in Nat /\ EmptyBase.count = 0
    BY DEF EmptyBase
  <2> QED BY <2>1, FreshNeedsNoRebuild DEF Init, OverlayBounded
<1>2. IInv /\ OverlayBounded /\ [Next]_vars => OverlayBounded'
  <2> SUFFICES ASSUME IInv, OverlayBounded, [Next]_vars, pc' = "recv", ~overdue'
               PROVE  ~NeedsRebuild(overlay', base')
    BY DEF OverlayBounded
  <2>1. IInv'
    BY StepIInv
  <2>2. base'.count \in Nat
    BY <2>1 DEF IInv, TypeOK, IndexTypeOK, IsBase
  <2>3. CASE Receive \/ PublishDoc \/ PublishFails \/ PublishDelete \/ LoadNewBase \/ StoreBase \/ RebuildFails
    BY <2>3 DEF Receive, CommitDoc, CommitDelete, PublishDoc, PublishFails, PublishDelete, LoadNewBase,
                StoreBase, RebuildFails
  <2>4. CASE CheckThresholds
    BY <2>4 DEF CheckThresholds, indexVars
  <2>5. CASE ResetOverlay
    <3>1. loaded.count = base.count
      BY <2>5 DEF ResetOverlay, IInv, RebuildOK
    <3> QED BY <2>2, <2>5, <3>1, FreshNeedsNoRebuild DEF ResetOverlay
  <2>6. CASE Restart
    BY <2>2, <2>6, FreshNeedsNoRebuild DEF Restart
  <2>7. CASE Query \/ UNCHANGED vars
    BY <2>7 DEF Query, LoadBase, SearchOverlay, vars, indexVars, writerVars, ghostVars, OverlayBounded
  <2> QED BY <2>3, <2>4, <2>5, <2>6, <2>7 DEF Next, WriterStep
<1> QED BY <1>1, <1>2, InvariantHolds, PTL DEF Spec

\* A query that no rebuild overtook between its two loads answers with exactly
\* the active chunks of every settled document.
THEOREM UntornReadsCorrect == Spec => UntornReadsAreExact
<1> DEFINE Exact == \A r \in Readers :
                       reader[r].phase = "loaded" /\ reader'[r].phase = "answered"
                           /\ reader[r].snap = base
                       => \A d \in Docs : Settled(d) =>
                             /\ OfDoc(reader'[r].hits, d) = Searchable(d)
                             /\ d \in reader'[r].band => Searchable(d) # {}
<1>1. IInv /\ [Next]_vars => [Exact]_vars
  <2> SUFFICES ASSUME IInv, Next,
                      NEW r \in Readers,
                      reader[r].phase = "loaded", reader'[r].phase = "answered",
                      reader[r].snap = base,
                      NEW d \in Docs, Settled(d)
               PROVE  /\ OfDoc(reader'[r].hits, d) = Searchable(d)
                      /\ d \in reader'[r].band => Searchable(d) # {}
    OBVIOUS
  <2>1. reader' # reader
    OBVIOUS
  <2>2. ~Restart
    BY DEF Restart, IdleReader
  <2>3. Query
    BY <2>1, <2>2 DEF Next, Receive, CommitDoc, CommitDelete, WriterStep, PublishDoc,
                      PublishFails, PublishDelete, CheckThresholds, LoadNewBase,
                      RebuildFails, StoreBase, ResetOverlay
  <2>4. DOMAIN reader = Readers
    BY DEF IInv, TypeOK, ReadersTypeOK
  <2>5. PICK q \in Readers : LoadBase(q) \/ SearchOverlay(q)
    BY <2>3 DEF Query
  <2>6. SearchOverlay(r)
    BY <2>4, <2>5 DEF LoadBase, SearchOverlay
  <2>7. /\ ~OverlayLocked
        /\ reader'[r].hits = Visible(base, overlay)
        /\ reader'[r].band = FilenameBand(base, overlay)
    BY <2>4, <2>6 DEF SearchOverlay
  <2>8. OfDoc(Visible(base, overlay), d) = Searchable(d)
    BY <2>7 DEF IInv, ViewMatchesDatabase, Shown, CurrentOverlay
  <2> QED BY <2>7, <2>8 DEF FilenameBand
<1>2. IInv /\ [Next]_vars => [Exact]_vars
  BY <1>1
<1> HIDE DEF Exact
<1>3. Spec => [][Exact]_vars
  BY <1>2, InvariantHolds, PTL DEF Spec
<1> QED BY <1>3 DEF UntornReadsAreExact, Exact

\* The index implements the abstract search view: commits write, overlay
\* updates publish one document, rebuilds and restarts refresh, and nothing
\* else is ever visible to a search.
THEOREM IndexImplementsView == Spec => ImplementsSearchView
<1> DEFINE committed == [d \in Docs |-> Searchable(d)]
           shown     == [d \in Docs |-> Shown(d)]
<1>1. Init => View!Init
  <2> SUFFICES ASSUME Init PROVE View!Init
    OBVIOUS
  <2>1. \A d \in Docs : Searchable(d) = {}
    BY DEF Init, Searchable
  <2>2. \A d \in Docs : Shown(d) = {}
    BY FreshShowsBase, EmptyBaseOK DEF Init, Shown, CurrentOverlay, OverlayLocked, OfDoc
  <2> DEFINE nothing == [d \in Docs |-> {}]
  <2>3. nothing \in [Docs -> {{}}] /\ committed = nothing /\ shown = nothing
    BY <2>1, <2>2
  <2> QED BY <2>3 DEF View!Init
<1>2. IInv /\ IInv' /\ [Next]_vars => [View!Next]_(View!viewVars)
  <2> SUFFICES ASSUME IInv, IInv', [Next]_vars
               PROVE  View!Next \/ (committed' = committed /\ shown' = shown)
    BY DEF View!viewVars
  <2>1. ASSUME NEW d \in Docs,
               \A e \in Docs \ {d} : Searchable(e)' = Searchable(e),
               \A e \in Docs : Shown(e)' = Shown(e)
        PROVE  View!Next
    BY <2>1 DEF View!Next, View!Write
  <2>2. ASSUME NEW d \in Docs,
               \A e \in Docs : Searchable(e)' = Searchable(e),
               Shown(d)' = Searchable(d),
               \A e \in Docs \ {d} : Shown(e)' = Shown(e)
        PROVE  View!Next
    BY <2>2 DEF View!Next, View!Publish
  <2>3. ASSUME \A e \in Docs : Searchable(e)' = Searchable(e),
               \A e \in Docs : Shown(e)' = Searchable(e)
        PROVE  View!Next
    BY <2>3 DEF View!Next, View!Refresh
  <2>4. ASSUME \A e \in Docs : Searchable(e)' = Searchable(e),
               \A e \in Docs : Shown(e)' = Shown(e)
        PROVE  committed' = committed /\ shown' = shown
    BY <2>4
  <2>5. ASSUME UNCHANGED dbVars PROVE \A e \in Docs : Searchable(e)' = Searchable(e)
    BY <2>5 DEF dbVars, Searchable, ActiveChunks
  <2>6. ASSUME UNCHANGED indexVars, OverlayLocked' = OverlayLocked
        PROVE  \A e \in Docs : Shown(e)' = Shown(e)
    BY <2>6 DEF indexVars, Shown, CurrentOverlay
  <2>7. CASE Receive
    <3>1. PICK d \in Docs :
             \/ \E places \in Extraction : CommitDoc(d, "ok", places)
             \/ \E st \in {"empty", "error"} : CommitDoc(d, st, {})
             \/ CommitDelete(d)
      BY <2>7 DEF Receive
    <3>2. /\ UNCHANGED indexVars /\ OverlayLocked' = OverlayLocked
          /\ \A e \in Docs \ {d} : /\ status'[e] = status[e] /\ stored'[e] = stored[e]
                                   /\ active'[e] = active[e]
      BY <3>1 DEF CommitDoc, CommitDelete, OverlayLocked, IInv, TypeOK, DatabaseTypeOK
    <3>3. \A e \in Docs \ {d} : Searchable(e)' = Searchable(e)
      BY <3>2 DEF Searchable, ActiveChunks
    <3> QED BY <2>1, <2>6, <3>2, <3>3
  <2>8. CASE PublishDoc \/ PublishDelete
    <3>1. /\ UNCHANGED dbVars /\ base' = base /\ cur' = cur /\ ~OverlayLocked
          /\ ~OverlayLocked'
          /\ overlay' = OverlayForUpsert(overlay, cur, ActiveChunks(cur), base)
      BY <2>8 DEF PublishDoc, PublishDelete, OverlayForUpsert, OverlayLocked,
                  IInv, DeletingOK
    <3>2. /\ cur \in Docs /\ BaseOK(base) /\ IsOverlay(base, overlay)
          /\ HidesWholeDocs(base, overlay)
      BY <3>1 DEF IInv, TypeOK, WriterTypeOK, IndexTypeOK, IsOverlay, OverlayOK
    <3>3. /\ ActiveChunks(cur) \in SUBSET Chunk /\ OneVersion(ActiveChunks(cur))
          /\ (\A c \in ActiveChunks(cur) : c.doc = cur)
          /\ Searchable(cur) = ActiveChunks(cur)
      BY <3>2, ActiveChunksOK DEF IInv
    <3>4. /\ OfDoc(Visible(base, overlay'), cur) = ActiveChunks(cur)
          /\ \A e \in Docs \ {cur} :
                OfDoc(Visible(base, overlay'), e) = OfDoc(Visible(base, overlay), e)
      BY <3>1, <3>2, <3>3, PublishOne
    <3>5. \A e \in Docs : /\ Shown(e) = OfDoc(Visible(base, overlay), e)
                          /\ Shown(e)' = OfDoc(Visible(base, overlay'), e)
      BY <3>1 DEF Shown, CurrentOverlay
    <3> QED BY <2>2, <2>5, <3>1, <3>2, <3>3, <3>4, <3>5
  <2>9. CASE PublishFails \/ CheckThresholds \/ RebuildFails \/ LoadNewBase
    <3>1. UNCHANGED dbVars /\ UNCHANGED indexVars /\ OverlayLocked' = OverlayLocked
      BY <2>9 DEF PublishFails, CheckThresholds, RebuildFails, LoadNewBase, OverlayLocked
    <3> QED BY <2>4, <2>5, <2>6, <3>1
  <2>10. CASE StoreBase \/ Restart
    <3>1. UNCHANGED dbVars /\ \A e \in Docs : Settled(e)'
      BY <2>10 DEF StoreBase, Restart, Settled
    <3>2. \A e \in Docs : Shown(e)' = Searchable(e)
      BY <2>5, <3>1 DEF IInv, ViewMatchesDatabase
    <3> QED BY <2>3, <2>5, <3>1, <3>2
  <2>11. CASE ResetOverlay
    <3>1. UNCHANGED dbVars
      BY <2>11 DEF ResetOverlay
    <3>2. \A e \in Docs : Shown(e)' = Shown(e)
      BY <2>11, FreshShowsBase DEF ResetOverlay, Shown, CurrentOverlay, OverlayLocked,
                                   BaseChunks
    <3> QED BY <2>4, <2>5, <3>1, <3>2
  <2>12. CASE Query \/ UNCHANGED vars
    <3>1. UNCHANGED dbVars /\ UNCHANGED indexVars /\ OverlayLocked' = OverlayLocked
      BY <2>12 DEF Query, LoadBase, SearchOverlay, vars, writerVars, OverlayLocked
    <3> QED BY <2>4, <2>5, <2>6, <3>1
  <2> QED BY <2>7, <2>8, <2>9, <2>10, <2>11, <2>12 DEF Next, WriterStep
<1> QED BY <1>1, <1>2, InvariantHolds, PTL DEF ImplementsSearchView, View!Spec, Spec
=============================================================================
