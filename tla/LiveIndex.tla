------------------------------ MODULE LiveIndex ------------------------------
(***************************************************************************)
(* The searchable index of pdffff: the SQLite tables (db.rs), the frozen   *)
(* BaseIndex loaded from them (index/base.rs), the mutable Overlay         *)
(* (index/overlay.rs), the writer thread that is the only mutator of all   *)
(* three (app/writer.rs, index/state.rs), and the query threads, which     *)
(* load the base first and take the overlay's read guard second (query/).  *)
(*                                                                         *)
(* A document is its doc_id: documents.path is UNIQUE, rows are never      *)
(* removed, so path and doc_id stay paired for the life of the database.   *)
(* A chunk's text is abstracted to (document, version, page, window on the *)
(* page), where version numbers the upserts: two chunks of one document    *)
(* with different versions are text of two different extractions.          *)
(***************************************************************************)
EXTENDS Integers, FiniteSets

CONSTANTS
    Docs,           \* the doc_ids that ever get a row
    Readers,        \* threads that run queries
    MaxVersion,     \* bound on the number of upserts (model checking only)
    MaxPages,       \* most pages a document has
    MaxWindows,     \* most windows a page is cut into
    OverflowLimit,  \* REBUILD_OVERLAY_CHUNKS
    TombstoneDen    \* 1 / REBUILD_TOMBSTONE_RATIO

ASSUME LiveIndexAssumption ==
    /\ Docs \subseteq Nat /\ IsFiniteSet(Docs)
    /\ MaxVersion \in Nat
    /\ MaxPages \in Nat \ {0} /\ MaxWindows \in Nat \ {0}
    /\ OverflowLimit \in Nat \ {0}
    /\ TombstoneDen \in Nat \ {0}

VARIABLES
    version,      \* number of upserts committed so far
    status,       \* documents.status, "absent" when the path has no row
    stored,       \* the chunks table: rows of each document
    active,       \* chunks.active, one flag for all rows of a document
    base,         \* IndexState.base, the ArcSwap<BaseIndex>
    overlay,      \* IndexState.overlay, the RwLock<Overlay>
    pc, cur,      \* where the writer thread is, and the doc_id in its hands
    loaded,       \* the BaseIndex a rebuild has built and not yet published
    reader,       \* the query threads
    unpublished,  \* history: documents whose last overlay update failed
    overdue       \* history: the last rebuild that was due has failed

dbVars     == <<version, status, stored, active>>
indexVars  == <<base, overlay>>
writerVars == <<pc, cur, loaded>>
ghostVars  == <<unpublished, overdue>>
vars       == <<dbVars, indexVars, writerVars, reader, ghostVars>>

-----------------------------------------------------------------------------
(* The database                                                            *)

DocStatus == {"ok", "empty", "error", "deleted"}
Chunk     == [doc : Docs, version : 1 .. MaxVersion,
              page : 1 .. MaxPages, ord : 0 .. MaxWindows - 1]

\* Where an extraction finds text: chunk_ord starts at 0 on each page, and a
\* blank page or window yields no chunk.
Extraction == (SUBSET ((1 .. MaxPages) \X (0 .. MaxWindows - 1))) \ {{}}

ChunksAt(d, v, places) ==
    {[doc |-> d, version |-> v, page |-> p[1], ord |-> p[2]] : p \in places}

\* load_chunks_for_doc: the active rows of one document.
ActiveChunks(d) == IF active[d] THEN stored[d] ELSE {}

\* Mutant: the stream without its WHERE clause.
EveryStoredChunk == UNION {stored[d] : d \in Docs}

\* for_each_active_chunk: the active rows of every document that is 'ok'.
AllActiveChunks == UNION {ActiveChunks(d) : d \in {e \in Docs : status[e] = "ok"}}

-----------------------------------------------------------------------------
(* The base index: rows in ORDER BY doc_id, chunk_ord, indexed from 0. The *)
(* windows of two pages may tie.                                           *)

Before(a, b) == a.doc < b.doc \/ (a.doc = b.doc /\ a.ord < b.ord)

EmptyBase == [count |-> 0, chunks |-> [i \in {} |-> 0]]

\* stream_chunks_with_doc_ranges: every layout the SQL order allows.
StreamedBases(rows) ==
    {[count |-> Cardinality(rows), chunks |-> s] :
        s \in {t \in [0 .. Cardinality(rows) - 1 -> rows] :
                  /\ \A c \in rows : \E i \in DOMAIN t : t[i] = c
                  /\ \A i, j \in DOMAIN t : i < j => ~Before(t[j], t[i])}}

\* doc_ranges[d]: from the first row of d to the last one before the stream
\* moves to another document.
DocRange(b, d) ==
    {i \in DOMAIN b.chunks :
        \E first, last \in DOMAIN b.chunks :
            /\ first <= i /\ i <= last
            /\ b.chunks[first].doc = d /\ b.chunks[last].doc = d}

-----------------------------------------------------------------------------
(* The overlay                                                             *)

BITS_PER_WORD == 64
WordCapacity(len) == ((len + BITS_PER_WORD - 1) \div BITS_PER_WORD) * BITS_PER_WORD

\* Overlay::new(base_chunk_count)
NewOverlay(count) == [len |-> count, tombstones |-> {}, overflow |-> {}]

\* Bitset::set ignores an index beyond the last word.
SetBits(ov, idxs) ==
    ov.tombstones \cup {i \in idxs : i < WordCapacity(ov.len)}

IsTombstoned(ov, i) == i \in ov.tombstones

\* OverflowSet::drop_doc. Rows are kept as a set: their order only ranks hits.
DropDoc(rows, d) == {c \in rows : c.doc # d}

\* Mutant: an earlier modification's overflow rows stay.
TombstoneOnlyBase(ov, d, b) == [ov EXCEPT !.tombstones = SetBits(ov, DocRange(b, d))]

\* Overlay::tombstone_doc
TombstoneDoc(ov, d, b) ==
    [ov EXCEPT !.tombstones = SetBits(ov, DocRange(b, d)),
               !.overflow   = DropDoc(ov.overflow, d)]

\* Mutant: the old base chunks are not hidden.
ModifyOnlyOverflow(ov, d, chunks, b) ==
    [ov EXCEPT !.overflow = DropDoc(ov.overflow, d) \cup chunks]

\* Overlay::modify_doc
ModifyDoc(ov, d, chunks, b) ==
    LET hidden == TombstoneDoc(ov, d, b)
    IN  [hidden EXCEPT !.overflow = hidden.overflow \cup chunks]

\* apply_overlay_for_upsert, after load_chunks_for_doc returned chunks.
OverlayForUpsert(ov, d, chunks, b) ==
    IF chunks = {} THEN TombstoneDoc(ov, d, b) ELSE ModifyDoc(ov, d, chunks, b)

\* IndexState::needs_rebuild. tombstones / max(base, 1) >= 0.10 over integers.
NeedsRebuild(ov, b) ==
    \/ Cardinality(ov.overflow) >= OverflowLimit
    \/ Cardinality(ov.tombstones) * TombstoneDen >= (IF b.count = 0 THEN 1 ELSE b.count)

-----------------------------------------------------------------------------
(* What a query sees of a (base, overlay) pair. The bigram prefilter and   *)
(* the verifier only narrow this set, by text; both of CandidateSet's      *)
(* variants hide exactly the tombstoned base chunks.                       *)

BaseVisible(b, ov) == {b.chunks[i] : i \in {j \in DOMAIN b.chunks : ~IsTombstoned(ov, j)}}
Visible(b, ov)     == BaseVisible(b, ov) \cup ov.overflow

OfDoc(chunks, d) == {c \in chunks : c.doc = d}

\* docs_with_filename_match + pick_representative_chunk, for a query that
\* every filename matches: names come from base.filename_norms alone.
FilenameBand(b, ov) ==
    {d \in {b.chunks[i].doc : i \in DOMAIN b.chunks} : OfDoc(Visible(b, ov), d) # {}}

-----------------------------------------------------------------------------
(* The writer thread                                                       *)

IdleReader == [phase |-> "idle", snap |-> EmptyBase, hits |-> {}, band |-> {}]

Init ==
    /\ version = 0
    /\ status = [d \in Docs |-> "absent"]
    /\ stored = [d \in Docs |-> {}]
    /\ active = [d \in Docs |-> TRUE]
    /\ base = EmptyBase /\ overlay = NewOverlay(0)
    /\ pc = "recv" /\ cur \in Docs /\ loaded = EmptyBase
    /\ reader = [r \in Readers |-> IdleReader]
    /\ unpublished = {} /\ overdue = FALSE

\* WriterMsg::Doc whose upsert_extracted transaction commits: the document's
\* rows are replaced, and reappear active. Only an Ok extraction has chunks.
CommitDoc(d, st, places) ==
    /\ pc = "recv" /\ version < MaxVersion
    /\ version' = version + 1
    /\ status' = [status EXCEPT ![d] = st]
    /\ stored' = [stored EXCEPT ![d] = ChunksAt(d, version + 1, places)]
    /\ active' = [active EXCEPT ![d] = TRUE]
    /\ pc' = "publish" /\ cur' = d
    /\ UNCHANGED <<indexVars, loaded, reader, ghostVars>>

\* WriterMsg::Delete for a path with a row: mark_deleted keeps the rows and
\* deactivates them. (A failed upsert or mark_deleted, and a Delete of an
\* unknown path, return false: no state changes.)
CommitDelete(d) ==
    /\ pc = "recv" /\ status[d] # "absent"
    /\ status' = [status EXCEPT ![d] = "deleted"]
    /\ active' = [active EXCEPT ![d] = FALSE]
    /\ pc' = "tombstone" /\ cur' = d
    /\ UNCHANGED <<version, stored, indexVars, loaded, reader, ghostVars>>

\* Mutant: apply_doc returns false, so the thresholds are not checked.
PublishDocUnchecked ==
    /\ pc = "publish"
    /\ overlay' = OverlayForUpsert(overlay, cur, ActiveChunks(cur), base)
    /\ unpublished' = unpublished \ {cur}
    /\ pc' = "recv"
    /\ UNCHANGED <<dbVars, base, cur, loaded, reader, overdue>>

\* apply_overlay_for_upsert: re-read the rows, lock the overlay, publish.
PublishDoc ==
    /\ pc = "publish"
    /\ overlay' = OverlayForUpsert(overlay, cur, ActiveChunks(cur), base)
    /\ unpublished' = unpublished \ {cur}
    /\ pc' = "check"
    /\ UNCHANGED <<dbVars, base, cur, loaded, reader, overdue>>

\* load_chunks_for_doc fails: apply_doc logs it and still returns true.
PublishFails ==
    /\ pc = "publish"
    /\ unpublished' = unpublished \cup {cur}
    /\ pc' = "check"
    /\ UNCHANGED <<dbVars, indexVars, cur, loaded, reader, overdue>>

\* Mutant: apply_delete returns false, so the thresholds are not checked.
PublishDeleteUnchecked ==
    /\ pc = "tombstone"
    /\ overlay' = TombstoneDoc(overlay, cur, base)
    /\ unpublished' = unpublished \ {cur}
    /\ pc' = "recv"
    /\ UNCHANGED <<dbVars, base, cur, loaded, reader, overdue>>

\* apply_delete's overlay half.
PublishDelete ==
    /\ pc = "tombstone"
    /\ overlay' = TombstoneDoc(overlay, cur, base)
    /\ unpublished' = unpublished \ {cur}
    /\ pc' = "check"
    /\ UNCHANGED <<dbVars, base, cur, loaded, reader, overdue>>

\* rebuild_if_needed: the check under the read locks.
CheckThresholds ==
    /\ pc = "check"
    /\ pc' = IF NeedsRebuild(overlay, base) THEN "rebuild" ELSE "recv"
    /\ overdue' = FALSE
    /\ UNCHANGED <<dbVars, indexVars, cur, loaded, reader, unpublished>>

\* rebuild_from_db: load_base_index_from_db, outside every lock.
LoadNewBase ==
    /\ pc = "rebuild"
    /\ loaded' \in StreamedBases(AllActiveChunks)
    /\ pc' = "store"
    /\ UNCHANGED <<dbVars, indexVars, cur, reader, ghostVars>>

\* load_base_index_from_db fails: the writer warns and keeps the old pair.
RebuildFails ==
    /\ pc = "rebuild"
    /\ pc' = "recv" /\ overdue' = TRUE
    /\ UNCHANGED <<dbVars, indexVars, cur, loaded, reader, unpublished>>

\* rebuild_from_db: take the write lock, state.base.store. load_base does not
\* take the lock, so a reader can load the new base from here on.
StoreBase ==
    /\ pc = "store"
    /\ base' = loaded
    /\ unpublished' = {}
    /\ pc' = "reset"
    /\ UNCHANGED <<dbVars, overlay, cur, loaded, reader, overdue>>

\* Mutant: the reset uses Overlay::clear, which leaves a bitset of no words.
ResetWithClear ==
    /\ pc = "reset"
    /\ overlay' = NewOverlay(0)
    /\ loaded' = EmptyBase
    /\ pc' = "recv"
    /\ UNCHANGED <<dbVars, base, cur, reader, ghostVars>>

\* rebuild_from_db: *ov = Overlay::new(new_chunk_count), release the lock.
ResetOverlay ==
    /\ pc = "reset"
    /\ overlay' = NewOverlay(loaded.count)
    /\ loaded' = EmptyBase
    /\ pc' = "recv"
    /\ UNCHANGED <<dbVars, base, cur, reader, ghostVars>>

\* The write lock is held between the two halves of the swap.
OverlayLocked == pc = "reset"

-----------------------------------------------------------------------------
(* The query threads                                                       *)

\* literal_search, regex_search, fuzzy_search: let base = state.load_base();
LoadBase(r) ==
    /\ reader[r].phase # "loaded"
    /\ reader' = [reader EXCEPT ![r] =
                    [phase |-> "loaded", snap |-> base, hits |-> {}, band |-> {}]]
    /\ UNCHANGED <<dbVars, indexVars, writerVars, ghostVars>>

\* Mutant: the base is published before the write lock is taken.
SearchUnlocked(r) ==
    /\ reader[r].phase = "loaded"
    /\ reader' = [reader EXCEPT ![r] =
                    [phase |-> "answered", snap |-> EmptyBase,
                     hits  |-> Visible(reader[r].snap, overlay),
                     band  |-> FilenameBand(reader[r].snap, overlay)]]
    /\ UNCHANGED <<dbVars, indexVars, writerVars, ghostVars>>

\* let ov = state.overlay.read(); and both walks under that guard.
SearchOverlay(r) ==
    /\ reader[r].phase = "loaded"
    /\ ~OverlayLocked
    /\ reader' = [reader EXCEPT ![r] =
                    [phase |-> "answered", snap |-> EmptyBase,
                     hits  |-> Visible(reader[r].snap, overlay),
                     band  |-> FilenameBand(reader[r].snap, overlay)]]
    /\ UNCHANGED <<dbVars, indexVars, writerVars, ghostVars>>

-----------------------------------------------------------------------------
\* The process dies at any point and is started again: run_watch reopens the
\* database and builds IndexState::new from it; nothing in memory survives.
Restart ==
    /\ base' \in StreamedBases(AllActiveChunks)
    /\ overlay' = NewOverlay(base'.count)
    /\ pc' = "recv" /\ loaded' = EmptyBase
    /\ reader' = [r \in Readers |-> IdleReader]
    /\ unpublished' = {} /\ overdue' = FALSE
    /\ UNCHANGED <<dbVars, cur>>

WriterStep ==
    \/ PublishDoc \/ PublishFails \/ PublishDelete
    \/ CheckThresholds \/ LoadNewBase \/ RebuildFails \/ StoreBase \/ ResetOverlay

Receive ==
    \E d \in Docs :
        \/ \E places \in Extraction : CommitDoc(d, "ok", places)
        \/ \E st \in {"empty", "error"} : CommitDoc(d, st, {})
        \/ CommitDelete(d)

Query == \E r \in Readers : LoadBase(r) \/ SearchOverlay(r)

Next == Receive \/ WriterStep \/ Query \/ Restart

Spec     == Init /\ [][Next]_vars
FairSpec == Spec /\ WF_vars(WriterStep) /\ \A r \in Readers : WF_vars(SearchOverlay(r))

-----------------------------------------------------------------------------
(* Properties                                                              *)

IsBase(b) ==
    /\ b.count \in Nat
    /\ b.chunks \in [0 .. b.count - 1 -> Chunk]

DatabaseTypeOK ==
    /\ version \in 0 .. MaxVersion
    /\ status \in [Docs -> DocStatus \cup {"absent"}]
    /\ stored \in [Docs -> SUBSET Chunk]
    /\ active \in [Docs -> BOOLEAN]

IndexTypeOK ==
    /\ IsBase(base) /\ IsBase(loaded)
    /\ overlay \in [len : Nat, tombstones : SUBSET Nat, overflow : SUBSET Chunk]
    /\ overlay.tombstones \subseteq 0 .. overlay.len - 1
    /\ ~OverlayLocked => overlay.len = base.count

WriterTypeOK ==
    /\ pc \in {"recv", "publish", "tombstone", "check", "rebuild", "store", "reset"}
    /\ cur \in Docs
    /\ unpublished \subseteq Docs
    /\ overdue \in BOOLEAN

ReadersTypeOK ==
    /\ DOMAIN reader = Readers
    /\ \A r \in Readers :
          /\ reader[r].phase \in {"idle", "loaded", "answered"}
          /\ IsBase(reader[r].snap)
          /\ reader[r].hits \subseteq Chunk
          /\ reader[r].band \subseteq Docs

\* Every variable has its type; the overlay's bitset has one bit for each
\* chunk of the base it sits on, and only those bits are ever set.
TypeOK == DatabaseTypeOK /\ IndexTypeOK /\ WriterTypeOK /\ ReadersTypeOK

\* The pair a reader that finds the overlay unlocked gets: while the writer
\* holds the lock, the one it is about to release.
CurrentOverlay == IF OverlayLocked THEN NewOverlay(base.count) ELSE overlay
Shown(d)       == OfDoc(Visible(base, CurrentOverlay), d)

\* What the database says a search should find for d.
Searchable(d) == IF status[d] = "ok" THEN ActiveChunks(d) ELSE {}

\* Documents whose last committed change has reached the overlay or the base.
Settled(d) == d \notin unpublished /\ ~(pc \in {"publish", "tombstone"} /\ cur = d)

\* The index is SQLite's shadow: at every moment, also in the middle of a
\* rebuild and after a crash, each document whose last change has been
\* published is shown with exactly its active chunks: tombstones, overflow
\* rows and base ranges add up (writer.rs, overlay.rs, state.rs, base.rs).
ViewMatchesDatabase == \A d \in Docs : Settled(d) => Shown(d) = Searchable(d)

\* "No double-visibility" (index/mod.rs:17) of the published pair: no document
\* is shown with chunks of two extractions, also after its overlay update
\* failed and it was modified or deleted again.
NoDoubleVisibility ==
    \A d \in Docs : \A c1, c2 \in Shown(d) : c1.version = c2.version

\* The overlay stays below both thresholds whenever the writer waits for a
\* message, unless the rebuild that was due failed (state.rs:60, writer.rs:56).
OverlayBounded == pc = "recv" /\ ~overdue => ~NeedsRebuild(overlay, base)

\* A query whose base is still the published one when it gets the overlay
\* guard answers with the active chunks of every settled document, and with
\* none but the previous ones of the others.
UntornReadsAreExact ==
    [][\A r \in Readers :
          reader[r].phase = "loaded" /\ reader'[r].phase = "answered"
              /\ reader[r].snap = base
          => \A d \in Docs : Settled(d) =>
                /\ OfDoc(reader'[r].hits, d) = Searchable(d)
                /\ d \in reader'[r].band => Searchable(d) # {}]_vars

\* The index implements the abstract view: what is shown of a document changes
\* in one step and only to what the database holds; a rebuild shows nothing new
\* except documents whose publication had failed.
View == INSTANCE SearchView
            WITH committed <- [d \in Docs |-> Searchable(d)],
                 shown     <- [d \in Docs |-> Shown(d)]
ImplementsSearchView == View!Spec

\* A threshold that is crossed is acted on: the overlay is collapsed, or the
\* rebuild is tried and fails (writer.rs:56-62; the check drops its read guards
\* before rebuild_from_db takes the write guard).
ThresholdsAreActedOn ==
    NeedsRebuild(overlay, base) ~> (~NeedsRebuild(overlay, base) \/ overdue)

\* state.rs:106-111, "A reader either sees the old (base, overlay) pair or the
\* new (base, fresh overlay) pair, never a torn snapshot": an answer is the
\* view of the pair that is published when the guard is taken.
NeverTorn ==
    [][\A r \in Readers :
          reader[r].phase = "loaded" /\ reader'[r].phase = "answered"
          => reader'[r].hits = Visible(base, overlay)]_vars
=============================================================================
