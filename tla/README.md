# pdffff in TLA+

pdffff is a search tool for a folder of PDFs. It watches the folder, keeps the
extracted text in SQLite, keeps a searchable copy of that text in memory, and
answers literal, fuzzy and regular-expression queries as the user types. This
directory holds TLA+ models of its stateful parts and of the pure algorithms a
search rests on, the TLC runs that check them, and TLAPS proofs.
Paths below are relative to `src/src/`.

Check a run with `tlc -config <cfg> <module>`, the proofs with `tlapm <module>`
for `LiveIndexProofs.tla`, `PipelineProofs.tla`, `FrontendProofs.tla`,
`BigramBuilderProofs.tla`, `TextLemmas.tla`, `ExtractionProofs.tla`,
`BigramQueryProofs.tla` and `TextSearchProofs.tla`.

## 1. Inventory

| Component | State | Operations |
|---|---|---|
| Database (`db.rs`) | `documents` (status, size, mtime), `chunks` (text, `active`) | `upsert_extracted`, `mark_deleted`, `for_each_active_chunk`, `load_chunks_for_doc`, the scanner's row snapshot |
| Base index (`index/base.rs`) | frozen rows in SQL order, `doc_ranges`, `filename_norms`, bigram index | `load_base_index_from_db` |
| Overlay (`index/overlay.rs`, `bitset.rs`) | tombstone bitset over the base rows, overflow rows | `tombstone_doc`, `modify_doc`, `new` |
| Index state (`index/state.rs`) | `ArcSwap<BaseIndex>`, `RwLock<Overlay>` | `needs_rebuild`, `rebuild_from_db` |
| Writer (`app/writer.rs`) | owns the connection, only mutator of the three above | `apply_doc`, `apply_delete`, `rebuild_if_needed` |
| Query engine (`query/`) | a base and a read guard | `literal_search`, `fuzzy_search`, `regex_search`: prefilter, verify, limit, rank, snippet |
| Coordinator (`app/coordinator.rs`) | the work left of the initial scan, the event in hand | initial scan, live loop, `dispatch_extract` |
| Scanner (`scanner.rs`) | a snapshot of rows | `walk_and_diff`, `scan_one`, `decide_dirty` |
| Watcher (`watcher.rs`) | the debouncer's queue, an unbounded channel | `forward_event`, `classify` |
| Extractor (`extract.rs`) | jobs on a rayon pool; the page and window in hand | `extract_pdf`: read, run pdftotext, `split_pages`, `chunk_page`, `build_chunk` |
| Normalisation (`normalize.rs`) | none | `normalize_for_index`, `collapse_whitespace_for_display`, `make_preview` |
| Watch handle (`app/handle.rs`, `app/mod.rs`) | stop flag, threads, progress counters | `run_watch`, `stop` |
| Bigram build (`bigram.rs`) | atomic lookup table, column allocator, slab | `add_item_content`, `get_or_alloc_column`, `compress`, `query` |
| Bigram queries (`bigram_query.rs`) | none | `regex_to_bigram_query`, `fuzzy_to_bigram_query`, `evaluate` |
| Search worker (`ui/search.rs`) | mailbox of one request, condition variable, result cell | `submit`, `worker_loop`, `stop` |
| TUI and GUI (`tui/`, `ui/gui/`) | query, mode, hits, selection, stamps | keys, `drain_results`, `pick_selected` |
| Paths, rendering, entry points | none of interest | |

How they interact. The watcher sends events to the coordinator over an
unbounded channel. The coordinator spawns extraction jobs on the pool; jobs and
coordinator send to the writer over a bounded channel (64). The writer commits
to SQLite, then updates the overlay under a write lock, then may rebuild the
base. Query threads load the base from the `ArcSwap` and take the overlay's
read lock, in that order. The front end talks to its search worker through a
one-slot mailbox and a one-slot result cell. `WatchHandle::stop` joins
everything.

What is hard in it, and what correct means:

- **Index.** Three representations of the same rows (SQLite, base, overlay),
  changed in several steps, with failures and crashes between them, read
  concurrently without a lock common to all. Correct: a search shows exactly
  the active chunks of each document, never two extractions of one, and the
  overlay does not outgrow its thresholds.
- **Pipeline.** A file is statted in one place and read in another; events,
  jobs and messages of one path race; a crash loses what is in flight; threads
  block on a full channel during shutdown. Correct: a row's stamp vouches for
  its text, what is quiet is current, `pending` is exact, `stop` returns.
- **Bigrams.** A lock-free build that may lose a bit, and a decomposition that
  may demand too much: both make text unfindable without any error. Correct:
  no text that matches is excluded.
- **Extraction.** A long page is cut into windows that overlap; pages may be empty
  or white; a window is folded by itself, and a query by itself. Correct: no
  phrase is lost at a cut, every chunk has the page number a viewer shows, no two
  have one key, the loop advances.
- **Search.** A prefilter works on other text than the verifier; base and
  overflow are walked by different code; a list is cut at the limit before it is
  ranked; files found by name must not come again by content; an offset in the
  folded text is remapped to the original for the snippet. Correct: the hits are
  those the database would give, each once, and all when there is room.
- **Front end.** Late, coalesced and dropped results; a shorter list under an
  old selection. Correct: hits answer the query they are shown under, the last
  query is answered, the selection is in the list, quitting ends.

`PROJECT.json` lists such hazards, each at its line, with its properties.

## 2. Modules

| Module | Models | Lines |
|---|---|---|
| `SearchView` | what the index promises a search: committed content, shown content, and three ways to change them | 36 |
| `LiveIndex` | database, base, overlay, index state, writer, query threads; implements `SearchView` | 433 |
| `Pipeline` | file system, watcher, scanner, coordinator, pool, extractor, channel, writer, stop, crash | 499 |
| `ByteStrings` | bytes, case, one string inside another | 43 |
| `PageText` | the text of a document between pdftotext and the index: pages, windows, folding | 119 |
| `Extraction` | one worker's loop over pages and windows; extends `PageText` | 245 |
| `BigramBuilder` | the parallel build of one bigram index, its compression and a query's intersection | 241 |
| `BigramTrees` | literal, fuzzy and regular-expression queries as bigram trees, their evaluation, a reference matcher | 345 |
| `BigramQuery` | every query against every text; extends `BigramTrees` | 128 |
| `TextSearch` | the three searches over real rows; extends `PageText` and `BigramTrees` | 424 |
| `Frontend` | the event loop of the TUI (the GUI uses the same fields) and the search worker | 276 |
| `LiveIndexProofs`, `PipelineProofs`, `FrontendProofs`, `BigramBuilderProofs`, `ExtractionProofs`, `BigramQueryProofs`, `TextSearchProofs` | the theorems about the module each is named after | |
| `TextLemmas` | what the operators of `ByteStrings`, `PageText` and `BigramTrees` return, for the three last proof modules | |
| `MC*` | constants for TLC | |

Where the modules meet: `Pipeline`'s writer step stands for all of `LiveIndex`'s
writer; its extraction for a run of `Extraction`. `TextSearch` takes the chunks
of `Extraction` in their closed form (`ChunksOf`, which `ChunksAreWindows` shows
to be what the loop makes), the overlay in one step (which `LiveIndex` opens up)
and the prefilter as `BigramTrees` has it. `BigramBuilder` is why the index it
evaluates against may lack columns but not bits.

### LiveIndex

A document is its `doc_id`; its text is abstracted to (document, version, page,
window), where the version counts upserts, so that two chunks of different
extractions differ. Writer steps: `CommitDoc` / `CommitDelete` are the SQLite
transactions; `PublishDoc`, `PublishFails`, `PublishDelete` the overlay half;
`CheckThresholds`; then `LoadNewBase`, `StoreBase`, `ResetOverlay`, the three
steps of a rebuild, or `RebuildFails`. `pc` is where the writer is between them.
A reader takes two steps, `LoadBase` and `SearchOverlay`. `Restart` is a crash
at any point followed by a start: the database stays. The base keeps the SQL
order as a function from row numbers, with every order of tied rows allowed
(`chunk_ord` restarts on each page, so `ORDER BY doc_id, chunk_ord` has ties),
because tombstones are row numbers: a range that is off by one hides another
document's text. Bitsets have their capacity in words, because
`Bitset::set` ignores what is beyond it.

`Visible` is what both `CandidateSet` variants leave visible, before text
matching narrows it. Two history variables qualify the properties:
`unpublished` (documents whose overlay update failed after the commit) and
`overdue` (a due rebuild failed); both conditions are ones the code logs and
continues from.

### Pipeline

A file's content and its (size, mtime) identity are the number of the write that
produced it. `VisitFile` is `scan_one` for one path with `decide_dirty`;
`MissFile` a walk entry that fails; `Forward` the watcher's classification,
which probes the file when it forwards and not when the event happened;
`Extract` reads the file when the job runs, with the stamp taken when it was
made. `HandleDirty` and `HandleRemoved` are the live loop's two cases,
`StatFails` the one where `scan_one` returns an error, which is only logged: the
change is in `missed` until the next start.
`TakeEvent` and `ExitLoop` are the loop's ends. `SendDoc`, `SendScanDelete` and
`HandleRemoved` wait for room in the channel. `SetStopFlag`, `DropWatcher`,
`JoinThreads` are the three parts of `stop`. A writer step is atomic here;
`LiveIndex` opens it up.

### BigramBuilder

Each atomic operation is an action: the load of the lookup entry, the
`fetch_add` on `next_column`, the `compare_exchange`, the `fetch_or`. A chunk
is the set of its keys. `AddItem` may or may not count a chunk without bigrams
as populated (one of at least two bytes is counted, a shorter one is not).

### BigramTrees and BigramQuery

Regular expressions are trees as `regex_syntax` builds them, in the normal forms
it produces; `Ends` is a reference matcher for them and `Decompose` the code's
recursion, with one operator per function of the source. An unknown byte set
(`None`) is the empty set, which no producer in the code returns as `Some`. The
parser reads bytes, and under an inline `(?u)` characters: `Class` and
`UnicodeClass` are the two kinds of class, which `ExpandClass` counts differently
against the cap. A
tree's children are sets. `Includes` says whether a tree passes a text, with some
of the query's columns dropped from the index. Recursion over expressions and
trees is by functions whose domains, `Hirs` and `Trees`, are built up level by
level: an expression nests no deeper than `NestLimit` (the parser has such a
limit), and its tree is at most two levels higher. The step of
each such function (`EndsFrom`, `DecomposeFrom`, ...) is an operator of its own,
so that it can be reasoned about. A repetition without a maximum
has `Unbounded`, and `MaxLen`, which is only ever compared with 0 and 1, counts
two turns for it. `BigramQuery` is a thin state
machine (ask, look up, answer) over these operators.

### PageText and Extraction

A text is a sequence of characters, of which only the classes matter: white,
control, form feed, the bytes of the encoding, what deunicode makes of it. All
of them are constants, with their assumptions. `SplitPages`,
`NormalizeForIndex`, `CollapseWhitespaceForDisplay`, `MakePreview`, `BuildChunk`
are the functions of the source. The actions of `Extraction` are the ends of
pdftotext (`PdftotextFails`, `PrintsNothing`, `PrintsText`), the branches of the
loop over pages (`SkipWhitePage`, `TakeShortPage`, `BeginWindows`), one turn of
the loop of `chunk_page` (`NextWindow`), and the end (`Finish`). A chunk is its
page, ordinal and range of characters.

### TextSearch

Rows are made from raw text. `UpsertDoc`, `RemoveDoc` and `Rebuild` change base
and overlay; a search is one step, and keeps its request and hits until
`Return`. The base is a sequence in one of the SQL orders, the overflow one in
order of insertion. A literal or fuzzy query is folded as the code folds it; a
regular expression comes with its parse. `Walk` stops at the limit, in the base
first; `CheapRank` sorts what is left; `FilenameHits` and `BodyHits` are the two
bands of a fuzzy search, the second by neo_frizbee's scores up to `FrizbeeLimit`
candidates (any score for any text it gets) and by the literal verifier beyond.
Which columns of the base's index are missing is chosen at the rebuild.

### Frontend

The loop polls a key, drains one result and draws. `EditQuery`, `SwitchMode`,
`Nav`, `PickSelected`, `QuitKey`, `Tick` are its keys and its timeout;
`DrainResults` applies a result whose stamp is the last submitted one.
`CheckSlot` is one turn of the worker's inner loop under the mutex,
`PublishResult` the end of a search, `SearchPanics` its other end. `CloseSlot`
and `JoinWorker` are `SearchWorker::stop`.

## 3. Runs

| Run | Result | Shows |
|---|---|---|
| `live_index` | pass | types; `ViewMatchesDatabase`, `NoDoubleVisibility`, `OverlayBounded`; exact answers on an untorn pair; refinement of `SearchView`; crossed thresholds are acted on |
| `live_index_torn` | violation | an old base with the fresh overlay |
| `pipeline` | pass | stamps vouch for content; quiet means current (with its exceptions); `pending` exact and back to zero; stop returns |
| `pipeline_scan` | violation | a deleted row's file comes back and stays unsearchable |
| `pipeline_twice` | violation | of two extractions the older one is kept |
| `bigram` | pass | no two keys share a column, no bit is lost while columns are left, the build ends |
| `bigram_full` | violation | leaked columns exhaust the slab and a bit is lost |
| `bigram_query` | pass | no matching text is excluded: literals, fuzzy terms, expressions without hidden edges |
| `bigram_query_regex` | violation | `a(.*b)` excludes "acb" |
| `extraction` | pass | no phrase is lost at a cut and each is found when typed; keys unique; exactly the windows of the closed form; page numbers; a document is empty exactly when its text is white; the loop ends |
| `search` | pass | literal and regex hits are exact; what is printed is found; the fuzzy bands are separate; snippets show the match |
| `frontend` | pass | selection, freshness of hits, last query answered, quit ends |

Every property of a passing run has a mutant in `PROJECT.json`: a plausible
mistake in the code (kept in the module under a comment that begins with
"Mutant"), under which TLC finds the property violated.

### Bounds, and why they are enough

- `LiveIndex`: two documents, of up to two pages and one window each, three
  upserts, one reader; overflow limit 3, tombstone ratio 1. Two documents are
  needed for a range to spill onto a neighbour, two chunks for a range with an
  inside, three upserts for modify-after-rebuild-after-modify; deletes, queries,
  rebuilds and restarts are not bounded at all. Interactions of more documents
  are pairwise: `tombstone_doc` and `modify_doc` touch one document. The theorems
  have no such bounds.
- `Pipeline`: one path, two workers, channel of one slot, three writes or
  removals, one crash, all faults: 546,162 states. Rows of different paths share
  only the channel and the pool, and one path with two workers fills both. Two
  workers are the least for reordering, one slot the tightest for blocking.
- `BigramBuilder`: two threads, three chunks with any contents, two keys,
  three columns: more columns than keys, so that only reservations lost to a
  race exhaust them, as in the code (69 folded printable bytes give at most 4761
  keys for 5000 columns). The counter wraps at 4 in place of 2^16.
- `BigramQuery`: 1,284 expressions of up to three levels (367 of them with a
  tree that filters and no hidden edge, 434 with one), all texts of up to five
  letters of two, four of three, and three with an unprintable byte; terms of up
  to six bytes; class cap 2 for 16, three probes for six; no more than one of a
  query's bigrams untracked. A term of six bytes has five bigrams and the
  largest typo count, so that probes are spread and a proper subset is required.
  A wrong demand of the decomposition is about two neighbouring nodes, or three
  for skip-1; each of those pairs occurs at the top and inside a group.
- `NestLimit` is 4 for `BigramQuery` and 3 for `TextSearch`, as deep as their
  expressions go; the theorems hold for any.
- `Extraction`: windows of five characters that overlap by three, and all texts
  of up to 10 characters over a letter and a blank (four windows), 7 with form
  feeds (empty, white and final pages, windows behind a form feed), 4 of seven
  characters (encodings and foldings of several bytes), 6 of a capital, a line
  feed and a bell (the three kinds of blank): 40,289 states. Overlap and step
  differ, so that neither stands for the other by coincidence; a stretch of four
  characters is the shortest with a double blank inside. The overlap is more
  than half of a window, which the code's constants are not; the theorems hold for
  any overlap smaller than the window.
- `TextSearch`: two documents with two texts each, of one or two pages, with two
  windows, tied ordinals, page ends, mixed case and a two-byte letter; windows
  of four and overlap two; twelve queries and eight expressions; limits 1, 2 and
  9 (less than, about, and more than there are hits), context of two bytes
  (60 in the code); two candidates for neo_frizbee, so that both paths are taken; no more than one
  bigram untracked: 190,179 states, about a minute. A row is judged by itself;
  two documents are what tombstones, bands and orders need.
- `Frontend`: two queries (one not a valid expression) and the blank one, both
  modes and more, lists of up to two hits, three submissions, one panic.

### Fairness

Threads that can run are scheduled: the writer, the coordinator, each worker,
the search worker, the event loop (which polls with a timeout). An
extraction or a search that runs comes to an end: pdftotext returns, `search`
returns. A reader that has a base gets the read guard. Nothing is assumed of
the user, of crashes or of faults. `StopReturns` and
`PendingReturnsToZero` need exactly that every worker and the writer run on.
`ExtractionEnds` needs that a worker runs on once pdftotext has ended; whether it
ends is left open.

## 4. Proofs

| Module | Theorem | Property of a run |
|---|---|---|
| `LiveIndexProofs` | `TypeCorrect`, `ViewCorrect`, `NeverDoublyVisible` | `TypeOK`, `ViewMatchesDatabase`, `NoDoubleVisibility` |
| | `OverlayStaysBounded`, `UntornReadsCorrect`, `IndexImplementsView` | `OverlayBounded`, `UntornReadsAreExact`, `ImplementsSearchView` |
| `PipelineProofs` | `TypeCorrect`, `StampVouches`, `PendingExact` | `TypeOK`, `StampVouchesForContent`, `PendingIsExact` |
| | `QuietTableCurrent` | `QuietMeansCurrent` |
| `FrontendProofs` | `TypeCorrect`, `SelectionCorrect`, `FreshHits` | `TypeOK`, `SelectionInList`, `AppliedHitsAnswerQuery` |
| `BigramBuilderProofs` | `TypeCorrect`, `ColumnsDistinct`, `PrefilterSound` | `TypeOK`, `ColumnsAreDistinct`, `NoFalseNegatives` |
| `ExtractionProofs` | `TypeCorrect`, `PhrasesNeverSplit`, `KeysUnique` | `TypeOK`, `PhrasesUnsplit`, `ChunkKeysUnique` |
| | `WindowsAreExact`, `PagesCounted` | `ChunksAreWindows`, `PageNumbersMatchOutput` |
| | `EmptyIffWhite`, `PhrasesAreSearchable` | `OnlyWhiteIsEmpty`, `PhrasesSearchable` |
| `BigramQueryProofs` | `TypesAreRight`, `LiteralNeverExcludes` | `TypeOK`, `LiteralPrefilterSound` |
| | `FuzzyToleratesTypos`, `RegexNeverExcludes` | `FuzzyToleratesMissingBigrams`, `RegexPrefilterSound` |
| `TextSearchProofs` | `TypeCorrect`, `LiteralIsExact` | `TypeOK`, `LiteralSearchIsExact` |
| | `TypedIsFoundOnItsPage`, `BandsAreSeparate` | `PhraseIsFound`, `FuzzyBandsAreSeparate` |
| | `RegexIsExact`, `SnippetsShow` | `RegexSearchIsExact`, `SnippetShowsMatch` |

Each is proved for all values of the constants that the named assumptions of its
module allow: natural numbers for ids and limits, finite sets where they are
counted, an overlap smaller than the window (`LiveIndexAssumption`,
`PipelineAssumption`, `FrontendAssumption`, `BuilderAssumption`,
`WindowAssumption`); what `TextAssumption` says of characters (any bytes in an
encoding but at least one, any folding, a form feed and a space are white);
`LowerAssumption`, that lower case is lower case again; `TreesAssumption`, that
both cases of a letter are printable or neither is, that the printable bytes are
finitely many, and that there are more probes than typos; `OutputsAssumption`,
`QueryAssumption` and `SearchAssumption`, which type the inputs (an expression
nests no deeper than `NestLimit`, which may be any number). `SearchAssumption` also
says that a space is one byte and its own lower case, and that two characters are
no more than two bytes longer than the context of a snippet: 8 and 62 in the code,
as `SNIPPET_CONTEXT_BYTES` is 60 and UTF-8 ends at four bytes. Nothing else is
assumed.
The qualifications are those of the properties: a document whose publication
failed, a path whose events overtook each other, a build that ran out of
columns. Each induction has one lemma or step per action.

### LiveIndex

None of the properties is inductive. The view can only agree with the database
after the next step if the overlay is well formed over the base.
`InvariantHolds` proves the strengthening `IInv`, a conjunction of

- `TypeOK`, with the bitset as long as the base it sits on whenever the
  overlay is unlocked: a shorter one would drop tombstones silently;
- `BaseOK`, of the published and of the loaded base: rows are sorted by document,
  so that `doc_ranges`, made from a document's first and last row, covers that
  document and no other; and a document's rows are of one extraction;
- `StoredOK`: a document's rows are its own, of one extraction, and active only
  while its status is 'ok', so that `for_each_active_chunk` (which filters on the
  status) and `load_chunks_for_doc` (which does not) agree;
- `OverlayOK`: tombstones hide a document's base rows all together or not at all,
  and hide them whenever it has overflow rows. Without it a document whose
  publication failed could be half hidden when it is modified again;
- `RebuildOK`: what `StoreBase` is about to publish is the database, because the
  writer is the only one who writes; and then the length the fresh overlay gets;
- `DeletingOK`: a document is inactive in the database before it is tombstoned;
- `ViewMatchesDatabase` itself. `NoDoubleVisibility` follows from `BaseOK` and
  `OverlayOK`.

The induction has one step per action. The lemmas say what `DocRange`,
`TombstoneDoc` and `ModifyDoc` do to the visible set of the document they are
given and of the others; the refinement follows from the same lemmas: a commit
is a `Write`, a publication a `Publish`, `StoreBase` and `Restart` are `Refresh`,
and all else stutters. TLC checks the same properties on the small instance.

`OverlayBounded` is inductive with `IInv`: every way back to the writer's `recv`
goes through the thresholds, a rebuild or a start.

### Pipeline

`StampVouchesForContent` compares a row with a file although many steps lie
between. What every step keeps is stamp <= content <= latest: a job is stamped
no later than the file's last write (`JobsOK`), what is extracted is read no
earlier than it was stamped and is no newer than the file (`MessagesOK`), a row
is one of these messages (`RowsOK`), and a file that is there has its latest
content (`FilesOK`). If the stamp is the file's, so is the content.
`PendingIsExact` is carried along with the types: the counter is the pool and
the workers that have not sent.

`QuietMeansCurrent` is about the end of a chain, and nothing about the end is
inductive. `Tracked` says of a path, at every moment, that whoever looks at it
next will find it as it is: its last event on the way says whether it is there;
if it has none, what the scan has planned for it is right; if nothing is
planned, what the extractions in flight have statted and read is right; if there
are none, its last message is right; and if there is none, its row. When all is
quiet only the last is left. Events or results that overtake one another break
the chain, which is what the property excepts (`overlapped`, `missed`), and so
does the deleted row that the scan takes for clean (`Undeleted`).

### BigramBuilder

Between two atomic operations a thread relies on what it has read: a column it
is about to set a bit in is the published one of its key (`HandsOK`); a column
it is about to publish is reserved by no one else (`AllocationOK`, while the
counter has not reached the end); a bigram without its bit is of a chunk that
waits or in a thread's hands (`RecordedOK`). A built index is then complete
(`BuiltOK`).

### Frontend

`AppliedHitsAnswerQuery` needs the stamps (`StampsOK`): requests and results
carry none later than the last submission, and what carries the last was made
for the query and the mode on the screen. There is at most one request and one
result (`SlotOK`). `SelectionInList` is inductive with the types.

### TextLemmas

Most of what a search rests on is a function of texts, and its facts are about
texts of any length. They are proved by ordinary induction over numbers, which
the library states with an operator as parameter and which is therefore derived
here for a set in place of the operator (`InductionOver`, from `LeastNumber`).
From it come the unfoldings of the recursive functions (folds over a text,
levels of trees) and what they compute: what folding does to a text that is cut
in two (`Spelled` and `CollapseBlanks` of a concatenation), that collapsing
keeps a stretch of a text a stretch of the result, that pages and their form
feeds add up to the text, that a bigram of a part is a bigram of the whole, and
that a tree does not exclude a text which has all its bigrams, whichever of them
the index lacks (`LiteralIncludes`).

Expressions need an induction of their own: what holds of an expression when it
holds of its parts holds of all in `Hirs` (`HirInduction`), by induction over the
levels, and a function with the step of `MinLen`, `Ends`, `Decompose` or
`HidesAnEdge` exists for the same reason (`HirRecursion`). What is then proved of
an expression that hides no edge, in `MatchHolds`, is what `Decompose` claims of
any match of it, from position i to j of a text:

- its tree does not exclude the text, whichever bigrams the index lacks;
- unless the match is empty, its first byte is one of `first` where that is known,
  and its last byte one of `last`;
- if it cannot be empty, it is not (`MatchLengths` compares `MinLen` and `MaxLen`
  with where the matcher ends).

The step for a sequence is the one that matters (`ConcatHolds`): a match of it is
a path from part to part (`PathExists`), and a bigram that is asked for at the seam of
two parts is the last byte of one and the first byte of the next, which are
neighbours in the text (`SeamHolds`); for stride 2 the part between them has
length one. Where a part may be empty the neighbours are others, and
`collect_first` and `collect_last` walk over it (`ConcatEdges`); the shapes that
`HidesAnEdge` names are the ones where that walk goes wrong, and the proof uses
their absence nowhere else. An alternation with a side that claims nothing claims
nothing (`AlternationHolds`). `RegexIncludes` sums up.

### BigramQuery

What is looked up is what the request asks for (`InHand`), so the theorems are
about trees. `TypesAreRight` says that each is in the normal form that
`simplify_and` and `simplify_or` keep at every level: no child has its parent's
operator, none is `Any`, a node has two children at least. A literal is among the
stretches of a text it is in, and `LiteralIncludes` applies;
`RegexNeverExcludes` is `RegexIncludes` for the request at hand.

`FuzzyToleratesTypos` is a count. The probes k * (len - 1) / (n - 1) are at
distinct places of the term (`ProbesSpread`, integer division included), so of
them, too, the text lacks no more than the typos allowed; so as many as are
required are among those it has (`SubsetOfSize`), and the branch for that set is
in the tree (`FuzzyIncludes`). Keys that the index dropped count as neither: a
combination that is not tracked at all excludes nothing.

### Extraction

The finished pages hold every short stretch in one chunk; the page in hand holds
those that begin at or before the next window (`UnsplitUpTo`), because the next
window begins `Overlap` before the last one ended; the keys so far are behind
the next one (`ChunksBehind`). That suffices for the first three theorems. For
`WindowsAreExact` the chunks so far are, at each step, the closed form of the
finished pages and a prefix of that of the page in hand (`WindowsMade`).
`EmptyIffWhite` has two halves: the loops run only over a text that is not white
(`EmptyInv`), and pages that are finished without a chunk have no other character
than white ones (`NoChunksNoText`), so that the second return of an empty document,
at the end of the loops, is never taken.
`PhrasesAreSearchable` joins `PhrasesNeverSplit` to the lemma that folding maps
a stretch of a text to a stretch of the folded text, up to the blanks at its
edges, which trimming the query removes.

### TextSearch

`IndexInv` is inductive: the rows of base and of overflow are distinct and of
their document's texts, tombstones hide a document's base rows all together or
not at all, and what is live (base rows not hidden, and overflow rows) is what
the database has active. A search is one step, so each theorem about hits is
about a request and the index it met, which the next request replaces.

Of a walk three things are shown: that it lists rows of what it walks
which pass the filter, that it lists no row twice, and that it lists all of them
unless it stopped at its limit (`Lists`, `Complete`). Ranking permutes. For a
literal the prefilter must not exclude a row whose text contains the needle
(`LiteralIncludes`), whatever columns the index lacks; then base and overflow
together list what the database would, and `LiteralSearchIsExact` follows, and
with the lemmas about windows and folding `PhraseIsFound`. The two bands of a
fuzzy answer are separate because the second takes no candidate of a document
that the first has found, whether or not the first was cut at the limit.
`TypeCorrect` needs the limits of every walk (`AnswerInv`).
`RegexIsExact` applies `RegexIncludes` to the text as extracted, on which the
expression matches, and has to carry it to the folded one, which the index holds:
where nothing was folded away the two differ in case only, and case does not
change a text's bigrams (`WindowsLowercase`).

`SnippetsShow` is about offsets. A border of a text is where its first n
characters end (`ByteAt`), and borders lie a character apart (`OffsetsGrow`);
`snap_char_boundary` leaves the last border up to an offset (`CutIs`) and moves it
by less than a character, at most half the context (`CutBetween`). So the window
reaches back to the border before the match and on beyond its end, also when the
offset itself is inside a character and was moved first (`RenderCovers`). What is
collapsed is found in what is collapsed around it (`CollapsedFound`), which is
enough for an expression (`MatchShown`). A literal is not collapsed: its needle is
found in the folded text, rescaled by the quotient of two lengths that are equal
for a plain text, so that the rounded offset is exact (`RoundedIsExact`), and has
no blank at its edges (`NeedleEnds`); a stretch with such edges of a text that
collapsing leaves alone survives collapsing in any window around it
(`CleanPartFound`, `NeedleShown`).

### Only model-checked

Liveness (`ThresholdsAreActedOn`, `PendingReturnsToZero`, `StopReturns`,
`LatestQueryAnswered`, `QuitEnds`, `BuildTerminates`, `ExtractionEnds`), which
needs `ENABLED`. Every invariant and every safety property of a step that a passing
run checks is also a theorem. What recursive definitions compute is proved where the
induction could be derived for a set (`TextLemmas`).

## 5. Findings

The violation runs, each with its counterexample and the line it contradicts,
are in `PROJECT.json`. Disagreements between documents and code that were met
and have no run:

- `bigram_query.rs:198-201` says that out of N bigrams N - 2 * max_typos must be
  present; the code requires n - max_typos of the probes. "abca" has one typo
  to spend and does not find "abba" (two of three bigrams gone).
  `FuzzyToleratesMissingBigrams` states what the code does grant.
- The prefilter works on the normalised text (deunicode, collapsed whitespace)
  and the regular expression on the original (`query/regex.rs:25-26`): a literal
  with two spaces or with a blank at the edge of a chunk, or a `.` that stands
  for a character deunicode writes as two, is found in the overlay and excluded
  in the base, so that a hit disappears at the next rebuild.
  `RegexSearchIsExact` holds where nothing was folded away.
- `query/mod.rs:109` says that whitespace-only queries return no hits; an
  expression of blanks only is searched for (`query/regex.rs:18` tests for the
  empty string).
- `query/literal.rs:67-72`: hits are ranked after the walk has stopped at the
  limit, so the best hit may be among those that were cut; base rows come first.
- `query/fuzzy.rs`: up to 2048 candidates the matcher sees file name, path, page
  number and preview of a chunk only; a match further inside scores nothing, and
  with more candidates it would be found.
- `query/mod.rs:16-18` and `fuzzy.rs:39`: the band of file names is computed
  from the base, and a document that is only in the overflow cannot be in it
  until the next rebuild.
- `normalize.rs:36` says that control characters are replaced by a space;
  `normalize_for_index` keeps DEL (line 49 tests for less than 0x20), and
  `collapse_whitespace_for_display`, which asks `is_control`, makes it a space in
  the snippet: a query with DEL in it is found and not shown. `SnippetShowsMatch` excepts
  such rows for literals (`IsShownAsItIs`).
- `tui/keys.rs:142-144` says that hits which do not match the visible query are
  never painted; an invalid expression keeps the old hits under an error
  message, and Enter on one of them removes the message (`tui/keys.rs:104`).
- `ui/search.rs:127-130` says that a worker panic "would already have been
  surfaced through `result` as an `Err`"; nothing catches it, no result is
  published, and the search never ends. `LatestQueryAnswered` excepts a panicked
  worker; what the code does guarantee after a panic, that the session can still
  be ended, is in `QuitEnds`.
- `app/handle.rs:19-22`: `pending` counts what the writer "has not yet
  observed"; it is decremented when the result is put in the channel.
- `app/handle.rs:64-65`: stop lets the threads "drain their queues"; the
  coordinator leaves with watch events unread. The next scan finds them.
- `extract.rs:156-159`: error rows "won't loop forever"; `decide_dirty` retries
  each of them at every start.
- `watcher.rs:50-51`: `Removed` means that the file "no longer exists"; events
  of kind Remove are not probed. A file that was put back has its own event.
- `scanner.rs:170`: a walk entry that fails is skipped, and the row left over is
  marked deleted though the file is there (`MissFile`, under `Faults`).
- `architecture.md:157`: "more than 10%" of tombstones; the code uses >=.
- The 65,536 columns of the repository's README are keys; there are at most 5000
  columns.
- `ui/search.rs:67-68` describes a teardown on drop; there is no `Drop`.

## 6. Not modelled

- Scanner and watcher: ignore rules, symlinks, extractor versions; which paths
  are PDFs; a rename as one event (it is a removal and a write here).
- Bigram build: the extraction of keys from bytes and the skip-1 index, which is
  a second instance of the same code. `BigramTrees` models what the keys of a
  text are.
- Front end: the frame loop of the GUI, scrolling, word erasing; rendering and
  launching viewers; argument parsing. They hold no state that a property
  here is about.
- SQLite inside a transaction; the statistics in `IndexProgress` other than
  `pending`.
- pdftotext, notify, rayon, deunicode, regex, neo_frizbee and the file system are
  external: modelled from their use, or any result where the use leaves it open.

## 7. Plan

1. Done: `LiveIndex` with `SearchView`, `Pipeline`, `Frontend`, `BigramBuilder`,
   `BigramTrees` and `BigramQuery`, `PageText`, `Extraction`, `TextSearch`; the
   theorems above.
2. Composition: an abstract `DocumentTable` that `Pipeline`'s writer steps and
   `LiveIndex`'s commits both implement, so that "what is quiet is current" and
   "what is shown is what is stored" join to "what is shown is on disk".
3. Models: renames as one event, ignore rules and extractor versions in
   `Pipeline`; `Bitset` by words.
4. Proofs: the refinement of `DocumentTable` by both, once it is there; and from it
   what is shown when all is quiet.
