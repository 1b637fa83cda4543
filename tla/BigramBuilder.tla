---------------------------- MODULE BigramBuilder ----------------------------
(***************************************************************************)
(* The parallel build of the bigram prefilter (bigram.rs): rayon threads   *)
(* record the bigrams of the chunks in a shared table of columns that they *)
(* allocate with a load, a fetch_add and a compare_exchange; compress then *)
(* keeps the columns that filter, and query intersects them.               *)
(*                                                                         *)
(* A chunk is the set of its bigram keys. The consecutive index and the    *)
(* skip-1 index are two builders of this kind, with different cutoffs.     *)
(***************************************************************************)
EXTENDS Integers, FiniteSets

CONSTANTS
    Items,           \* the chunks
    Keys,            \* the bigram keys
    Threads,         \* the rayon threads
    MaxColumns,      \* MAX_BIGRAM_COLUMNS
    CounterModulus,  \* 2^16: next_column is an AtomicU16
    MinDensityPct    \* min_density_pct, DefaultDensity when it is None

DefaultDensity == -1

ASSUME BuilderAssumption ==
    /\ IsFiniteSet(Items) /\ IsFiniteSet(Keys)
    /\ MaxColumns \in Nat \ {0}
    /\ CounterModulus \in Nat /\ MaxColumns < CounterModulus
    /\ MinDensityPct \in Nat \cup {DefaultDensity}

VARIABLES
    content,     \* the keys of each chunk
    lookup,      \* the column of each key, NO_COLUMN without one
    nextColumn,  \* the column allocator
    colData,     \* the slab: the items recorded in each column
    waiting,     \* chunks no thread has taken
    thread,      \* what each thread is doing
    populated,   \* how many items had content
    index,       \* the BigramIndex: the items of each key it keeps
    built,       \* compress has run
    exhausted    \* history: a thread found no column left

sharedVars == <<lookup, nextColumn, colData>>
outputVars == <<index, built>>
vars == <<content, sharedVars, waiting, thread, populated, outputVars, exhausted>>

-----------------------------------------------------------------------------
NO_COLUMN == -1
Columns   == 0 .. MaxColumns - 1
Idle      == [phase |-> "idle"]

\* A thread adding item, with the keys it has not seen in it yet.
Adding(item, keys) == [phase |-> "next", item |-> item, keys |-> keys]

InHand(t, phase, key, col) ==
    [phase |-> phase, item |-> thread[t].item, keys |-> thread[t].keys, key |-> key, col |-> col]

Init ==
    /\ content \in [Items -> SUBSET Keys]
    /\ lookup = [k \in Keys |-> NO_COLUMN]
    /\ nextColumn = 0
    /\ colData = [c \in Columns |-> {}]
    /\ waiting = Items
    /\ thread = [t \in Threads |-> Idle]
    /\ populated = 0
    /\ index = [k \in {} |-> {}] /\ built = FALSE
    /\ exhausted = FALSE

\* add_item_content. A chunk without bigrams may be too short to be counted.
AddItem(t) ==
    /\ thread[t] = Idle
    /\ \E i \in waiting :
          /\ waiting' = waiting \ {i}
          /\ \/ thread' = [thread EXCEPT ![t] = Adding(i, content[i])]
             \/ content[i] = {} /\ UNCHANGED thread
    /\ UNCHANGED <<content, sharedVars, populated, outputVars, exhausted>>

\* record_bigram of a key not seen in this item, and get_or_alloc_column's load.
LoadColumn(t) ==
    /\ thread[t].phase = "next"
    /\ \E k \in thread[t].keys :
          thread' = [thread EXCEPT ![t] =
              InHand(t, IF lookup[k] = NO_COLUMN THEN "reserve" ELSE "set", k, lookup[k])]
    /\ UNCHANGED <<content, sharedVars, waiting, populated, outputVars, exhausted>>

\* Mutant: the counter is checked one column late.
ReserveOneMore(t) ==
    /\ thread[t].phase = "reserve"
    /\ nextColumn' = (nextColumn + 1) % CounterModulus
    /\ IF nextColumn > MaxColumns
       THEN /\ thread' = [thread EXCEPT ![t] = Adding(@.item, @.keys \ {@.key})]
            /\ exhausted' = TRUE
       ELSE /\ thread' = [thread EXCEPT ![t].phase = "publish", ![t].col = nextColumn]
            /\ UNCHANGED exhausted
    /\ UNCHANGED <<content, lookup, colData, waiting, populated, outputVars>>

\* Mutant: a load and a store, so that an increment can be lost.
ReserveNotAtomically(t) ==
    /\ thread[t].phase = "reserve"
    /\ nextColumn' \in {nextColumn, (nextColumn + 1) % CounterModulus}
    /\ IF nextColumn >= MaxColumns
       THEN /\ thread' = [thread EXCEPT ![t] = Adding(@.item, @.keys \ {@.key})]
            /\ exhausted' = TRUE
       ELSE /\ thread' = [thread EXCEPT ![t].phase = "publish", ![t].col = nextColumn]
            /\ UNCHANGED exhausted
    /\ UNCHANGED <<content, lookup, colData, waiting, populated, outputVars>>

\* next_column.fetch_add, which wraps; without a column the key is dropped.
ReserveColumn(t) ==
    /\ thread[t].phase = "reserve"
    /\ nextColumn' = (nextColumn + 1) % CounterModulus
    /\ IF nextColumn >= MaxColumns
       THEN /\ thread' = [thread EXCEPT ![t] = Adding(@.item, @.keys \ {@.key})]
            /\ exhausted' = TRUE
       ELSE /\ thread' = [thread EXCEPT ![t].phase = "publish", ![t].col = nextColumn]
            /\ UNCHANGED exhausted
    /\ UNCHANGED <<content, lookup, colData, waiting, populated, outputVars>>

\* Mutant: a plain store, so that the last thread wins.
PublishByStore(t) ==
    /\ thread[t].phase = "publish"
    /\ lookup' = [lookup EXCEPT ![thread[t].key] = thread[t].col]
    /\ thread' = [thread EXCEPT ![t].phase = "set"]
    /\ UNCHANGED <<content, nextColumn, colData, waiting, populated, outputVars, exhausted>>

\* Mutant: the loser waits for its own column.
PublishOrSpin(t) ==
    /\ thread[t].phase = "publish" /\ lookup[thread[t].key] = NO_COLUMN
    /\ lookup' = [lookup EXCEPT ![thread[t].key] = thread[t].col]
    /\ thread' = [thread EXCEPT ![t].phase = "set"]
    /\ UNCHANGED <<content, nextColumn, colData, waiting, populated, outputVars, exhausted>>

\* lookup[key].compare_exchange: the first thread wins, the others use its
\* column and leave theirs unused.
PublishColumn(t) ==
    /\ thread[t].phase = "publish"
    /\ LET key == thread[t].key
           col == IF lookup[key] = NO_COLUMN THEN thread[t].col ELSE lookup[key]
       IN  /\ lookup' = [lookup EXCEPT ![key] = col]
           /\ thread' = [thread EXCEPT ![t].phase = "set", ![t].col = col]
    /\ UNCHANGED <<content, nextColumn, colData, waiting, populated, outputVars, exhausted>>

\* slab[idx].fetch_or: the item's bit in the column.
SetBit(t) ==
    /\ thread[t].phase = "set"
    /\ colData' = [colData EXCEPT ![thread[t].col] = @ \cup {thread[t].item}]
    /\ thread' = [thread EXCEPT ![t] = Adding(@.item, @.keys \ {@.key})]
    /\ UNCHANGED <<content, lookup, nextColumn, waiting, populated, outputVars, exhausted>>

\* populated.fetch_add at the end of the item.
FinishItem(t) ==
    /\ thread[t].phase = "next" /\ thread[t].keys = {}
    /\ thread' = [thread EXCEPT ![t] = Idle]
    /\ populated' = populated + 1
    /\ UNCHANGED <<content, sharedVars, waiting, outputVars, exhausted>>

-----------------------------------------------------------------------------
(* compress, and the index                                                 *)

words == (Cardinality(Items) + 63) \div 64

\* The density filter: neither too rare nor in nine of ten items.
Filters(col) ==
    LET popcount == Cardinality(colData[col])
    IN  /\ IF MinDensityPct = DefaultDensity THEN popcount * 4 >= words * 8
           ELSE populated > 0 /\ popcount * 100 >= populated * MinDensityPct
        /\ ~(populated > 0 /\ popcount * 10 >= populated * 9)

\* columns_used: the counter, which may have wrapped, up to the limit.
ColumnsUsed == IF nextColumn < MaxColumns THEN nextColumn ELSE MaxColumns

Kept(k) == lookup[k] # NO_COLUMN /\ lookup[k] < ColumnsUsed /\ Filters(lookup[k])

BuildDone == waiting = {} /\ \A t \in Threads : thread[t] = Idle

\* The parallel loop has been joined.
Compress ==
    /\ BuildDone /\ ~built
    /\ built' = TRUE
    /\ index' = [k \in {j \in Keys : Kept(j)} |-> colData[lookup[k]]]
    /\ UNCHANGED <<content, sharedVars, waiting, thread, populated, exhausted>>

\* BigramIndex::query on a pattern with these keys: the intersection over the
\* keys that are tracked; every item when none is (None: a full scan).
Query(keys) == {i \in Items : \A k \in keys \cap DOMAIN index : i \in index[k]}

Record(t) ==
    AddItem(t) \/ LoadColumn(t) \/ ReserveColumn(t) \/ PublishColumn(t) \/ SetBit(t) \/ FinishItem(t)

Built == built /\ UNCHANGED vars

Next == (\E t \in Threads : Record(t)) \/ Compress \/ Built

Spec     == Init /\ [][Next]_vars
FairSpec == Spec /\ (\A t \in Threads : WF_vars(Record(t))) /\ WF_vars(Compress)

-----------------------------------------------------------------------------
(* Properties                                                              *)

ThreadTypeOK(s) ==
    \/ s = Idle
    \/ s \in [phase : {"next"}, item : Items, keys : SUBSET Keys]
    \/ /\ s \in [phase : {"reserve", "publish", "set"}, item : Items, keys : SUBSET Keys,
                 key : Keys, col : Columns \cup {NO_COLUMN}]
       /\ s.key \in s.keys
       /\ s.phase = "reserve" \/ s.col \in Columns

\* Every variable has its type: no thread ever indexes the slab beyond its last
\* column, however many columns are asked for and whenever the counter wraps.
TypeOK ==
    /\ content \in [Items -> SUBSET Keys]
    /\ lookup \in [Keys -> Columns \cup {NO_COLUMN}]
    /\ nextColumn \in 0 .. CounterModulus - 1
    /\ colData \in [Columns -> SUBSET Items]
    /\ waiting \subseteq Items
    /\ DOMAIN thread = Threads /\ \A t \in Threads : ThreadTypeOK(thread[t])
    /\ populated \in Nat
    /\ DOMAIN index \subseteq Keys /\ \A k \in DOMAIN index : index[k] \subseteq Items
    /\ built \in BOOLEAN /\ exhausted \in BOOLEAN

\* Two keys never share a column, and no two threads hold the same new one, as
\* long as the allocator has columns left.
ColumnsAreDistinct ==
    ~exhausted =>
        /\ \A j, k \in Keys : j # k /\ lookup[j] # NO_COLUMN => lookup[j] # lookup[k]
        /\ \A t \in Threads : thread[t].phase = "publish" =>
              \A k \in Keys : lookup[k] # thread[t].col

\* The prefilter "never decides hits": whatever way the threads race for
\* columns, an item that contains a pattern is a candidate for it - provided
\* that the build did not run out of columns.
NoFalseNegatives ==
    built /\ ~exhausted =>
        \A i \in Items : \A pattern \in SUBSET content[i] : i \in Query(pattern)

\* The build ends: no thread waits for another one.
BuildTerminates == <>built

\* bigram.rs:390-392, the bitset that query returns has bit i set "iff item i
\* *might* contain `pattern`": also in a build that ran out of columns.
QueryIsComplete ==
    built => \A i \in Items : \A pattern \in SUBSET content[i] : i \in Query(pattern)
=============================================================================
