-------------------------- MODULE BigramBuilderProofs --------------------------
(***************************************************************************)
(* The parallel build of the prefilter is correct for any chunks, keys,    *)
(* threads, columns and densities, as long as it does not run out of       *)
(* columns: no two keys share one, and no bit is lost.                     *)
(*                                                                         *)
(* The induction needs what a thread may rely on between two atomic        *)
(* operations: a column it is about to set a bit in is the published one   *)
(* of its key (HandsOK), a column it is about to publish is nobody else's  *)
(* (AllocationOK), and a bigram whose bit is not set yet is of a chunk     *)
(* that waits or in the hands of a thread (RecordedOK).                    *)
(***************************************************************************)
EXTENDS BigramBuilder, TLAPS

NextRecord == [phase : {"next"}, item : Items, keys : SUBSET Keys]
HandRecord == [phase : {"reserve", "publish", "set"}, item : Items, keys : SUBSET Keys,
               key : Keys, col : Columns \cup {NO_COLUMN}]

HandsOK == \A t \in Threads : thread[t].phase = "set" => lookup[thread[t].key] = thread[t].col

Publishing(t) == thread[t].phase = "publish"

AllocationOK ==
    ~exhausted =>
        /\ nextColumn <= MaxColumns
        /\ \A k \in Keys : lookup[k] < nextColumn
        /\ \A t \in Threads : Publishing(t) => thread[t].col < nextColumn
        /\ \A t, u \in Threads : Publishing(t) /\ Publishing(u) /\ t # u => thread[t].col # thread[u].col

InHands(i, k) == \E t \in Threads : thread[t] # Idle /\ thread[t].item = i /\ k \in thread[t].keys

BitSet(i, k) == lookup[k] # NO_COLUMN /\ i \in colData[lookup[k]]

RecordedOK ==
    ~exhausted => \A i \in Items : \A k \in content[i] : i \in waiting \/ InHands(i, k) \/ BitSet(i, k)

BuiltOK ==
    built => /\ BuildDone
             /\ \A k \in DOMAIN index : lookup[k] # NO_COLUMN /\ index[k] = colData[lookup[k]]

IInv == TypeOK /\ HandsOK /\ ColumnsAreDistinct /\ AllocationOK /\ RecordedOK /\ BuiltOK

-----------------------------------------------------------------------------
(* Facts about threads and the counter.                                    *)

LEMMA ThreadShapes ==
    ASSUME NEW s
    PROVE  ThreadTypeOK(s) <=> \/ s = Idle
                               \/ s \in NextRecord
                               \/ s \in HandRecord /\ s.key \in s.keys /\ (s.phase = "reserve" \/ s.col \in Columns)
  BY DEF ThreadTypeOK, NextRecord, HandRecord

\* The counter wraps, and below the number of columns it does not.
LEMMA CounterStep ==
    ASSUME NEW n \in 0 .. CounterModulus - 1
    PROVE  /\ (n + 1) % CounterModulus \in 0 .. CounterModulus - 1
           /\ n < MaxColumns => (n + 1) % CounterModulus = n + 1
  BY BuilderAssumption

LEMMA ColumnNumbers == NO_COLUMN \notin Columns /\ \A c \in Columns : c \in Nat /\ c < MaxColumns
  BY BuilderAssumption DEF NO_COLUMN, Columns

\* What a record in the hand of thread t may be, by its phase.
LEMMA HandOf ==
    ASSUME TypeOK, NEW t \in Threads
    PROVE  /\ thread[t].phase = "next" => thread[t] \in NextRecord
           /\ thread[t].phase \in {"reserve", "publish", "set"} =>
                 thread[t] \in HandRecord /\ thread[t].key \in thread[t].keys
           /\ thread[t].phase \in {"publish", "set"} => thread[t].col \in Columns
           /\ thread[t] # Idle => thread[t].item \in Items /\ thread[t].keys \subseteq Keys
<1>1. ThreadTypeOK(thread[t])
  BY DEF TypeOK
<1>2. CASE thread[t] = Idle
  BY <1>2 DEF Idle
<1>3. CASE thread[t] \in NextRecord
  BY <1>3 DEF NextRecord
<1>4. CASE thread[t] \in HandRecord /\ thread[t].key \in thread[t].keys
           /\ (thread[t].phase = "reserve" \/ thread[t].col \in Columns)
  BY <1>4 DEF HandRecord
<1> QED BY <1>1, <1>2, <1>3, <1>4, ThreadShapes

LEMMA AddingTyped ==
    ASSUME NEW i \in Items, NEW ks \in SUBSET Keys
    PROVE  /\ ThreadTypeOK(Adding(i, ks)) /\ Adding(i, ks) # Idle
           /\ Adding(i, ks).phase = "next" /\ Adding(i, ks).item = i /\ Adding(i, ks).keys = ks
  BY ThreadShapes DEF Adding, NextRecord, Idle

-----------------------------------------------------------------------------
LEMMA InitInv == Init => IInv
<1> SUFFICES ASSUME Init PROVE IInv
  OBVIOUS
<1>1. \A t \in Threads : thread[t] = Idle /\ ThreadTypeOK(thread[t])
  BY DEF Init, ThreadTypeOK
<1>2. TypeOK
  <2>1. nextColumn \in 0 .. CounterModulus - 1
    BY BuilderAssumption DEF Init
  <2>2. DOMAIN index \subseteq Keys /\ \A k \in DOMAIN index : index[k] \subseteq Items
    BY DEF Init
  <2>3. lookup \in [Keys -> Columns \cup {NO_COLUMN}] /\ colData \in [Columns -> SUBSET Items]
    BY DEF Init
  <2> QED BY <1>1, <2>1, <2>2, <2>3 DEF Init, TypeOK
<1>3. \A t \in Threads : thread[t].phase = "idle"
  BY <1>1 DEF Idle
<1>4. HandsOK /\ ColumnsAreDistinct /\ AllocationOK
  BY <1>3, BuilderAssumption DEF Init, HandsOK, ColumnsAreDistinct, AllocationOK, Publishing, NO_COLUMN
<1>5. RecordedOK /\ BuiltOK
  BY DEF Init, RecordedOK, BuiltOK
<1> QED BY <1>2, <1>4, <1>5 DEF IInv

\* While a thread has something to do, the index is not built.
LEMMA NotBuilt ==
    ASSUME IInv, NEW t \in Threads, thread[t] # Idle \/ waiting # {}
    PROVE  ~built
  BY DEF IInv, BuiltOK, BuildDone

-----------------------------------------------------------------------------
(* One lemma per action.                                                   *)

LEMMA AddInv ==
    ASSUME IInv, NEW t \in Threads, AddItem(t)
    PROVE  IInv'
<1> USE DEF IInv
<1>1. PICK i \in waiting :
          /\ waiting' = waiting \ {i}
          /\ \/ thread' = [thread EXCEPT ![t] = Adding(i, content[i])]
             \/ content[i] = {} /\ UNCHANGED thread
  BY DEF AddItem
<1>2. /\ thread[t] = Idle /\ UNCHANGED <<content, sharedVars, populated, outputVars, exhausted>>
      /\ i \in Items /\ content[i] \subseteq Keys /\ ~built
  BY NotBuilt DEF AddItem, TypeOK
<1>3. \A u \in Threads : u # t => thread'[u] = thread[u]
  BY <1>1 DEF TypeOK
<1>4. thread'[t] = Idle \/ thread'[t] = Adding(i, content[i])
  BY <1>1, <1>2 DEF TypeOK
<1>5. DOMAIN thread' = Threads /\ \A u \in Threads : ThreadTypeOK(thread'[u])
  <2>1. ThreadTypeOK(thread'[t])
    BY <1>2, <1>4, AddingTyped DEF ThreadTypeOK
  <2> QED BY <1>1, <1>3, <2>1 DEF TypeOK
<1>6. TypeOK'
  BY <1>1, <1>2, <1>5 DEF TypeOK, sharedVars, outputVars
<1>7. thread'[t].phase \notin {"set", "publish"}
  BY <1>2, <1>4, AddingTyped DEF Idle
<1>8. HandsOK' /\ ColumnsAreDistinct' /\ AllocationOK'
  BY <1>2, <1>3, <1>7 DEF HandsOK, ColumnsAreDistinct, AllocationOK, Publishing, sharedVars
<1>9. RecordedOK'
  <2> SUFFICES ASSUME ~exhausted, NEW j \in Items, NEW k \in content[j]
               PROVE  j \in waiting' \/ InHands(j, k)' \/ BitSet(j, k)
    BY <1>2 DEF RecordedOK, BitSet, sharedVars
  <2>1. CASE j = i
    <3>1. thread' = [thread EXCEPT ![t] = Adding(i, content[i])]
      BY <1>1, <2>1
    <3>2. thread'[t] = Adding(i, content[i])
      BY <3>1 DEF TypeOK
    <3> QED BY <1>2, <2>1, <3>2, AddingTyped DEF InHands
  <2>2. CASE j # i
    BY <1>1, <1>2, <1>3, <2>2 DEF RecordedOK, InHands
  <2> QED BY <2>1, <2>2
<1>10. BuiltOK'
  BY <1>2 DEF BuiltOK, outputVars
<1> QED BY <1>6, <1>8, <1>9, <1>10

\* A thread's record changes to another one of the same item and keys, and the
\* others keep theirs: what is in hands stays there.
LEMMA SameHands ==
    ASSUME TypeOK, NEW t \in Threads, thread[t] # Idle, thread'[t] # Idle,
           thread'[t].item = thread[t].item, thread'[t].keys = thread[t].keys,
           \A u \in Threads : u # t => thread'[u] = thread[u]
    PROVE  \A i, k : InHands(i, k) => InHands(i, k)'
  BY DEF InHands

LEMMA LoadInv ==
    ASSUME IInv, NEW t \in Threads, LoadColumn(t)
    PROVE  IInv'
<1> USE DEF IInv
<1>1. PICK k \in thread[t].keys :
          thread' = [thread EXCEPT ![t] =
              InHand(t, IF lookup[k] = NO_COLUMN THEN "reserve" ELSE "set", k, lookup[k])]
  BY DEF LoadColumn
<1>2. /\ thread[t] \in NextRecord /\ thread[t] # Idle /\ k \in Keys /\ ~built
      /\ UNCHANGED <<content, sharedVars, waiting, populated, outputVars, exhausted>>
  <2>1. thread[t] \in NextRecord /\ thread[t] # Idle
    BY HandOf DEF LoadColumn, Idle
  <2> QED BY <2>1, NotBuilt DEF LoadColumn, NextRecord
<1>3. \A u \in Threads : u # t => thread'[u] = thread[u]
  BY <1>1 DEF TypeOK
<1>4. thread'[t] = [phase |-> IF lookup[k] = NO_COLUMN THEN "reserve" ELSE "set",
                    item |-> thread[t].item, keys |-> thread[t].keys, key |-> k, col |-> lookup[k]]
  BY <1>1 DEF TypeOK, InHand
<1>5. lookup[k] \in Columns \cup {NO_COLUMN}
  BY <1>2 DEF TypeOK
<1>6. ThreadTypeOK(thread'[t])
  <2>1. thread'[t] \in HandRecord /\ thread'[t].key \in thread'[t].keys
    BY <1>2, <1>4, <1>5 DEF NextRecord, HandRecord
  <2>2. thread'[t].phase = "reserve" \/ thread'[t].col \in Columns
    BY <1>4, <1>5
  <2> QED BY <2>1, <2>2, ThreadShapes
<1>7. TypeOK'
  BY <1>1, <1>2, <1>3, <1>6 DEF TypeOK, sharedVars, outputVars
<1>8. HandsOK'
  BY <1>2, <1>3, <1>4 DEF HandsOK, sharedVars
<1>9. ColumnsAreDistinct' /\ AllocationOK'
  <2>1. thread'[t].phase # "publish"
    BY <1>4
  <2> QED BY <1>2, <1>3, <2>1 DEF ColumnsAreDistinct, AllocationOK, Publishing, sharedVars
<1>10. RecordedOK'
  <2>1. thread'[t] # Idle /\ thread'[t].item = thread[t].item /\ thread'[t].keys = thread[t].keys
    BY <1>4 DEF Idle
  <2> QED BY <1>2, <1>3, <2>1, SameHands DEF RecordedOK, BitSet, sharedVars
<1>11. BuiltOK'
  BY <1>2 DEF BuiltOK, outputVars
<1> QED BY <1>7, <1>8, <1>9, <1>10, <1>11

LEMMA ReserveInv ==
    ASSUME IInv, NEW t \in Threads, ReserveColumn(t)
    PROVE  IInv'
<1> USE DEF IInv
<1>1. /\ thread[t] \in HandRecord /\ thread[t].key \in thread[t].keys /\ thread[t] # Idle
      /\ ~built /\ UNCHANGED <<content, lookup, colData, waiting, populated, outputVars>>
      /\ nextColumn' = (nextColumn + 1) % CounterModulus
  <2>1. thread[t] \in HandRecord /\ thread[t].key \in thread[t].keys /\ thread[t] # Idle
    BY HandOf DEF ReserveColumn, Idle
  <2> QED BY <2>1, NotBuilt DEF ReserveColumn
<1>2. nextColumn \in 0 .. CounterModulus - 1 /\ nextColumn' \in 0 .. CounterModulus - 1
  BY <1>1, CounterStep DEF TypeOK
<1>3. \A u \in Threads : u # t => thread'[u] = thread[u]
  BY DEF ReserveColumn, TypeOK
<1>4. DOMAIN thread' = Threads
  BY DEF ReserveColumn, TypeOK
<1>5. CASE nextColumn >= MaxColumns
  <2>1. thread'[t] = Adding(thread[t].item, thread[t].keys \ {thread[t].key}) /\ exhausted' = TRUE
    BY <1>5 DEF ReserveColumn, TypeOK
  <2>2. ThreadTypeOK(thread'[t]) /\ thread'[t].phase = "next"
    BY <1>1, <2>1, AddingTyped DEF HandRecord
  <2>3. TypeOK'
    BY <1>1, <1>2, <1>3, <1>4, <2>1, <2>2 DEF TypeOK, outputVars
  <2>4. HandsOK'
    BY <1>1, <1>3, <2>2 DEF HandsOK
  <2>5. ColumnsAreDistinct' /\ AllocationOK' /\ RecordedOK'
    BY <2>1 DEF ColumnsAreDistinct, AllocationOK, RecordedOK
  <2> QED BY <1>1, <2>3, <2>4, <2>5 DEF BuiltOK, outputVars
<1>6. CASE ~(nextColumn >= MaxColumns)
  <2>1. /\ thread'[t] = [thread[t] EXCEPT !.phase = "publish", !.col = nextColumn]
        /\ exhausted' = exhausted
    BY <1>6 DEF ReserveColumn, TypeOK
  <2>2. nextColumn \in Columns /\ nextColumn \in Nat /\ nextColumn' = nextColumn + 1 /\ nextColumn' <= MaxColumns
    BY <1>1, <1>2, <1>6, CounterStep, BuilderAssumption DEF Columns
  <2>3. /\ thread'[t] \in HandRecord /\ thread'[t].phase = "publish" /\ thread'[t].col = nextColumn
        /\ thread'[t].item = thread[t].item /\ thread'[t].keys = thread[t].keys
        /\ thread'[t].key = thread[t].key
    BY <1>1, <2>1, <2>2 DEF HandRecord
  <2>4. ThreadTypeOK(thread'[t]) /\ thread'[t] # Idle
    BY <1>1, <2>2, <2>3, ThreadShapes DEF Idle
  <2>5. TypeOK'
    BY <1>1, <1>2, <1>3, <1>4, <2>1, <2>4 DEF TypeOK, outputVars
  <2>6. HandsOK'
    BY <1>1, <1>3, <2>3 DEF HandsOK
  <2>7. ASSUME ~exhausted
        PROVE  /\ \A k \in Keys : lookup[k] < nextColumn' /\ lookup[k] # nextColumn
               /\ \A u \in Threads : u # t /\ Publishing(u) => thread[u].col < nextColumn' /\ thread[u].col # nextColumn
    <3>1. \A k \in Keys : lookup[k] \in Int
      BY ColumnNumbers DEF TypeOK, NO_COLUMN
    <3>2. \A u \in Threads : Publishing(u) => thread[u].col \in Int
      BY HandOf, ColumnNumbers DEF Publishing
    <3> QED BY <2>2, <2>7, <3>1, <3>2 DEF AllocationOK
  <2>8. ColumnsAreDistinct'
    BY <1>1, <1>3, <2>1, <2>3, <2>7 DEF ColumnsAreDistinct, Publishing
  <2>9. AllocationOK'
    <3> SUFFICES ASSUME ~exhausted
                 PROVE  /\ nextColumn' <= MaxColumns
                        /\ \A k \in Keys : lookup[k] < nextColumn'
                        /\ \A u \in Threads : Publishing(u)' => thread'[u].col < nextColumn'
                        /\ \A u, v \in Threads : Publishing(u)' /\ Publishing(v)' /\ u # v => thread'[u].col # thread'[v].col
      BY <1>1, <2>1 DEF AllocationOK
    <3>1. \A u \in Threads : Publishing(u)' => thread'[u].col < nextColumn'
      BY <1>3, <2>2, <2>3, <2>7 DEF Publishing
    <3>2. \A u, v \in Threads : Publishing(u)' /\ Publishing(v)' /\ u # v => thread'[u].col # thread'[v].col
      BY <1>3, <2>3, <2>7 DEF Publishing, AllocationOK
    <3> QED BY <2>2, <2>7, <3>1, <3>2
  <2>10. RecordedOK'
    BY <1>1, <1>3, <2>1, <2>3, <2>4, SameHands DEF RecordedOK, BitSet
  <2> QED BY <1>1, <2>5, <2>6, <2>8, <2>9, <2>10 DEF BuiltOK, outputVars
<1> QED BY <1>5, <1>6

\* Only a key without a column gets one, and gets the publisher's own.
LEMMA PublishInv ==
    ASSUME IInv, NEW t \in Threads, PublishColumn(t)
    PROVE  IInv'
<1> USE DEF IInv
<1> DEFINE key == thread[t].key
           col == IF lookup[key] = NO_COLUMN THEN thread[t].col ELSE lookup[key]
<1>1. /\ thread[t] \in HandRecord /\ key \in thread[t].keys /\ thread[t] # Idle /\ thread[t].col \in Columns
      /\ Publishing(t) /\ key \in Keys
      /\ ~built /\ UNCHANGED <<content, nextColumn, colData, waiting, populated, outputVars, exhausted>>
  <2>1. /\ thread[t] \in HandRecord /\ key \in thread[t].keys /\ thread[t] # Idle
        /\ thread[t].col \in Columns /\ key \in Keys
    BY HandOf DEF PublishColumn, Idle, HandRecord
  <2> QED BY <2>1, NotBuilt DEF PublishColumn, Publishing
<1>2. col \in Columns
  BY <1>1 DEF TypeOK
<1>3. lookup' = [lookup EXCEPT ![key] = col] /\ thread' = [thread EXCEPT ![t].phase = "set", ![t].col = col]
  BY DEF PublishColumn
<1>4. lookup' \in [Keys -> Columns \cup {NO_COLUMN}] /\ lookup'[key] = col
  BY <1>1, <1>2, <1>3 DEF TypeOK
<1>5. \A k \in Keys : lookup'[k] = lookup[k] \/ (k = key /\ lookup[k] = NO_COLUMN /\ lookup'[k] = thread[t].col)
  <2>1. lookup[key] = NO_COLUMN => col = thread[t].col
    OBVIOUS
  <2>2. lookup[key] # NO_COLUMN => col = lookup[key]
    OBVIOUS
  <2>0. lookup' = [lookup EXCEPT ![key] = col] /\ lookup \in [Keys -> Columns \cup {NO_COLUMN}]
    BY <1>3 DEF TypeOK
  <2> HIDE DEF key, col
  <2>3. \A k \in Keys : lookup'[k] = IF k = key THEN col ELSE lookup[k]
    BY <2>0
  <2> QED BY <2>1, <2>2, <2>3
<1>6. \A u \in Threads : u # t => thread'[u] = thread[u]
  BY <1>3 DEF TypeOK
<1>7. DOMAIN thread' = Threads
  BY <1>3 DEF TypeOK
<1>8. /\ thread'[t] \in HandRecord /\ thread'[t].phase = "set" /\ thread'[t].col = col
      /\ thread'[t].item = thread[t].item /\ thread'[t].keys = thread[t].keys /\ thread'[t].key = key
  <2>1. thread'[t] = [thread[t] EXCEPT !.phase = "set", !.col = col]
    BY <1>3 DEF TypeOK
  <2> HIDE DEF key, col
  <2> QED BY <1>1, <1>2, <2>1 DEF HandRecord, key
<1> HIDE DEF key, col
<1>9. ThreadTypeOK(thread'[t]) /\ thread'[t] # Idle
  BY <1>1, <1>2, <1>8, ThreadShapes DEF Idle
<1>10. TypeOK'
  BY <1>1, <1>4, <1>6, <1>7, <1>9 DEF TypeOK, outputVars
<1>11. HandsOK'
  <2>1. \A u \in Threads : thread[u].phase = "set" => thread[u].col # NO_COLUMN /\ thread[u].key \in Keys
    BY HandOf, ColumnNumbers DEF HandRecord
  <2>2. \A u \in Threads : u # t /\ thread[u].phase = "set" => lookup'[thread[u].key] = thread[u].col
    BY <1>5, <2>1 DEF HandsOK
  <2> QED BY <1>4, <1>6, <1>8, <2>2 DEF HandsOK
<1>12. \A u \in Threads : u # t /\ Publishing(u)' => Publishing(u) /\ thread'[u].col = thread[u].col
  BY <1>6 DEF Publishing
<1>13. ~Publishing(t)'
  BY <1>8 DEF Publishing
<1>14. ColumnsAreDistinct'
  <2> SUFFICES ASSUME ~exhausted
               PROVE  /\ \A j, k \in Keys : j # k /\ lookup'[j] # NO_COLUMN => lookup'[j] # lookup'[k]
                      /\ \A u \in Threads : Publishing(u)' => \A k \in Keys : lookup'[k] # thread'[u].col
    BY <1>1 DEF ColumnsAreDistinct, Publishing
  <2>1. \A k \in Keys : lookup[k] # thread[t].col
    BY <1>1 DEF ColumnsAreDistinct, Publishing
  <2>2. thread[t].col # NO_COLUMN
    BY <1>1, ColumnNumbers
  <2>3. \A j, k \in Keys : j # k /\ lookup'[j] # NO_COLUMN => lookup'[j] # lookup'[k]
    BY <1>5, <2>1, <2>2 DEF ColumnsAreDistinct
  <2>4. \A u \in Threads : u # t /\ Publishing(u) => \A k \in Keys : lookup'[k] # thread[u].col
    BY <1>1, <1>5 DEF ColumnsAreDistinct, AllocationOK, Publishing
  <2> QED BY <1>12, <1>13, <2>3, <2>4
<1>15. AllocationOK'
  BY <1>1, <1>5, <1>12, <1>13 DEF AllocationOK
<1>16. RecordedOK'
  <2>1. \A i \in Items : \A k \in content[i] : BitSet(i, k) => BitSet(i, k)'
    BY <1>1, <1>5 DEF BitSet, TypeOK
  <2> QED BY <1>1, <1>6, <1>8, <1>9, <2>1, SameHands DEF RecordedOK
<1> QED BY <1>1, <1>10, <1>11, <1>14, <1>15, <1>16 DEF BuiltOK, outputVars

LEMMA SetInv ==
    ASSUME IInv, NEW t \in Threads, SetBit(t)
    PROVE  IInv'
<1> USE DEF IInv
<1> DEFINE key == thread[t].key
           col == thread[t].col
           item == thread[t].item
<1>1. /\ thread[t] \in HandRecord /\ thread[t] # Idle /\ col \in Columns /\ key \in Keys /\ item \in Items
      /\ lookup[key] = col /\ ~built
      /\ UNCHANGED <<content, lookup, nextColumn, waiting, populated, outputVars, exhausted>>
  <2>1. thread[t] \in HandRecord /\ thread[t] # Idle /\ col \in Columns /\ key \in Keys /\ item \in Items
    BY HandOf DEF SetBit, Idle, HandRecord
  <2> QED BY <2>1, NotBuilt DEF SetBit, HandsOK
<1>2. /\ colData' = [colData EXCEPT ![col] = @ \cup {item}]
      /\ thread' = [thread EXCEPT ![t] = Adding(item, thread[t].keys \ {key})]
  BY DEF SetBit
<1>3. \A u \in Threads : u # t => thread'[u] = thread[u]
  BY <1>2 DEF TypeOK
<1>4. thread'[t] = Adding(item, thread[t].keys \ {key}) /\ DOMAIN thread' = Threads
  BY <1>2 DEF TypeOK
<1>5. thread[t].keys \ {key} \in SUBSET Keys
  BY <1>1 DEF HandRecord
<1>6. /\ ThreadTypeOK(thread'[t]) /\ thread'[t] # Idle
      /\ thread'[t].phase = "next" /\ thread'[t].item = item /\ thread'[t].keys = thread[t].keys \ {key}
  BY <1>1, <1>4, <1>5, AddingTyped
<1>7. colData' \in [Columns -> SUBSET Items] /\ item \in colData'[col] /\ \A c \in Columns : colData[c] \subseteq colData'[c]
  BY <1>1, <1>2 DEF TypeOK
<1> HIDE DEF key, col, item
<1>8. TypeOK'
  BY <1>1, <1>3, <1>4, <1>6, <1>7 DEF TypeOK, outputVars
<1>9. HandsOK' /\ ColumnsAreDistinct' /\ AllocationOK'
  BY <1>1, <1>3, <1>6 DEF HandsOK, ColumnsAreDistinct, AllocationOK, Publishing
<1>10. RecordedOK'
  <2> SUFFICES ASSUME ~exhausted, NEW i \in Items, NEW k \in content[i]
               PROVE  i \in waiting \/ InHands(i, k)' \/ BitSet(i, k)'
    BY <1>1 DEF RecordedOK
  <2>1. k \in Keys /\ lookup[k] \in Columns \cup {NO_COLUMN} /\ lookup' = lookup
    BY <1>1 DEF TypeOK
  <2>2. BitSet(i, k) => BitSet(i, k)'
    BY <1>7, <2>1 DEF BitSet
  <2>3. CASE i = item /\ k = key
    <3>1. lookup[k] # NO_COLUMN
      BY <1>1, <2>3, ColumnNumbers
    <3> QED BY <1>1, <1>7, <2>1, <2>3, <3>1 DEF BitSet
  <2>4. CASE ~(i = item /\ k = key)
    <3>1. InHands(i, k) => InHands(i, k)'
      BY <1>3, <1>6, <2>4 DEF InHands, item
    <3> QED BY <2>2, <3>1 DEF RecordedOK
  <2> QED BY <2>3, <2>4
<1> QED BY <1>1, <1>8, <1>9, <1>10 DEF BuiltOK, outputVars

LEMMA FinishInv ==
    ASSUME IInv, NEW t \in Threads, FinishItem(t)
    PROVE  IInv'
<1> USE DEF IInv
<1>1. /\ thread[t].keys = {} /\ thread[t] # Idle /\ ~built
      /\ UNCHANGED <<content, sharedVars, waiting, outputVars, exhausted>>
      /\ thread' = [thread EXCEPT ![t] = Idle] /\ populated' = populated + 1
  <2>1. thread[t] # Idle
    BY DEF FinishItem, Idle
  <2> QED BY <2>1, NotBuilt DEF FinishItem
<1>2. /\ \A u \in Threads : u # t => thread'[u] = thread[u]
      /\ thread'[t] = Idle /\ thread'[t].phase = "idle" /\ DOMAIN thread' = Threads
  BY <1>1 DEF TypeOK, Idle
<1>3. TypeOK'
  BY <1>1, <1>2 DEF TypeOK, ThreadTypeOK, sharedVars, outputVars
<1>4. HandsOK' /\ ColumnsAreDistinct' /\ AllocationOK'
  BY <1>1, <1>2 DEF HandsOK, ColumnsAreDistinct, AllocationOK, Publishing, sharedVars
<1>5. RecordedOK'
  <2>1. \A i, k : InHands(i, k) => InHands(i, k)'
    BY <1>1, <1>2 DEF InHands
  <2> QED BY <1>1, <2>1 DEF RecordedOK, BitSet, sharedVars
<1> QED BY <1>1, <1>3, <1>4, <1>5 DEF BuiltOK, outputVars

\* Whatever columns are kept, the index has them as they are in the slab.
LEMMA CompressInv ==
    ASSUME IInv, Compress
    PROVE  IInv'
<1> USE DEF IInv
<1>1. /\ UNCHANGED <<content, sharedVars, waiting, thread, populated, exhausted>>
      /\ BuildDone /\ built' = TRUE
      /\ index' = [k \in {j \in Keys : Kept(j)} |-> colData[lookup[k]]]
  BY DEF Compress
<1>2. \A k \in DOMAIN index' : k \in Keys /\ lookup[k] # NO_COLUMN /\ index'[k] = colData[lookup[k]]
  BY <1>1 DEF Kept
<1>3. \A k \in DOMAIN index' : index'[k] \subseteq Items
  BY <1>2 DEF TypeOK
<1>4. TypeOK'
  BY <1>1, <1>2, <1>3 DEF TypeOK, sharedVars
<1>5. HandsOK' /\ ColumnsAreDistinct' /\ AllocationOK' /\ RecordedOK'
  BY <1>1 DEF HandsOK, ColumnsAreDistinct, AllocationOK, RecordedOK, Publishing, InHands, BitSet, sharedVars
<1>6. BuiltOK'
  BY <1>1, <1>2 DEF BuiltOK, BuildDone, sharedVars
<1> QED BY <1>4, <1>5, <1>6

LEMMA NextInv == IInv /\ [Next]_vars => IInv'
<1> SUFFICES ASSUME IInv, [Next]_vars PROVE IInv'
  OBVIOUS
<1>1. CASE UNCHANGED vars
  BY <1>1 DEF vars, sharedVars, outputVars, IInv, TypeOK, HandsOK, ColumnsAreDistinct, AllocationOK,
              RecordedOK, BuiltOK, Publishing, InHands, BitSet, BuildDone
<1>2. CASE \E t \in Threads : Record(t)
  BY <1>2, AddInv, LoadInv, ReserveInv, PublishInv, SetInv, FinishInv DEF Record
<1> QED BY <1>1, <1>2, CompressInv DEF Next, Built

LEMMA Invariance == Spec => []IInv
  BY InitInv, NextInv, PTL DEF Spec

-----------------------------------------------------------------------------
(* Theorems.                                                               *)

\* No thread ever indexes the slab beyond its last column, for any number of
\* threads, keys and columns, also after the counter has wrapped.
THEOREM TypeCorrect == Spec => []TypeOK
<1>1. IInv => TypeOK
  BY DEF IInv
<1> QED BY <1>1, Invariance, PTL

\* The load, the fetch_add and the compare_exchange never give two keys one
\* column, nor two threads one new column, while there are columns left.
THEOREM ColumnsDistinct == Spec => []ColumnsAreDistinct
<1>1. IInv => ColumnsAreDistinct
  BY DEF IInv
<1> QED BY <1>1, Invariance, PTL

\* A build that did not run out of columns rules out no chunk that contains a
\* pattern, whatever columns the density filter drops.
THEOREM PrefilterSound == Spec => []NoFalseNegatives
<1>1. IInv => NoFalseNegatives
  <2> SUFFICES ASSUME IInv, built, ~exhausted, NEW i \in Items, NEW pattern \in SUBSET content[i],
                      NEW k \in pattern \cap DOMAIN index
               PROVE  i \in index[k]
    BY DEF NoFalseNegatives, Query
  <2>1. waiting = {} /\ ~InHands(i, k) /\ index[k] = colData[lookup[k]]
    BY DEF IInv, BuiltOK, BuildDone, InHands
  <2> QED BY <2>1 DEF IInv, RecordedOK, BitSet
<1> QED BY <1>1, Invariance, PTL
===============================================================================
