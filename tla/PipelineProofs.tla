--------------------------- MODULE PipelineProofs ---------------------------
(***************************************************************************)
(* The stamp of a row vouches for its text, and the pending counter is     *)
(* exact, for any files, workers, channel capacity, edits, crashes and     *)
(* faults.                                                                 *)
(*                                                                         *)
(* A file is statted when its job is made and read when the job runs, and  *)
(* what is read may be written again before the row is stored. What the    *)
(* whole way preserves is stamp <= content <= latest: a job's stamp is not *)
(* later than the file (JobsOK), a document's text is no older than its    *)
(* stamp and no later than the file (MessagesOK), and so is a row's        *)
(* (RowsOK); and a file that is there has its latest content (FilesOK).    *)
(***************************************************************************)
EXTENDS Pipeline, FiniteSetTheorems, TLAPS

FilesOK == \A p \in Paths : disk[p] \in {Gone, latest[p]} /\ latest[p] <= edits

StattedInTime(job) == job.stamp <= latest[job.path]

ReadInTime(doc) == doc.status = "ok" => doc.stamp <= doc.content /\ doc.content <= latest[doc.path]

JobsOK ==
    /\ \A job \in coord.jobs : StattedInTime(job)
    /\ \A i \in DOMAIN pool : StattedInTime(pool[i])
    /\ \A w \in Workers : worker[w].phase = "started" => StattedInTime(worker[w].job)

MessagesOK ==
    /\ \A w \in Workers : worker[w].phase = "extracted" => ReadInTime(worker[w].doc)
    /\ \A i \in DOMAIN chan : chan[i].type = "Doc" => ReadInTime(chan[i])

RowsOK ==
    \A p \in Paths : row[p].status = "ok" =>
        row[p].stamp \in Versions /\ row[p].stamp <= row[p].content /\ row[p].content <= latest[p]

StampsOK == FilesOK /\ JobsOK /\ MessagesOK /\ RowsOK

IInv == TypeOK /\ StampsOK /\ PendingIsExact

Busy == {w \in Workers : worker[w] # Idle}

-----------------------------------------------------------------------------
(* Facts about queues, coordinators and workers.                           *)

LEMMA Appended ==
    ASSUME NEW S, NEW s \in Seq(S), NEW x \in S
    PROVE  /\ Append(s, x) \in Seq(S) /\ Len(Append(s, x)) = Len(s) + 1
           /\ \A i \in DOMAIN Append(s, x) :
                 Append(s, x)[i] = x \/ (i \in DOMAIN s /\ Append(s, x)[i] = s[i])
  OBVIOUS

LEMMA Taken ==
    ASSUME NEW S, NEW s \in Seq(S), s # <<>>
    PROVE  /\ Tail(s) \in Seq(S) /\ Len(Tail(s)) = Len(s) - 1 /\ Head(s) \in S
           /\ 1 \in DOMAIN s /\ Head(s) = s[1]
           /\ \A i \in DOMAIN Tail(s) : i + 1 \in DOMAIN s /\ Tail(s)[i] = s[i + 1]
  OBVIOUS

LEMMA Emptied ==
    ASSUME NEW S
    PROVE  <<>> \in Seq(S) /\ Len(<<>>) = 0 /\ DOMAIN <<>> = {}
  OBVIOUS

Phases == {"down", "walk", "dispatch", "live", "handling", "exited"}
CoordType == [phase : Phases, todo : SUBSET Paths, jobs : SUBSET Job, deleted : SUBSET Paths,
              taken : SUBSET WatchEvent]

LEMMA RestingTyped ==
    ASSUME NEW phase \in Phases
    PROVE  /\ Resting(phase) \in CoordType /\ Resting(phase).jobs = {}
           /\ \A t \in SUBSET Paths : [Resting(phase) EXCEPT !.todo = t] \in CoordType
                                      /\ [Resting(phase) EXCEPT !.todo = t].jobs = {}
           /\ \A e \in SUBSET WatchEvent : [Resting(phase) EXCEPT !.taken = e] \in CoordType
                                           /\ [Resting(phase) EXCEPT !.taken = e].jobs = {}
  BY DEF Resting, CoordType

LEMMA VersionsAreNumbers ==
    /\ Versions \subseteq Nat \ {Gone} /\ Gone \in Nat /\ 1 \in Versions
    /\ \A n \in Nat : (n < MaxEdits => n + 1 \in Versions)
  BY PipelineAssumption DEF Versions, Gone

\* What a worker holds, by its phase.
LEMMA WorkerHolds ==
    ASSUME TypeOK, NEW w \in Workers
    PROVE  /\ worker[w].phase = "idle" => worker[w] = Idle
           /\ worker[w].phase # "idle" => worker[w] # Idle
           /\ worker[w].phase \in {"started", "extracted"} => worker[w].job \in Job
           /\ worker[w].phase = "extracted" => worker[w].doc \in DocMsg
  BY DEF TypeOK, WorkerTypeOK, Idle

LEMMA WorkerUpdated ==
    ASSUME TypeOK, NEW w \in Workers, NEW t, WorkerTypeOK(t), worker' = [worker EXCEPT ![w] = t]
    PROVE  /\ DOMAIN worker' = Workers /\ \A v \in Workers : WorkerTypeOK(worker'[v])
           /\ worker'[w] = t /\ \A v \in Workers : v # w => worker'[v] = worker[v]
  BY DEF TypeOK

LEMMA WorkerShapes ==
    /\ WorkerTypeOK(Idle) /\ WorkerTypeOK([phase |-> "sent"]) /\ Idle.phase = "idle"
    /\ \A job \in Job : WorkerTypeOK([phase |-> "started", job |-> job])
    /\ \A job \in Job, doc \in DocMsg : WorkerTypeOK([phase |-> "extracted", job |-> job, doc |-> doc])
  BY DEF WorkerTypeOK, Idle

\* The parts of TypeOK.
FileTypes ==
    /\ disk \in [Paths -> Versions \cup {Gone}] /\ latest \in [Paths -> Versions \cup {Gone}]
    /\ edits \in Versions /\ crashes \in 0 .. MaxCrashes
QueueTypes  == raw \in Seq([kind : {"touch", "remove"}, path : Paths]) /\ watchq \in Seq(WatchEvent)
PoolTypes   == pool \in Seq(Job) /\ DOMAIN worker = Workers /\ \A w \in Workers : WorkerTypeOK(worker[w])
WriterTypes == /\ chan \in Seq(WriterMsg) /\ Len(chan) <= Capacity /\ writer \in {"up", "gone"}
               /\ row \in [Paths -> DocumentRow]
OtherTypes  == /\ pending \in Nat /\ handle \in {"running", "stopping", "unwatched"}
               /\ overlapped \subseteq Paths /\ missed \subseteq Paths

LEMMA TypeParts ==
    TypeOK <=> FileTypes /\ QueueTypes /\ coord \in CoordType /\ PoolTypes /\ WriterTypes /\ OtherTypes
  BY DEF TypeOK, FileTypes, QueueTypes, CoordType, Phases, PoolTypes, WriterTypes, OtherTypes

LEMMA TypePartsNext ==
    TypeOK' <=> (FileTypes /\ QueueTypes /\ coord \in CoordType /\ PoolTypes /\ WriterTypes /\ OtherTypes)'
  BY TypeParts, PTL

-----------------------------------------------------------------------------
LEMMA InitInv == Init => IInv
<1> SUFFICES ASSUME Init PROVE IInv
  OBVIOUS
<1>1. /\ raw = <<>> /\ watchq = <<>> /\ pool = <<>> /\ chan = <<>> /\ pending = 0
      /\ coord = Resting("down") /\ coord.jobs = {}
      /\ \A p \in Paths : row[p] = NoRow
      /\ \A w \in Workers : worker[w] = Idle
  BY DEF Init, Resting
<1>2. TypeOK
  <2>1. FileTypes
    BY VersionsAreNumbers, PipelineAssumption DEF Init, FileTypes
  <2>2. QueueTypes /\ PoolTypes
    BY <1>1, Emptied, WorkerShapes DEF Init, QueueTypes, PoolTypes
  <2>3. coord \in CoordType
    BY <1>1, RestingTyped DEF Phases
  <2>4. WriterTypes
    BY <1>1, Emptied, VersionsAreNumbers, PipelineAssumption DEF Init, WriterTypes, NoRow, DocumentRow
  <2>5. OtherTypes
    BY DEF Init, OtherTypes
  <2> QED BY <2>1, <2>2, <2>3, <2>4, <2>5, TypeParts
<1>3. StampsOK
  <2>1. FilesOK
    <3>1. \A p \in Paths : disk[p] \in {0, 1} /\ latest[p] = disk[p] /\ edits = 1
      BY DEF Init, Gone
    <3> QED BY <3>1 DEF FilesOK
  <2>2. JobsOK /\ MessagesOK
    BY <1>1, Emptied, WorkerShapes DEF JobsOK, MessagesOK
  <2>3. RowsOK
    BY <1>1 DEF RowsOK, NoRow
  <2> QED BY <2>1, <2>2, <2>3 DEF StampsOK
<1>4. PendingIsExact
  <2>1. {w \in Workers : worker[w] # Idle} = {}
    BY <1>1
  <2> QED BY <1>1, <2>1, Emptied, FS_EmptySet DEF PendingIsExact
<1> QED BY <1>2, <1>3, <1>4 DEF IInv

-----------------------------------------------------------------------------
(* The steps several actions take.                                         *)

\* The three parts of the invariant, when no file changes and no job or row does.
LEMMA PendingKept ==
    ASSUME PendingIsExact, UNCHANGED poolVars
    PROVE  PendingIsExact'
  BY DEF PendingIsExact, poolVars

LEMMA FilesKept ==
    ASSUME FileTypes, FilesOK, UNCHANGED <<diskVars, crashes>>
    PROVE  FileTypes' /\ FilesOK'
  BY DEF FileTypes, FilesOK, diskVars

LEMMA PoolKept ==
    ASSUME PoolTypes, UNCHANGED poolVars
    PROVE  PoolTypes'
  BY DEF PoolTypes, poolVars

LEMMA WriterKept ==
    ASSUME WriterTypes, RowsOK, UNCHANGED <<writerVars, latest>>
    PROVE  WriterTypes' /\ RowsOK'
  BY DEF WriterTypes, RowsOK, writerVars

LEMMA JobsKept ==
    ASSUME JobsOK, UNCHANGED <<poolVars, latest>>, \A job \in coord'.jobs : StattedInTime(job)
    PROVE  JobsOK'
  BY DEF JobsOK, StattedInTime, poolVars

LEMMA MessagesKept ==
    ASSUME MessagesOK, UNCHANGED <<worker, chan, latest>>
    PROVE  MessagesOK'
  BY DEF MessagesOK, ReadInTime

\* A job made of a file's identity enters the pool and is counted.
LEMMA Dispatched ==
    ASSUME IInv, NEW job \in Job, StattedInTime(job), DispatchExtract(job), UNCHANGED latest
    PROVE  /\ PoolTypes' /\ pending' \in Nat /\ overlapped' \subseteq Paths
           /\ \A i \in DOMAIN pool' : StattedInTime(pool'[i])
           /\ UNCHANGED worker /\ PendingIsExact'
<1>1. /\ pool' = Append(pool, job) /\ UNCHANGED worker /\ pending' = pending + 1
      /\ overlapped' = (IF Extracting(job.path) THEN overlapped \cup {job.path} ELSE overlapped)
      /\ job.path \in Paths
  BY DEF DispatchExtract, Overlap, Job
<1>2. PoolTypes /\ OtherTypes
  BY TypeParts DEF IInv
<1>3. pool \in Seq(Job)
  BY <1>2 DEF PoolTypes
<1>4. pool' \in Seq(Job) /\ Len(pool') = Len(pool) + 1
  BY <1>1, <1>3, Appended
<1>5. \A i \in DOMAIN pool' : StattedInTime(pool'[i])
  <2>1. \A i \in DOMAIN pool : StattedInTime(pool[i])
    BY DEF IInv, StampsOK, JobsOK
  <2>2. \A i \in DOMAIN pool' : pool'[i] = job \/ (i \in DOMAIN pool /\ pool'[i] = pool[i])
    BY <1>1, <1>3, Appended
  <2> QED BY <2>1, <2>2
<1>6. PoolTypes'
  BY <1>1, <1>2, <1>4 DEF PoolTypes
<1>7. PendingIsExact'
  <2>1. pending = Len(pool) + Cardinality(Busy) /\ pending \in Nat /\ Len(pool) \in Nat
    BY <1>2, <1>3 DEF IInv, PendingIsExact, Busy, OtherTypes
  <2>2. Cardinality(Busy) \in Nat
    BY FS_Subset, FS_CardinalityType, PipelineAssumption DEF Busy
  <2>3. pending' = Len(pool') + Cardinality(Busy)
    BY <1>1, <1>4, <2>1, <2>2
  <2> QED BY <1>1, <2>3 DEF PendingIsExact, Busy
<1> QED BY <1>1, <1>2, <1>5, <1>6, <1>7 DEF OtherTypes

\* A message that is in time enters a channel with room.
LEMMA Sent ==
    ASSUME IInv, NEW m \in WriterMsg, m.type = "Doc" => ReadInTime(m), writer = "up", HasRoom,
           chan' = Append(chan, m), UNCHANGED <<writer, row, latest>>
    PROVE  WriterTypes' /\ RowsOK' /\ \A i \in DOMAIN chan' : chan'[i].type = "Doc" => ReadInTime(chan'[i])
<1>1. WriterTypes /\ RowsOK /\ \A i \in DOMAIN chan : chan[i].type = "Doc" => ReadInTime(chan[i])
  BY TypeParts DEF IInv, StampsOK, MessagesOK
<1>2. chan \in Seq(WriterMsg)
  BY <1>1 DEF WriterTypes
<1>3. chan' \in Seq(WriterMsg) /\ Len(chan') = Len(chan) + 1
  BY <1>2, Appended
<1>4. Len(chan') <= Capacity
  <2>1. Len(chan) < Capacity /\ Len(chan) \in Nat
    BY <1>2 DEF HasRoom
  <2> QED BY <1>3, <2>1, PipelineAssumption
<1>5. \A i \in DOMAIN chan' : chan'[i] = m \/ (i \in DOMAIN chan /\ chan'[i] = chan[i])
  BY <1>2, Appended
<1> QED BY <1>1, <1>3, <1>4, <1>5 DEF WriterTypes, RowsOK

\* The first message leaves the channel.
LEMMA Received ==
    ASSUME IInv, chan # <<>>, chan' = Tail(chan), UNCHANGED latest
    PROVE  /\ chan' \in Seq(WriterMsg) /\ Len(chan') <= Capacity
           /\ Head(chan) \in WriterMsg /\ Head(chan).path \in Paths
           /\ Head(chan).type = "Doc" => ReadInTime(Head(chan))
           /\ \A i \in DOMAIN chan' : chan'[i].type = "Doc" => ReadInTime(chan'[i])
<1>1. WriterTypes /\ \A i \in DOMAIN chan : chan[i].type = "Doc" => ReadInTime(chan[i])
  BY TypeParts DEF IInv, StampsOK, MessagesOK
<1>2. chan \in Seq(WriterMsg)
  BY <1>1 DEF WriterTypes
<1>3. /\ chan' \in Seq(WriterMsg) /\ Len(chan') = Len(chan) - 1 /\ Head(chan) \in WriterMsg
      /\ 1 \in DOMAIN chan /\ Head(chan) = chan[1]
      /\ \A i \in DOMAIN chan' : i + 1 \in DOMAIN chan /\ chan'[i] = chan[i + 1]
  BY <1>2, Taken
<1>4. Len(chan') <= Capacity
  <2>1. Len(chan) <= Capacity /\ Len(chan) \in Nat
    BY <1>1, <1>2 DEF WriterTypes
  <2> QED BY <1>3, <2>1, PipelineAssumption
<1>5. Head(chan).path \in Paths
  BY <1>3 DEF WriterMsg, DocMsg, DeleteMsg
<1> QED BY <1>1, <1>3, <1>4, <1>5

-----------------------------------------------------------------------------
(* One lemma per action, or per group of actions that disturb the same.    *)

\* A file changes: it gets a content it never had, none, or its last one.
LEMMA FileSystemInv ==
    ASSUME IInv, FileSystem
    PROVE  IInv'
<1>1. PICK p \in Paths, content \in Versions \cup {Gone}, kind \in {"touch", "remove"} :
          Edit(p, content, kind) /\ content \in {edits + 1, Gone, latest[p]}
  <2> USE TypeParts, VersionsAreNumbers DEF IInv, FileTypes, FileSystem
  <2>1. PICK p \in Paths : WriteFile(p) \/ RemoveFile(p) \/ RestoreFile(p)
    OBVIOUS
  <2>2. CASE WriteFile(p)
    BY <2>2 DEF WriteFile, Edit
  <2>3. CASE RemoveFile(p)
    BY <2>3 DEF RemoveFile
  <2>4. CASE RestoreFile(p)
    BY <2>4 DEF RestoreFile
  <2> QED BY <2>1, <2>2, <2>3, <2>4
<1>2. /\ edits < MaxEdits /\ edits' = edits + 1
      /\ disk' = [disk EXCEPT ![p] = content]
      /\ latest' = [latest EXCEPT ![p] = IF content = Gone THEN @ ELSE content]
      /\ Noticed(p, kind)
      /\ UNCHANGED <<crashes, watchq, coord, pool, worker, pending, chan, writer, row, handle, overlapped, missed>>
  BY <1>1 DEF Edit, poolVars, writerVars, historyVars
<1>3. FileTypes /\ QueueTypes /\ FilesOK /\ JobsOK /\ MessagesOK /\ RowsOK
  BY TypeParts DEF IInv, StampsOK
<1>4. edits \in Nat /\ edits' \in Versions /\ Versions \subseteq Nat /\ Gone = 0
  BY <1>2, <1>3, VersionsAreNumbers DEF FileTypes, Gone
<1>5. FileTypes'
  BY <1>2, <1>3, <1>4 DEF FileTypes
<1>6. QueueTypes'
  <2>1. raw \in Seq([kind : {"touch", "remove"}, path : Paths])
    BY <1>3 DEF QueueTypes
  <2>2. [kind |-> kind, path |-> p] \in [kind : {"touch", "remove"}, path : Paths]
    OBVIOUS
  <2>3. raw' = Append(raw, [kind |-> kind, path |-> p]) \/ raw' = raw
    BY <1>2 DEF Noticed
  <2>4. Append(raw, [kind |-> kind, path |-> p]) \in Seq([kind : {"touch", "remove"}, path : Paths])
    BY <2>1, <2>2, Appended
  <2>5. raw' \in Seq([kind : {"touch", "remove"}, path : Paths])
    BY <2>1, <2>3, <2>4
  <2> QED BY <1>2, <1>3, <2>5 DEF QueueTypes
<1>7. TypeOK'
  BY <1>2, <1>5, <1>6, TypeParts, TypePartsNext DEF IInv, PoolTypes, WriterTypes, OtherTypes
<1>8. \A q \in Paths : /\ latest[q] \in Nat /\ latest'[q] \in Nat /\ latest[q] <= latest'[q]
                       /\ latest'[q] <= edits' /\ disk'[q] \in {Gone, latest'[q]}
  <2>1. \A q \in Paths : latest[q] \in Nat /\ latest[q] <= edits /\ disk[q] \in {Gone, latest[q]}
    <3>1. \A q \in Paths : latest[q] \in Versions \cup {Gone}
      BY <1>3 DEF FileTypes
    <3>2. \A n \in Versions \cup {Gone} : n \in Nat
      BY <1>4
    <3> QED BY <1>3, <3>1, <3>2 DEF FilesOK
  <2>2. \A q \in Paths : latest[q] <= edits'
    BY <1>2, <1>4, <2>1
  <2>3. \A q \in Paths : q # p => latest'[q] = latest[q] /\ disk'[q] = disk[q]
    BY <1>2, <1>3 DEF FileTypes
  <2>4. disk'[p] = content /\ latest'[p] = IF content = Gone THEN latest[p] ELSE content
    BY <1>2, <1>3 DEF FileTypes
  <2>5. /\ latest'[p] \in Nat /\ latest[p] <= latest'[p] /\ latest'[p] <= edits'
        /\ disk'[p] \in {Gone, latest'[p]}
    BY <1>1, <1>2, <1>4, <2>1, <2>2, <2>4
  <2> QED BY <2>1, <2>2, <2>3, <2>5
<1>9. FilesOK'
  BY <1>8 DEF FilesOK
<1>10. StampsOK'
  <2>1. \A job \in Job : StattedInTime(job) => StattedInTime(job)'
    <3> SUFFICES ASSUME NEW job \in Job, StattedInTime(job) PROVE job.stamp <= latest'[job.path]
      BY DEF StattedInTime
    <3>1. job.stamp \in Nat /\ job.path \in Paths /\ job.stamp <= latest[job.path]
      BY <1>4 DEF Job, StattedInTime
    <3> QED BY <1>8, <3>1
  <2>2. \A doc \in DocMsg : ReadInTime(doc) => ReadInTime(doc)'
    <3> SUFFICES ASSUME NEW doc \in DocMsg, ReadInTime(doc), doc.status = "ok"
                 PROVE  doc.stamp <= doc.content /\ doc.content <= latest'[doc.path]
      BY DEF ReadInTime
    <3>1. doc.content \in Versions \cup {Gone} /\ doc.path \in Paths
      BY DEF DocMsg
    <3>2. \A n \in Versions \cup {Gone} : n \in Nat
      BY <1>4
    <3>3. doc.content \in Nat
      BY <3>1, <3>2
    <3>4. doc.stamp <= doc.content /\ doc.content <= latest[doc.path]
      BY DEF ReadInTime
    <3> QED BY <1>8, <3>1, <3>3, <3>4
  <2>3. JobsOK'
    <3>1. /\ \A job \in coord.jobs : job \in Job
          /\ \A i \in DOMAIN pool : pool[i] \in Job
          /\ \A w \in Workers : worker[w].phase = "started" => worker[w].job \in Job
      BY WorkerHolds DEF IInv, TypeOK
    <3> QED BY <1>2, <1>3, <2>1, <3>1 DEF JobsOK
  <2>4. MessagesOK'
    <3>1. \A w \in Workers : worker[w].phase = "extracted" => worker[w].doc \in DocMsg
      BY WorkerHolds DEF IInv
    <3>2. \A i \in DOMAIN chan : chan[i] \in WriterMsg
      BY DEF IInv, TypeOK
    <3>3. \A i \in DOMAIN chan : chan[i].type = "Doc" => chan[i] \in DocMsg
      BY <3>2 DEF WriterMsg, DocMsg, DeleteMsg
    <3> QED BY <1>2, <1>3, <2>2, <3>1, <3>3 DEF MessagesOK
  <2>5. RowsOK'
    <3>1. \A q \in Paths : row[q] \in DocumentRow
      BY DEF IInv, TypeOK
    <3>2. \A q \in Paths : row[q].content \in Nat
      <4>1. \A r \in DocumentRow : r.content \in Versions \cup {Gone}
        BY DEF DocumentRow
      <4>2. \A n \in Versions \cup {Gone} : n \in Nat
        BY <1>4
      <4> QED BY <3>1, <4>1, <4>2
    <3>3. \A q \in Paths : row[q].content <= latest[q] => row[q].content <= latest'[q]
      BY <1>8, <3>2
    <3> QED BY <1>2, <1>3, <3>3 DEF RowsOK
  <2> QED BY <1>9, <2>3, <2>4, <2>5 DEF StampsOK
<1>11. PendingIsExact'
  BY <1>2, PendingKept DEF IInv, poolVars
<1> QED BY <1>7, <1>10, <1>11 DEF IInv

\* The watcher passes an event on, loses one, or is dropped.
LEMMA WatcherInv ==
    ASSUME IInv, Forward \/ LoseEvent \/ DropWatcher
    PROVE  IInv'
<1>1. /\ FileTypes /\ QueueTypes /\ coord \in CoordType /\ PoolTypes /\ WriterTypes /\ OtherTypes
      /\ FilesOK /\ JobsOK /\ MessagesOK /\ RowsOK
  BY TypeParts DEF IInv, StampsOK
<1>2. UNCHANGED <<diskVars, crashes, coord, poolVars, writerVars, overlapped>>
  BY DEF Forward, LoseEvent, DropWatcher, historyVars
<1>3. QueueTypes' /\ OtherTypes'
  <2> DEFINE Change == [kind : {"touch", "remove"}, path : Paths]
  <2>1. raw \in Seq(Change) /\ watchq \in Seq(WatchEvent)
    BY <1>1 DEF QueueTypes
  <2>2. CASE Forward
    <3>1. PICK kind \in {"Removed", "Dirty"} :
             /\ raw # <<>> /\ raw' = Tail(raw) /\ UNCHANGED <<handle, missed>>
             /\ watchq' = Append(watchq, [kind |-> kind, path |-> Head(raw).path])
      BY <2>2 DEF Forward, historyVars
    <3>2. Head(raw) \in Change /\ raw' \in Seq(Change)
      BY <2>1, <3>1, Taken
    <3>3. [kind |-> kind, path |-> Head(raw).path] \in WatchEvent
      BY <3>2 DEF WatchEvent
    <3>4. watchq' \in Seq(WatchEvent)
      BY <2>1, <3>1, <3>3, Appended
    <3> QED BY <1>1, <1>2, <3>1, <3>2, <3>4 DEF QueueTypes, OtherTypes, poolVars
  <2>3. CASE LoseEvent
    <3>1. /\ raw # <<>> /\ raw' = Tail(raw) /\ UNCHANGED <<watchq, handle>>
          /\ missed' = missed \cup {Head(raw).path}
      BY <2>3 DEF LoseEvent
    <3>2. Head(raw) \in Change /\ raw' \in Seq(Change)
      BY <2>1, <3>1, Taken
    <3> QED BY <1>1, <1>2, <2>1, <3>1, <3>2 DEF QueueTypes, OtherTypes, poolVars
  <2>4. CASE DropWatcher
    <3>1. raw' = <<>> /\ UNCHANGED <<watchq, missed>> /\ handle' = "unwatched"
      BY <2>4 DEF DropWatcher, historyVars
    <3>2. raw' \in Seq(Change)
      BY <3>1, Emptied
    <3> QED BY <1>1, <1>2, <2>1, <3>1, <3>2 DEF QueueTypes, OtherTypes, poolVars
  <2> QED BY <2>2, <2>3, <2>4
<1>4. UNCHANGED <<latest, worker, chan>>
  BY <1>2 DEF diskVars, poolVars, writerVars
<1>5. coord' \in CoordType /\ \A job \in coord'.jobs : StattedInTime(job)
  BY <1>1, <1>2 DEF JobsOK
<1>6. FileTypes' /\ FilesOK' /\ PoolTypes' /\ WriterTypes' /\ RowsOK'
  BY <1>1, <1>2, <1>4, FilesKept, PoolKept, WriterKept
<1>7. JobsOK' /\ MessagesOK' /\ PendingIsExact'
  BY <1>1, <1>2, <1>4, <1>5, JobsKept, MessagesKept, PendingKept DEF IInv
<1> QED BY <1>3, <1>5, <1>6, <1>7, TypePartsNext DEF IInv, StampsOK

\* What is left when only the coordinator moves, and perhaps notes what it
\* missed.
LEMMA CoordinatorMoves ==
    ASSUME IInv, coord' \in CoordType, \A job \in coord'.jobs : StattedInTime(job),
           missed' \subseteq Paths, QueueTypes',
           UNCHANGED <<diskVars, crashes, poolVars, writerVars, handle, overlapped>>
    PROVE  IInv'
<1>1. /\ FileTypes /\ PoolTypes /\ WriterTypes /\ OtherTypes /\ FilesOK /\ JobsOK /\ MessagesOK /\ RowsOK
  BY TypeParts DEF IInv, StampsOK
<1>2. UNCHANGED <<latest, worker, chan, pending>>
  BY DEF diskVars, poolVars, writerVars
<1>3. FileTypes' /\ FilesOK' /\ PoolTypes' /\ WriterTypes' /\ RowsOK'
  BY <1>1, <1>2, FilesKept, PoolKept, WriterKept
<1>4. JobsOK' /\ MessagesOK' /\ PendingIsExact'
  BY <1>1, <1>2, JobsKept, MessagesKept, PendingKept DEF IInv
<1>5. OtherTypes'
  BY <1>1, <1>2 DEF OtherTypes
<1> QED BY <1>3, <1>4, <1>5, TypePartsNext DEF IInv, StampsOK

\* The walk, and the turns of the live loop that only take or leave.
LEMMA WalkInv ==
    ASSUME IInv, \/ \E p \in Paths : VisitFile(p) \/ MissFile(p)
                 \/ WalkDone \/ ScanFails \/ EnterLiveLoop \/ TakeEvent \/ StatFails \/ ExitLoop
    PROVE  IInv'
<1>1. /\ FileTypes /\ QueueTypes /\ coord \in CoordType /\ FilesOK /\ missed \subseteq Paths
      /\ \A job \in coord.jobs : StattedInTime(job)
  BY TypeParts DEF IInv, StampsOK, JobsOK, OtherTypes
<1>2. CASE \E p \in Paths : VisitFile(p)
  <2>1. PICK p \in Paths : VisitFile(p)
    BY <1>2
  <2> DEFINE job == [path |-> p, stamp |-> disk[p]]
  <2>2. PICK js \in SUBSET (coord.jobs \cup {job}) : coord' = [coord EXCEPT !.todo = @ \ {p}, !.jobs = js]
    BY <2>1 DEF VisitFile
  <2>3. disk[p] \in Versions /\ job \in Job /\ disk[p] = latest[p]
    BY <1>1, <2>1 DEF VisitFile, FileTypes, FilesOK, Job
  <2>4. StattedInTime(job)
    <3>1. job.stamp = latest[p] /\ job.path = p /\ latest[p] \in Nat
      BY <2>3, VersionsAreNumbers
    <3>2. latest[p] <= latest[p]
      BY <3>1
    <3> QED BY <3>1, <3>2 DEF StattedInTime
  <2>5. coord.jobs \subseteq Job
    BY <1>1 DEF CoordType
  <2>6. js \in SUBSET Job /\ \A j \in js : StattedInTime(j)
    BY <1>1, <2>2, <2>3, <2>4, <2>5
  <2>7. coord' \in CoordType /\ coord'.jobs = js
    BY <1>1, <2>2, <2>6 DEF CoordType
  <2>8. UNCHANGED <<diskVars, crashes, watchVars, poolVars, writerVars, handle, missed, overlapped>>
    BY <2>1 DEF VisitFile, historyVars
  <2>9. QueueTypes'
    BY <1>1, <2>8 DEF QueueTypes, watchVars
  <2> QED BY <1>1, <2>6, <2>7, <2>8, <2>9, CoordinatorMoves
<1>3. CASE \E p \in Paths : MissFile(p)
  <2>1. PICK p \in Paths : MissFile(p)
    BY <1>3
  <2>2. PICK ds \in SUBSET Paths : coord' = [coord EXCEPT !.todo = @ \ {p}, !.deleted = ds]
    <3>1. coord.deleted \in SUBSET Paths
      BY <1>1 DEF CoordType
    <3> QED BY <2>1, <3>1 DEF MissFile
  <2>3. coord' \in CoordType /\ coord'.jobs = coord.jobs
    BY <1>1, <2>2 DEF CoordType
  <2>4. /\ UNCHANGED <<diskVars, crashes, watchVars, poolVars, writerVars, handle, overlapped>>
        /\ missed' \subseteq Paths
    BY <1>1, <2>1 DEF MissFile
  <2>5. QueueTypes'
    BY <1>1, <2>4 DEF QueueTypes, watchVars
  <2> QED BY <1>1, <2>3, <2>4, <2>5, CoordinatorMoves
<1>4. CASE WalkDone
  <2>1. coord' \in CoordType /\ coord'.jobs = coord.jobs
    BY <1>1, <1>4 DEF WalkDone, CoordType, Phases
  <2>2. UNCHANGED <<diskVars, crashes, watchVars, poolVars, writerVars, handle, missed, overlapped>>
    BY <1>4 DEF WalkDone, historyVars
  <2>3. QueueTypes'
    BY <1>1, <2>2 DEF QueueTypes, watchVars
  <2> QED BY <1>1, <2>1, <2>2, <2>3, CoordinatorMoves
<1>5. CASE ScanFails \/ EnterLiveLoop \/ ExitLoop
  <2>1. /\ UNCHANGED <<diskVars, crashes, watchVars, poolVars, writerVars, handle, overlapped>>
        /\ missed' \in {missed, Paths} /\ coord' \in {Resting("live"), Resting("exited")}
    BY <1>5 DEF ScanFails, EnterLiveLoop, ExitLoop, historyVars
  <2>2. coord' \in CoordType /\ coord'.jobs = {}
    BY <2>1, RestingTyped DEF Phases
  <2>3. QueueTypes'
    BY <1>1, <2>1 DEF QueueTypes, watchVars
  <2> QED BY <1>1, <2>1, <2>2, <2>3, CoordinatorMoves
<1>6. CASE TakeEvent
  <2>1. /\ watchq # <<>> /\ watchq' = Tail(watchq) /\ UNCHANGED raw
        /\ coord' = [Resting("handling") EXCEPT !.taken = {Head(watchq)}]
        /\ UNCHANGED <<diskVars, crashes, poolVars, writerVars, handle, missed, overlapped>>
    BY <1>6 DEF TakeEvent, historyVars
  <2>2. watchq \in Seq(WatchEvent)
    BY <1>1 DEF QueueTypes
  <2>3. Head(watchq) \in WatchEvent /\ watchq' \in Seq(WatchEvent)
    BY <2>1, <2>2, Taken
  <2>4. coord' \in CoordType /\ coord'.jobs = {}
    BY <2>1, <2>3, RestingTyped DEF Phases
  <2>5. QueueTypes'
    BY <1>1, <2>1, <2>3 DEF QueueTypes
  <2> QED BY <1>1, <2>1, <2>4, <2>5, CoordinatorMoves
<1>7. CASE StatFails
  <2>1. PICK ev \in coord.taken : missed' = missed \cup {ev.path}
    BY <1>7 DEF StatFails
  <2>2. ev.path \in Paths
    BY <1>1, <2>1 DEF CoordType, WatchEvent
  <2>3. /\ UNCHANGED <<diskVars, crashes, watchVars, poolVars, writerVars, handle, overlapped>>
        /\ missed' \subseteq Paths /\ coord' = Resting("live")
    BY <1>1, <1>7, <2>1, <2>2 DEF StatFails
  <2>4. coord' \in CoordType /\ coord'.jobs = {}
    BY <2>3, RestingTyped DEF Phases
  <2>5. QueueTypes'
    BY <1>1, <2>3 DEF QueueTypes, watchVars
  <2> QED BY <1>1, <2>3, <2>4, <2>5, CoordinatorMoves
<1> QED BY <1>2, <1>3, <1>4, <1>5, <1>6, <1>7

\* A job of the scan or of a change enters the pool.
LEMMA DispatchInv ==
    ASSUME IInv, DispatchScanJob \/ HandleDirty
    PROVE  IInv'
<1>1. /\ FileTypes /\ QueueTypes /\ coord \in CoordType /\ WriterTypes /\ OtherTypes
      /\ FilesOK /\ JobsOK /\ MessagesOK /\ RowsOK
      /\ \A job \in coord.jobs : StattedInTime(job)
  BY TypeParts DEF IInv, StampsOK, JobsOK
<1>2. UNCHANGED <<diskVars, crashes, watchVars, writerVars, handle, missed>>
  BY DEF DispatchScanJob, HandleDirty
<1>3. UNCHANGED <<latest, chan>>
  BY <1>2 DEF diskVars, writerVars
<1>4. \/ \E job \in Job : StattedInTime(job) /\ DispatchExtract(job)
      \/ UNCHANGED <<poolVars, overlapped>>
  <2>1. CASE DispatchScanJob
    BY <1>1, <2>1 DEF DispatchScanJob, CoordType
  <2>2. CASE HandleDirty
    <3>1. PICK ev \in coord.taken :
             IF disk[ev.path] # Gone
             THEN DispatchExtract([path |-> ev.path, stamp |-> disk[ev.path]])
             ELSE UNCHANGED <<poolVars, overlapped>>
      BY <2>2 DEF HandleDirty
    <3>2. ev.path \in Paths
      BY <1>1 DEF CoordType, WatchEvent
    <3>3. CASE disk[ev.path] = Gone
      BY <3>1, <3>3
    <3>4. CASE disk[ev.path] # Gone
      <4> DEFINE job == [path |-> ev.path, stamp |-> disk[ev.path]]
      <4>1. disk[ev.path] \in Versions /\ disk[ev.path] = latest[ev.path]
        BY <1>1, <3>2, <3>4 DEF FileTypes, FilesOK
      <4>2. job \in Job /\ job.stamp = latest[ev.path] /\ job.path = ev.path
        BY <3>2, <4>1 DEF Job
      <4>3. latest[ev.path] <= latest[ev.path]
        <5>1. latest[ev.path] \in Nat
          BY <4>1, VersionsAreNumbers
        <5> QED BY <5>1
      <4>4. StattedInTime(job)
        BY <4>2, <4>3 DEF StattedInTime
      <4> QED BY <3>1, <3>4, <4>2, <4>4
    <3> QED BY <3>3, <3>4
  <2> QED BY <2>1, <2>2
<1>5. /\ PoolTypes' /\ pending' \in Nat /\ overlapped' \subseteq Paths
      /\ \A i \in DOMAIN pool' : StattedInTime(pool'[i])
      /\ UNCHANGED worker /\ PendingIsExact'
  <2>1. CASE UNCHANGED <<poolVars, overlapped>>
    BY <2>1, <1>1, PendingKept, PoolKept, TypeParts DEF IInv, JobsOK, OtherTypes, poolVars
  <2>2. CASE \E job \in Job : StattedInTime(job) /\ DispatchExtract(job)
    BY <2>2, <1>3, Dispatched
  <2> QED BY <1>4, <2>1, <2>2
<1>6. coord' \in CoordType /\ \A job \in coord'.jobs : StattedInTime(job)
  <2>1. CASE DispatchScanJob
    <3>1. PICK job \in coord.jobs : coord' = [coord EXCEPT !.jobs = @ \ {job}]
      BY <2>1 DEF DispatchScanJob
    <3>2. coord' \in CoordType /\ coord'.jobs = coord.jobs \ {job}
      BY <1>1, <3>1 DEF CoordType
    <3> QED BY <1>1, <3>2
  <2>2. CASE HandleDirty
    <3>1. coord' = Resting("live")
      BY <2>2 DEF HandleDirty
    <3> QED BY <3>1, RestingTyped DEF Phases
  <2> QED BY <2>1, <2>2
<1>7. FileTypes' /\ FilesOK' /\ WriterTypes' /\ RowsOK' /\ MessagesOK'
  BY <1>1, <1>2, <1>3, <1>5, FilesKept, WriterKept, MessagesKept
<1>8. JobsOK'
  BY <1>1, <1>3, <1>5, <1>6 DEF JobsOK, StattedInTime
<1>9. QueueTypes' /\ OtherTypes'
  BY <1>1, <1>2, <1>5 DEF QueueTypes, OtherTypes, watchVars
<1> QED BY <1>5, <1>6, <1>7, <1>8, <1>9, TypePartsNext DEF IInv, StampsOK

\* A deletion of the scan or of a change enters the channel, or the writer has
\* gone.
LEMMA SendDeleteInv ==
    ASSUME IInv, SendScanDelete \/ HandleRemoved
    PROVE  IInv'
<1>1. /\ FileTypes /\ QueueTypes /\ coord \in CoordType /\ PoolTypes /\ WriterTypes /\ OtherTypes
      /\ FilesOK /\ JobsOK /\ MessagesOK /\ RowsOK
      /\ \A job \in coord.jobs : StattedInTime(job)
  BY TypeParts DEF IInv, StampsOK, JobsOK
<1>2. UNCHANGED <<diskVars, crashes, watchVars, poolVars, writer, row, handle, missed>>
  BY DEF SendScanDelete, HandleRemoved
<1>3. UNCHANGED <<latest, worker>>
  BY <1>2 DEF diskVars, poolVars
<1>4. PICK p \in Paths :
         \/ /\ writer = "up" /\ HasRoom /\ Overlap(p)
            /\ chan' = Append(chan, [type |-> "Delete", path |-> p])
         \/ UNCHANGED <<chan, overlapped>>
  <2>1. CASE SendScanDelete
    BY <1>1, <2>1 DEF SendScanDelete, CoordType
  <2>2. CASE HandleRemoved
    BY <1>1, <2>2 DEF HandleRemoved, CoordType, WatchEvent
  <2> QED BY <2>1, <2>2
<1>5. WriterTypes' /\ RowsOK' /\ \A i \in DOMAIN chan' : chan'[i].type = "Doc" => ReadInTime(chan'[i])
  <2>1. CASE UNCHANGED <<chan, overlapped>>
    BY <1>1, <1>2, <1>3, <2>1 DEF WriterTypes, RowsOK, MessagesOK
  <2>2. CASE /\ writer = "up" /\ HasRoom /\ Overlap(p)
             /\ chan' = Append(chan, [type |-> "Delete", path |-> p])
    <3> DEFINE m == [type |-> "Delete", path |-> p]
    <3>1. m \in WriterMsg /\ m.type # "Doc"
      BY DEF WriterMsg, DeleteMsg
    <3>2. chan' = Append(chan, m)
      BY <2>2
    <3> HIDE DEF m
    <3> QED BY <1>2, <1>3, <2>2, <3>1, <3>2, Sent
  <2> QED BY <1>4, <2>1, <2>2
<1>6. coord' \in CoordType /\ \A job \in coord'.jobs : StattedInTime(job)
  <2>1. coord' \in {Resting("live"), Resting("exited")}
        \/ \E q \in Paths : coord' = [coord EXCEPT !.deleted = @ \ {q}]
    BY <1>1 DEF SendScanDelete, HandleRemoved, CoordType
  <2>2. CASE coord' \in {Resting("live"), Resting("exited")}
    BY <2>2, RestingTyped DEF Phases
  <2>3. CASE \E q \in Paths : coord' = [coord EXCEPT !.deleted = @ \ {q}]
    <3>1. coord' \in CoordType /\ coord'.jobs = coord.jobs
      BY <1>1, <2>3 DEF CoordType
    <3> QED BY <1>1, <3>1
  <2> QED BY <2>1, <2>2, <2>3
<1>7. FileTypes' /\ FilesOK' /\ PoolTypes' /\ PendingIsExact'
  BY <1>1, <1>2, FilesKept, PoolKept, PendingKept DEF IInv
<1>8. JobsOK' /\ MessagesOK'
  <2>1. JobsOK'
    BY <1>1, <1>2, <1>3, <1>6, JobsKept
  <2>2. \A w \in Workers : worker'[w].phase = "extracted" => ReadInTime(worker'[w].doc)
    BY <1>1, <1>3 DEF MessagesOK
  <2> QED BY <1>3, <1>5, <2>1, <2>2 DEF MessagesOK, ReadInTime
<1>9. QueueTypes' /\ OtherTypes'
  <2>1. overlapped' \subseteq Paths
    BY <1>1, <1>4 DEF Overlap, OtherTypes
  <2> QED BY <1>1, <1>2, <2>1 DEF QueueTypes, OtherTypes, watchVars, poolVars
<1> QED BY <1>5, <1>6, <1>7, <1>8, <1>9, TypePartsNext DEF IInv, StampsOK

\* What is left when only the worker w, the pool or the counter move.
LEMMA WorkerMoves ==
    ASSUME IInv, NEW w \in Workers, NEW t, WorkerTypeOK(t), worker' = [worker EXCEPT ![w] = t],
           pool' \in Seq(Job), \A i \in DOMAIN pool' : StattedInTime(pool'[i]),
           t.phase = "started" => StattedInTime(t.job),
           t.phase = "extracted" => ReadInTime(t.doc),
           WriterTypes', RowsOK', \A i \in DOMAIN chan' : chan'[i].type = "Doc" => ReadInTime(chan'[i]),
           pending' \in Nat, PendingIsExact',
           UNCHANGED <<diskVars, crashes, watchVars, coord, handle, historyVars>>
    PROVE  IInv'
<1>1. /\ FileTypes /\ QueueTypes /\ coord \in CoordType /\ OtherTypes
      /\ FilesOK /\ JobsOK /\ MessagesOK
  BY TypeParts DEF IInv, StampsOK
<1>2. UNCHANGED <<disk, latest, raw, watchq, overlapped, missed>>
  BY DEF diskVars, watchVars, historyVars
<1>3. /\ DOMAIN worker' = Workers /\ \A v \in Workers : WorkerTypeOK(worker'[v])
      /\ worker'[w] = t /\ \A v \in Workers : v # w => worker'[v] = worker[v]
  BY WorkerUpdated DEF IInv
<1>4. FileTypes' /\ FilesOK' /\ QueueTypes' /\ coord' \in CoordType /\ OtherTypes'
  BY <1>1, <1>2, FilesKept DEF QueueTypes, OtherTypes
<1>5. PoolTypes'
  BY <1>3 DEF PoolTypes
<1>6. \A v \in Workers : worker'[v].phase = "started" => StattedInTime(worker'[v].job)
  BY <1>1, <1>3 DEF JobsOK
<1>7. JobsOK'
  BY <1>1, <1>2, <1>6 DEF JobsOK, StattedInTime
<1>8. \A v \in Workers : worker'[v].phase = "extracted" => ReadInTime(worker'[v].doc)
  BY <1>1, <1>3 DEF MessagesOK
<1>9. MessagesOK'
  BY <1>2, <1>8 DEF MessagesOK, ReadInTime
<1> QED BY <1>4, <1>5, <1>7, <1>9, TypePartsNext DEF IInv, StampsOK

\* How many workers are busy, when one of them changes.
LEMMA BusyChanges ==
    ASSUME IInv, NEW w \in Workers, NEW t, WorkerTypeOK(t), worker' = [worker EXCEPT ![w] = t]
    PROVE  /\ Cardinality(Busy) \in Nat /\ Len(pool) \in Nat /\ pending \in Nat
           /\ pending = Len(pool) + Cardinality(Busy)
           /\ worker[w] = Idle /\ t # Idle => Cardinality(Busy') = Cardinality(Busy) + 1
           /\ worker[w] # Idle /\ t # Idle => Busy' = Busy
           /\ worker[w] # Idle /\ t = Idle =>
                 Cardinality(Busy') = Cardinality(Busy) - 1 /\ Cardinality(Busy) > 0
           /\ PendingIsExact' <=> pending' = Len(pool') + Cardinality(Busy')
<1>1. \A v \in Workers : v # w => worker'[v] = worker[v]
  BY WorkerUpdated DEF IInv
<1>2. worker'[w] = t
  BY WorkerUpdated DEF IInv
<1>3. IsFiniteSet(Busy) /\ Cardinality(Busy) \in Nat
  BY FS_Subset, FS_CardinalityType, PipelineAssumption DEF Busy
<1>4. Len(pool) \in Nat /\ pending \in Nat /\ pending = Len(pool) + Cardinality(Busy)
  <2>1. pool \in Seq(Job) /\ pending \in Nat
    BY DEF IInv, TypeOK
  <2> QED BY <2>1 DEF IInv, PendingIsExact, Busy
<1>5. worker[w] = Idle /\ t # Idle => Cardinality(Busy') = Cardinality(Busy) + 1
  <2>1. worker[w] = Idle /\ t # Idle => Busy' = Busy \cup {w} /\ w \notin Busy
    BY <1>1, <1>2 DEF Busy
  <2> QED BY <1>3, <2>1, FS_AddElement
<1>6. worker[w] # Idle /\ t # Idle => Busy' = Busy
  BY <1>1, <1>2 DEF Busy
<1>7. worker[w] # Idle /\ t = Idle => Cardinality(Busy') = Cardinality(Busy) - 1 /\ Cardinality(Busy) > 0
  <2>1. worker[w] # Idle /\ t = Idle => Busy' = Busy \ {w} /\ w \in Busy
    BY <1>1, <1>2 DEF Busy
  <2> DEFINE B == Busy
  <2>2. IsFiniteSet(B) /\ Cardinality(B) \in Nat
    BY <1>3
  <2> SUFFICES ASSUME worker[w] # Idle, t = Idle
               PROVE  Cardinality(Busy') = Cardinality(B) - 1 /\ Cardinality(B) > 0
    OBVIOUS
  <2>3. Busy' = B \ {w} /\ w \in B
    BY <2>1
  <2> HIDE DEF B
  <2>4. IsFiniteSet(B \ {w}) /\ Cardinality(B \ {w}) = Cardinality(B) - 1
    BY <2>2, <2>3, FS_RemoveElement
  <2>5. Cardinality(B \ {w}) \in Nat
    BY <2>4, FS_CardinalityType
  <2> QED BY <2>2, <2>3, <2>4, <2>5
<1>8. PendingIsExact' <=> pending' = Len(pool') + Cardinality(Busy')
  BY DEF PendingIsExact, Busy
<1> QED BY <1>3, <1>4, <1>5, <1>6, <1>7, <1>8

\* A worker takes a job, reads the file, sends the document, and is done.
LEMMA StartJobInv ==
    ASSUME IInv, NEW w \in Workers, StartJob(w)
    PROVE  IInv'
<1> DEFINE t == [phase |-> "started", job |-> Head(pool)]
<1>1. /\ worker[w].phase = "idle" /\ pool # <<>> /\ pool' = Tail(pool)
      /\ worker' = [worker EXCEPT ![w] = t]
      /\ UNCHANGED <<diskVars, crashes, watchVars, coord, pending, writerVars, handle, historyVars>>
  BY DEF StartJob
<1>2. /\ pool \in Seq(Job) /\ \A i \in DOMAIN pool : StattedInTime(pool[i])
  BY DEF IInv, TypeOK, StampsOK, JobsOK
<1>3. /\ pool' \in Seq(Job) /\ Len(pool') = Len(pool) - 1 /\ Head(pool) \in Job
      /\ 1 \in DOMAIN pool /\ Head(pool) = pool[1]
      /\ \A i \in DOMAIN pool' : i + 1 \in DOMAIN pool /\ pool'[i] = pool[i + 1]
  BY <1>1, <1>2, Taken
<1>4. \A i \in DOMAIN pool' : StattedInTime(pool'[i])
  BY <1>2, <1>3
<1>5. StattedInTime(Head(pool))
  BY <1>2, <1>3
<1>6. /\ WorkerTypeOK(t) /\ t # Idle /\ t.phase = "started" /\ StattedInTime(t.job)
  BY <1>3, <1>5, WorkerShapes DEF Idle
<1>7. worker[w] = Idle
  BY <1>1, WorkerHolds DEF IInv
<1> HIDE DEF t
<1>8. PendingIsExact'
  <2>1. /\ Cardinality(Busy) \in Nat /\ Len(pool) \in Nat /\ pending = Len(pool) + Cardinality(Busy)
        /\ Cardinality(Busy') = Cardinality(Busy) + 1
        /\ PendingIsExact' <=> pending' = Len(pool') + Cardinality(Busy')
    BY <1>1, <1>6, <1>7, BusyChanges
  <2> HIDE DEF Busy
  <2>2. pending' = Len(pool') + Cardinality(Busy')
    BY <1>1, <1>3, <2>1
  <2> QED BY <2>1, <2>2
<1>9. /\ WriterTypes' /\ RowsOK' /\ pending' \in Nat
      /\ \A i \in DOMAIN chan' : chan'[i].type = "Doc" => ReadInTime(chan'[i])
  <2>1. WriterTypes /\ RowsOK /\ MessagesOK /\ pending \in Nat
    BY TypeParts DEF IInv, StampsOK, OtherTypes
  <2>2. UNCHANGED <<chan, latest>>
    BY <1>1 DEF writerVars, diskVars
  <2> QED BY <1>1, <2>1, <2>2, WriterKept DEF MessagesOK
<1>10. t.phase # "extracted"
  BY <1>6
<1> QED BY <1>1, <1>3, <1>4, <1>6, <1>8, <1>9, <1>10, WorkerMoves

\* When only the worker changes and stays busy, the pool and the counter agree.
LEMMA StaysBusy ==
    ASSUME IInv, NEW w \in Workers, NEW t, WorkerTypeOK(t), worker' = [worker EXCEPT ![w] = t],
           worker[w] # Idle, t # Idle, UNCHANGED <<pool, pending>>, UNCHANGED latest
    PROVE  /\ PendingIsExact' /\ pending' \in Nat /\ pool' \in Seq(Job)
           /\ \A i \in DOMAIN pool' : StattedInTime(pool'[i])
<1>1. pool \in Seq(Job) /\ \A i \in DOMAIN pool : StattedInTime(pool[i])
  BY DEF IInv, TypeOK, StampsOK, JobsOK
<1>2. /\ pending \in Nat /\ pending = Len(pool) + Cardinality(Busy) /\ Busy' = Busy
      /\ PendingIsExact' <=> pending' = Len(pool') + Cardinality(Busy')
  BY BusyChanges
<1> QED BY <1>1, <1>2

LEMMA ExtractInv ==
    ASSUME IInv, NEW w \in Workers, Extract(w)
    PROVE  IInv'
<1>1. /\ worker[w].phase = "started"
      /\ UNCHANGED <<diskVars, crashes, watchVars, coord, pool, pending, writerVars, handle, historyVars>>
  BY DEF Extract
<1>2. PICK status \in {"ok", "error"} :
          /\ disk[worker[w].job.path] = Gone => status = "error"
          /\ worker' = [worker EXCEPT ![w] = [phase |-> "extracted", job |-> worker[w].job,
                                              doc |-> Extracted(worker[w].job, status)]]
  BY DEF Extract
<1>3. PICK job \in Job : job = worker[w].job /\ StattedInTime(job)
  BY <1>1, WorkerHolds DEF IInv, StampsOK, JobsOK
<1>4. PICK doc : doc = Extracted(job, status)
  OBVIOUS
<1>5. PICK t : t = [phase |-> "extracted", job |-> job, doc |-> doc]
  OBVIOUS
<1>6. /\ job.path \in Paths /\ job.stamp \in Versions /\ disk[job.path] \in Versions \cup {Gone}
      /\ disk[job.path] # Gone => disk[job.path] = latest[job.path]
  BY <1>3 DEF Job, IInv, StampsOK, FilesOK, TypeOK
<1>7. /\ doc \in DocMsg /\ doc.path = job.path /\ doc.stamp = job.stamp /\ doc.status = status
      /\ status = "ok" => doc.content = disk[job.path]
  BY <1>4, <1>6 DEF Extracted, DocMsg
<1>8. ReadInTime(doc)
  <2> SUFFICES ASSUME status = "ok" PROVE doc.stamp <= doc.content /\ doc.content <= latest[doc.path]
    BY <1>7 DEF ReadInTime
  <2>1. disk[job.path] # Gone
    BY <1>2, <1>3
  <2>2. doc.content = latest[job.path] /\ doc.content \in Versions /\ job.stamp <= latest[job.path]
    BY <1>3, <1>6, <1>7, <2>1 DEF StattedInTime
  <2>3. doc.content \in Nat
    BY <2>2, VersionsAreNumbers
  <2>4. doc.content <= doc.content
    BY <2>3
  <2> QED BY <1>7, <2>2, <2>4
<1>9. WorkerTypeOK(t) /\ t.phase = "extracted" /\ t.doc = doc /\ t # Idle
  BY <1>5, <1>7, WorkerShapes DEF Idle
<1>10. worker' = [worker EXCEPT ![w] = t] /\ worker[w] # Idle
  BY <1>1, <1>2, <1>3, <1>4, <1>5 DEF Idle
<1>11. UNCHANGED <<latest, chan>>
  BY <1>1 DEF diskVars, writerVars
<1>12. /\ PendingIsExact' /\ pending' \in Nat /\ pool' \in Seq(Job)
       /\ \A i \in DOMAIN pool' : StattedInTime(pool'[i])
  BY <1>1, <1>9, <1>10, <1>11, StaysBusy
<1>13. /\ WriterTypes' /\ RowsOK'
       /\ \A i \in DOMAIN chan' : chan'[i].type = "Doc" => ReadInTime(chan'[i])
  <2>1. WriterTypes /\ RowsOK /\ MessagesOK
    BY TypeParts DEF IInv, StampsOK
  <2> QED BY <1>1, <1>11, <2>1, WriterKept DEF MessagesOK
<1> QED BY <1>1, <1>8, <1>9, <1>10, <1>12, <1>13, WorkerMoves

LEMMA SendDocInv ==
    ASSUME IInv, NEW w \in Workers, SendDoc(w)
    PROVE  IInv'
<1>1. /\ worker[w].phase = "extracted"
      /\ UNCHANGED <<diskVars, crashes, watchVars, coord, pool, pending, writer, row, handle, historyVars>>
  BY DEF SendDoc
<1>2. \/ writer = "up" /\ HasRoom /\ chan' = Append(chan, worker[w].doc)
      \/ UNCHANGED chan
  BY DEF SendDoc
<1>3. PICK t : t = [phase |-> "sent"] /\ worker' = [worker EXCEPT ![w] = t]
  BY DEF SendDoc
<1>4. WorkerTypeOK(t) /\ t.phase = "sent" /\ t # Idle /\ worker[w] # Idle
  BY <1>1, <1>3, WorkerShapes DEF Idle
<1>5. PICK doc \in DocMsg : doc = worker[w].doc /\ ReadInTime(doc)
  BY <1>1, WorkerHolds DEF IInv, StampsOK, MessagesOK
<1>6. doc \in WriterMsg
  BY <1>5 DEF WriterMsg
<1>7. UNCHANGED latest
  BY <1>1 DEF diskVars
<1>8. /\ PendingIsExact' /\ pending' \in Nat /\ pool' \in Seq(Job)
      /\ \A i \in DOMAIN pool' : StattedInTime(pool'[i])
  BY <1>1, <1>3, <1>4, <1>7, StaysBusy
<1>9. /\ WriterTypes' /\ RowsOK'
      /\ \A i \in DOMAIN chan' : chan'[i].type = "Doc" => ReadInTime(chan'[i])
  <2>1. CASE UNCHANGED chan
    <3>1. WriterTypes /\ RowsOK /\ MessagesOK
      BY TypeParts DEF IInv, StampsOK
    <3> QED BY <1>1, <1>7, <2>1, <3>1 DEF WriterTypes, RowsOK, MessagesOK
  <2>2. CASE writer = "up" /\ HasRoom /\ chan' = Append(chan, worker[w].doc)
    BY <1>1, <1>5, <1>6, <1>7, <2>2, Sent
  <2> QED BY <1>2, <2>1, <2>2
<1>10. t.phase # "started" /\ t.phase # "extracted"
  BY <1>4
<1> QED BY <1>1, <1>3, <1>4, <1>8, <1>9, <1>10, WorkerMoves

LEMMA FinishJobInv ==
    ASSUME IInv, NEW w \in Workers, FinishJob(w)
    PROVE  IInv'
<1>1. /\ worker[w].phase = "sent" /\ worker' = [worker EXCEPT ![w] = Idle] /\ pending' = pending - 1
      /\ UNCHANGED <<diskVars, crashes, watchVars, coord, pool, writerVars, handle, historyVars>>
  BY DEF FinishJob
<1>2. worker[w] # Idle
  BY <1>1 DEF Idle
<1>3. WorkerTypeOK(Idle) /\ Idle.phase # "started" /\ Idle.phase # "extracted"
  BY WorkerShapes
<1>4. PendingIsExact' /\ pending' \in Nat
  <2>1. /\ Cardinality(Busy) \in Nat /\ Len(pool) \in Nat /\ pending = Len(pool) + Cardinality(Busy)
        /\ Cardinality(Busy') = Cardinality(Busy) - 1 /\ Cardinality(Busy) > 0
        /\ PendingIsExact' <=> pending' = Len(pool') + Cardinality(Busy')
    BY <1>1, <1>2, <1>3, BusyChanges
  <2>2. pending' = Len(pool') + Cardinality(Busy') /\ pending' \in Nat
    BY <1>1, <2>1
  <2> QED BY <2>1, <2>2
<1>5. UNCHANGED <<latest, chan>>
  BY <1>1 DEF diskVars, writerVars
<1>6. pool' \in Seq(Job) /\ \A i \in DOMAIN pool' : StattedInTime(pool'[i])
  BY <1>1 DEF IInv, TypeOK, StampsOK, JobsOK
<1>7. /\ WriterTypes' /\ RowsOK'
      /\ \A i \in DOMAIN chan' : chan'[i].type = "Doc" => ReadInTime(chan'[i])
  <2>1. WriterTypes /\ RowsOK /\ MessagesOK
    BY TypeParts DEF IInv, StampsOK
  <2> QED BY <1>1, <1>5, <2>1, WriterKept DEF MessagesOK
<1> QED BY <1>1, <1>3, <1>4, <1>6, <1>7, WorkerMoves

\* The writer stores a document, marks one deleted, or loses a message.
LEMMA WriterInv ==
    ASSUME IInv, ProcessMsg \/ StoreFails
    PROVE  IInv'
<1>1. /\ FileTypes /\ QueueTypes /\ coord \in CoordType /\ PoolTypes /\ WriterTypes /\ OtherTypes
      /\ FilesOK /\ JobsOK /\ MessagesOK /\ RowsOK
  BY TypeParts DEF IInv, StampsOK
<1>2. /\ chan # <<>> /\ chan' = Tail(chan)
      /\ UNCHANGED <<diskVars, crashes, watchVars, coord, poolVars, writer, handle, overlapped>>
  BY DEF ProcessMsg, StoreFails, historyVars
<1>3. UNCHANGED <<latest, worker, pending>>
  BY <1>2 DEF diskVars, poolVars
<1>4. /\ chan' \in Seq(WriterMsg) /\ Len(chan') <= Capacity
      /\ Head(chan) \in WriterMsg /\ Head(chan).path \in Paths
      /\ Head(chan).type = "Doc" => ReadInTime(Head(chan))
      /\ \A i \in DOMAIN chan' : chan'[i].type = "Doc" => ReadInTime(chan'[i])
  BY <1>2, <1>3, Received
<1>5. row' \in [Paths -> DocumentRow] /\ RowsOK' /\ missed' \subseteq Paths
  <2>1. CASE ProcessMsg
    <3>1. PICK msg : msg = Head(chan)
      OBVIOUS
    <3>2. /\ row' = [row EXCEPT ![msg.path] = Stored(row[msg.path], msg)] /\ UNCHANGED missed
      BY <2>1, <3>1 DEF ProcessMsg, historyVars
    <3>3. row \in [Paths -> DocumentRow] /\ msg.path \in Paths /\ row[msg.path] \in DocumentRow
      BY <1>1, <1>4, <3>1 DEF WriterTypes
    <3>4. PICK r : r = Stored(row[msg.path], msg)
      OBVIOUS
    <3>5. /\ r \in DocumentRow
          /\ r.status = "ok" => r.stamp \in Versions /\ r.stamp <= r.content /\ r.content <= latest[msg.path]
      <4>1. CASE msg.type = "Doc"
        <5>1. msg \in DocMsg /\ ReadInTime(msg)
          BY <1>4, <3>1, <4>1 DEF WriterMsg, DocMsg, DeleteMsg
        <5>2. r = [status |-> msg.status, stamp |-> msg.stamp, content |-> msg.content]
          BY <3>4, <4>1 DEF Stored
        <5>3. r.status = msg.status /\ r.stamp = msg.stamp /\ r.content = msg.content
          BY <5>2
        <5>4. msg.stamp \in Versions /\ msg.status \in {"ok", "error"} /\ msg.content \in Versions \cup {Gone}
          BY <5>1 DEF DocMsg
        <5>5. r \in DocumentRow
          BY <5>2, <5>4 DEF DocumentRow
        <5> QED BY <5>1, <5>3, <5>4, <5>5 DEF ReadInTime
      <4>2. CASE msg.type # "Doc" /\ row[msg.path].status = "absent"
        <5>1. r = row[msg.path]
          BY <3>4, <4>2 DEF Stored
        <5> QED BY <3>3, <4>2, <5>1
      <4>3. CASE msg.type # "Doc" /\ row[msg.path].status # "absent"
        <5>1. r = [row[msg.path] EXCEPT !.status = "deleted"]
          BY <3>4, <4>3 DEF Stored
        <5> QED BY <3>3, <5>1 DEF DocumentRow
      <4> QED BY <4>1, <4>2, <4>3
    <3>6. row' = [row EXCEPT ![msg.path] = r]
      BY <3>2, <3>4
    <3>7. row' \in [Paths -> DocumentRow] /\ row'[msg.path] = r
          /\ \A q \in Paths : q # msg.path => row'[q] = row[q]
      BY <3>3, <3>5, <3>6
    <3>8. missed' \subseteq Paths
      BY <1>1, <3>2 DEF OtherTypes
    <3>9. RowsOK'
      BY <1>1, <1>3, <3>3, <3>5, <3>7 DEF RowsOK
    <3> QED BY <3>7, <3>8, <3>9
  <2>2. CASE StoreFails
    <3>1. UNCHANGED row /\ missed' = missed \cup {Head(chan).path}
      BY <2>2 DEF StoreFails
    <3> QED BY <1>1, <1>3, <1>4, <3>1 DEF RowsOK, WriterTypes, OtherTypes
  <2> QED BY <2>1, <2>2
<1>6. WriterTypes' /\ OtherTypes'
  BY <1>1, <1>2, <1>3, <1>4, <1>5 DEF WriterTypes, OtherTypes
<1>7. FileTypes' /\ FilesOK' /\ PoolTypes' /\ PendingIsExact'
  BY <1>1, <1>2, FilesKept, PoolKept, PendingKept DEF IInv
<1>8. JobsOK'
  <2>1. \A job \in coord'.jobs : StattedInTime(job)
    BY <1>1, <1>2 DEF JobsOK
  <2> QED BY <1>1, <1>2, <1>3, <2>1, JobsKept
<1>9. MessagesOK'
  <2>1. \A w \in Workers : worker'[w].phase = "extracted" => ReadInTime(worker'[w].doc)
    BY <1>1, <1>3 DEF MessagesOK
  <2> QED BY <1>3, <1>4, <2>1 DEF MessagesOK, ReadInTime
<1>10. QueueTypes' /\ coord' \in CoordType
  BY <1>1, <1>2 DEF QueueTypes, watchVars
<1> QED BY <1>5, <1>6, <1>7, <1>8, <1>9, <1>10, TypePartsNext DEF IInv, StampsOK

\* The writer finds its channel closed, and the stop flag is set.
LEMMA StopInv ==
    ASSUME IInv, WriterExits \/ SetStopFlag
    PROVE  IInv'
<1>1. /\ FileTypes /\ QueueTypes /\ coord \in CoordType /\ PoolTypes /\ WriterTypes /\ OtherTypes
      /\ FilesOK /\ JobsOK /\ MessagesOK /\ RowsOK
  BY TypeParts DEF IInv, StampsOK
<1>2. /\ UNCHANGED <<diskVars, crashes, watchVars, coord, poolVars, chan, row, historyVars>>
      /\ writer' \in {writer, "gone"} /\ handle' \in {handle, "stopping"}
  BY DEF WriterExits, SetStopFlag, writerVars
<1>3. UNCHANGED <<latest, worker, pending, raw, watchq, overlapped, missed>>
  BY <1>2 DEF diskVars, poolVars, watchVars, historyVars
<1>4. FileTypes' /\ FilesOK' /\ PoolTypes' /\ PendingIsExact'
  BY <1>1, <1>2, FilesKept, PoolKept, PendingKept DEF IInv
<1>5. QueueTypes' /\ coord' \in CoordType /\ OtherTypes'
  BY <1>1, <1>2, <1>3 DEF QueueTypes, OtherTypes
<1>6. WriterTypes' /\ RowsOK'
  BY <1>1, <1>2, <1>3 DEF WriterTypes, RowsOK
<1>7. JobsOK'
  <2>1. \A job \in coord'.jobs : StattedInTime(job)
    BY <1>1, <1>2 DEF JobsOK
  <2> QED BY <1>1, <1>2, <1>3, <2>1, JobsKept
<1>8. MessagesOK'
  BY <1>1, <1>2, <1>3, MessagesKept
<1> QED BY <1>4, <1>5, <1>6, <1>7, <1>8, TypePartsNext DEF IInv, StampsOK

\* The process ends, of its own or not: the files and the rows stay.
LEMMA DownInv ==
    ASSUME IInv, Down, crashes' \in 0 .. MaxCrashes
    PROVE  IInv'
<1>1. FileTypes /\ WriterTypes /\ FilesOK /\ RowsOK
  BY TypeParts DEF IInv, StampsOK
<1>2. /\ raw' = <<>> /\ watchq' = <<>> /\ coord' = Resting("down")
      /\ pool' = <<>> /\ worker' = [w \in Workers |-> Idle] /\ pending' = 0
      /\ chan' = <<>> /\ writer' = "gone" /\ handle' = "running"
      /\ overlapped' = {} /\ missed' = {}
      /\ UNCHANGED <<disk, latest, edits, row>>
  BY DEF Down, diskVars
<1>3. FileTypes' /\ FilesOK'
  BY <1>1, <1>2 DEF FileTypes, FilesOK
<1>4. \A w \in Workers : worker'[w] = Idle /\ WorkerTypeOK(worker'[w])
  BY <1>2, WorkerShapes
<1>5. QueueTypes' /\ PoolTypes'
  BY <1>2, <1>4, Emptied DEF QueueTypes, PoolTypes
<1>6. coord' \in CoordType /\ coord'.jobs = {}
  BY <1>2, RestingTyped DEF Phases
<1>7. WriterTypes' /\ RowsOK'
  BY <1>1, <1>2, Emptied, PipelineAssumption DEF WriterTypes, RowsOK
<1>8. OtherTypes'
  BY <1>2 DEF OtherTypes
<1>9. JobsOK' /\ MessagesOK'
  BY <1>2, <1>4, <1>6, Emptied, WorkerShapes DEF JobsOK, MessagesOK
<1>10. PendingIsExact'
  <2>1. {w \in Workers : worker'[w] # Idle} = {}
    BY <1>4
  <2>2. Cardinality({w \in Workers : worker'[w] # Idle}) = 0
    BY <2>1, FS_EmptySet
  <2>3. Len(pool') = 0 /\ pending' = 0
    BY <1>2, Emptied
  <2> QED BY <2>2, <2>3 DEF PendingIsExact
<1> QED BY <1>3, <1>5, <1>6, <1>7, <1>8, <1>9, <1>10, TypePartsNext DEF IInv, StampsOK

LEMMA StartInv ==
    ASSUME IInv, Start
    PROVE  IInv'
<1>1. /\ FileTypes /\ QueueTypes /\ PoolTypes /\ WriterTypes /\ OtherTypes
      /\ FilesOK /\ JobsOK /\ MessagesOK /\ RowsOK
  BY TypeParts DEF IInv, StampsOK
<1>2. /\ writer' \in {"up", "gone"}
      /\ coord' = [Resting("walk") EXCEPT !.todo = Paths]
      /\ UNCHANGED <<diskVars, crashes, watchVars, poolVars, chan, row, handle, historyVars>>
  BY DEF Start
<1>3. UNCHANGED <<latest, worker, pending, raw, watchq, overlapped, missed>>
  BY <1>2 DEF diskVars, poolVars, watchVars, historyVars
<1>4. coord' \in CoordType /\ \A job \in coord'.jobs : StattedInTime(job)
  BY <1>2, RestingTyped DEF Phases
<1>5. FileTypes' /\ FilesOK' /\ PoolTypes' /\ PendingIsExact'
  BY <1>1, <1>2, FilesKept, PoolKept, PendingKept DEF IInv
<1>6. QueueTypes' /\ OtherTypes' /\ WriterTypes' /\ RowsOK'
  BY <1>1, <1>2, <1>3 DEF QueueTypes, OtherTypes, WriterTypes, RowsOK
<1>7. JobsOK' /\ MessagesOK'
  BY <1>1, <1>2, <1>3, <1>4, JobsKept, MessagesKept
<1> QED BY <1>4, <1>5, <1>6, <1>7, TypePartsNext DEF IInv, StampsOK

LEMMA StutterInv ==
    ASSUME IInv, UNCHANGED vars
    PROVE  IInv'
<1>1. /\ QueueTypes /\ coord \in CoordType /\ OtherTypes /\ \A job \in coord.jobs : StattedInTime(job)
  BY TypeParts DEF IInv, StampsOK, JobsOK
<1>2. UNCHANGED <<diskVars, crashes, poolVars, writerVars, handle, overlapped, missed, coord, raw, watchq>>
  BY DEF vars, watchVars, historyVars
<1>3. QueueTypes' /\ missed' \subseteq Paths
  BY <1>1, <1>2 DEF QueueTypes, OtherTypes
<1> QED BY <1>1, <1>2, <1>3, CoordinatorMoves

LEMMA NextInv == IInv /\ [Next]_vars => IInv'
<1> SUFFICES ASSUME IInv, [Next]_vars PROVE IInv'
  OBVIOUS
<1>1. CASE FileSystem
  BY <1>1, FileSystemInv
<1>2. CASE Forward \/ LoseEvent \/ DropWatcher
  BY <1>2, WatcherInv
<1>3. CASE Coordinator
  BY <1>3, WalkInv, DispatchInv, SendDeleteInv DEF Coordinator
<1>4. CASE \E w \in Workers : Worker(w)
  BY <1>4, StartJobInv, ExtractInv, SendDocInv, FinishJobInv DEF Worker
<1>5. CASE Writer
  BY <1>5, WriterInv, StopInv DEF Writer
<1>6. CASE SetStopFlag
  BY <1>6, StopInv
<1>7. CASE JoinThreads \/ Crash
  <2>1. crashes \in 0 .. MaxCrashes
    BY DEF IInv, TypeOK
  <2>2. crashes' \in 0 .. MaxCrashes
    BY <1>7, <2>1, PipelineAssumption DEF JoinThreads, Crash
  <2> QED BY <1>7, <2>2, DownInv DEF JoinThreads, Crash
<1>8. CASE Start
  BY <1>8, StartInv
<1>9. CASE UNCHANGED vars
  BY <1>9, StutterInv
<1> QED BY <1>1, <1>2, <1>3, <1>4, <1>5, <1>6, <1>7, <1>8, <1>9 DEF Next

LEMMA Invariance == Spec => []IInv
  BY InitInv, NextInv, PTL DEF Spec

-----------------------------------------------------------------------------
\* The types of everything the threads share, and a writer channel that never
\* holds more than its capacity, through blocking, stops and crashes.
THEOREM TypeCorrect == Spec => []TypeOK
<1>1. IInv => TypeOK
  BY DEF IInv
<1> QED BY <1>1, Invariance, PTL

\* progress.pending (coordinator.rs:170-173) is the number of jobs in the pool
\* and at work, also when the writer has gone and their results are discarded.
THEOREM PendingExact == Spec => []PendingIsExact
<1>1. IInv => PendingIsExact
  BY DEF IInv
<1> QED BY <1>1, Invariance, PTL

\* The chain stamp <= content <= latest closes when the stamp is the file's.
LEMMA InvVouches == IInv => StampVouchesForContent
<1> SUFFICES ASSUME IInv, NEW p \in Paths, row[p].status = "ok", row[p].stamp = disk[p]
             PROVE  row[p].content = disk[p]
  BY DEF StampVouchesForContent
<1>1. row[p].stamp \in Versions /\ row[p].stamp <= row[p].content /\ row[p].content <= latest[p]
  BY DEF IInv, StampsOK, RowsOK
<1>2. disk[p] \in {Gone, latest[p]}
  BY DEF IInv, StampsOK, FilesOK
<1>3. disk[p] = latest[p]
  BY <1>1, <1>2, VersionsAreNumbers
<1>4. row[p] \in DocumentRow
  BY DEF IInv, TypeOK
<1>5. row[p].content \in Versions \cup {Gone}
  BY <1>4 DEF DocumentRow
<1>6. row[p].content \in Nat /\ latest[p] \in Nat
  BY <1>1, <1>3, <1>5, VersionsAreNumbers
<1> QED BY <1>1, <1>3, <1>6

\* A row whose identity is the file's holds the file's text, so the next scan may
\* skip it (scanner.rs:232): with any number of files, workers, edits between
\* the stat and the read, lost events, failed writes and crashes.
THEOREM StampVouches == Spec => []StampVouchesForContent
BY InvVouches, Invariance, PTL

-----------------------------------------------------------------------------
(***************************************************************************)
(* When the pipeline is quiet, the documents table is current, for any     *)
(* files, workers, channel capacity, edits, crashes and faults (with the   *)
(* exceptions that QuietMeansCurrent names).                               *)
(*                                                                         *)
(* "Quiet" is the end of a chain: the file, the events about it, the scan, *)
(* the extractions, the channel, the row. The induction says of the whole  *)
(* chain what the property says of its end (Tracked): the last event of a  *)
(* path tells what the file is now; without one, what the scan has         *)
(* planned for it is right; without a plan, what the extractions under     *)
(* way have statted and read; without those, the last message; and         *)
(* without a message, the row. An event or a result that overtakes another *)
(* of its path breaks the chain, which is what overlapped records.         *)
(***************************************************************************)

NoneOf(q, p) == \A i \in DOMAIN q : q[i].path # p

\* The last element of the queue q for p, if there is one, is in good.
LastIn(q, p, good) ==
    \A i \in DOMAIN q :
        q[i].path = p /\ (\A j \in DOMAIN q : j > i => q[j].path # p) => q[i] \in good

RawEvent == [kind : {"touch", "remove"}, path : Paths]

\* What an event, a message and a job say that is still so.
RawGood(p)   == {e \in RawEvent : e.kind = "remove" => disk[p] = Gone}
WatchGood(p) == {e \in WatchEvent : e.kind = "Removed" <=> disk[p] = Gone}
MsgGood(p)   == {m \in WriterMsg :
                    /\ m.type = "Doc" => m.stamp = disk[p] /\ (m.status = "ok" => m.content = disk[p])
                    /\ m.type = "Delete" => disk[p] = Gone}

NoEvent(p) == NoneOf(raw, p) /\ NoneOf(watchq, p) /\ \A e \in coord.taken : e.path # p

\* The last event of p on its way is about p as it is now.
EventsOK(p) ==
    /\ LastIn(raw, p, RawGood(p))
    /\ NoneOf(raw, p) => LastIn(watchq, p, WatchGood(p))
    /\ NoneOf(raw, p) /\ NoneOf(watchq, p) =>
          \A e \in coord.taken : e.path = p => e \in WatchGood(p)

ScanOK(p) ==
    /\ p \in coord.deleted => disk[p] = Gone
    /\ \A job \in coord.jobs : job.path = p => job.stamp = disk[p]

Scheduled(p) == p \in coord.todo \/ p \in coord.deleted \/ \E job \in coord.jobs : job.path = p

InFlightOK(p) ==
    /\ \A i \in DOMAIN pool : pool[i].path = p => pool[i].stamp = disk[p]
    /\ \A w \in Workers :
          /\ worker[w].phase = "started" /\ worker[w].job.path = p => worker[w].job.stamp = disk[p]
          /\ worker[w].phase = "extracted" /\ worker[w].job.path = p => worker[w].doc \in MsgGood(p)

\* What the table will say of p when the writer has caught up.
TableOK(p) ==
    /\ LastIn(chan, p, MsgGood(p))
    /\ NoneOf(chan, p) => Current(p) \/ Undeleted(p)

\* From the file to its row: whoever looks at p next will find it as it is, and
\* when nobody will, what is under way is right, and then what is stored.
Tracked(p) ==
    /\ EventsOK(p)
    /\ NoEvent(p) => /\ ScanOK(p)
                     /\ ~Scheduled(p) => /\ InFlightOK(p)
                                         /\ ~Extracting(p) => TableOK(p)

NothingUnderWay == pool = <<>> /\ chan = <<>> /\ \A w \in Workers : worker[w] = Idle

PhaseOK ==
    /\ coord.phase = "down" => /\ NothingUnderWay /\ raw = <<>> /\ watchq = <<>>
                               /\ coord = Resting("down")
    /\ coord.phase = "walk" => NothingUnderWay /\ coord.taken = {}
    /\ coord.phase = "dispatch" => coord.todo = {} /\ coord.taken = {}
    /\ coord.phase \in {"live", "exited"} => coord = Resting(coord.phase)
    /\ coord.phase = "handling" => /\ coord.todo = {} /\ coord.jobs = {} /\ coord.deleted = {}
                                   /\ \A e, f \in coord.taken : e = f
    /\ coord.phase = "exited" => handle # "running" \/ writer = "gone"

DocsOK == \A w \in Workers : worker[w].phase = "extracted" => worker[w].doc.path = worker[w].job.path

Running == Up /\ handle = "running" /\ writer = "up"

QInv ==
    /\ PhaseOK /\ DocsOK
    /\ Running => \A p \in Paths \ (overlapped \cup missed) : Tracked(p)

-----------------------------------------------------------------------------
(* Facts about the last element of a queue.                                *)

LEMMA NoneIsLast ==
    ASSUME NEW q, NEW p, NEW good
    PROVE  NoneOf(<<>>, p) /\ (NoneOf(q, p) => LastIn(q, p, good))
  BY DEF NoneOf, LastIn

LEMMA LastAppended ==
    ASSUME NEW S, NEW s \in Seq(S), NEW x \in S, NEW p, NEW good
    PROVE  /\ x.path = p /\ x \in good => LastIn(Append(s, x), p, good)
           /\ x.path # p /\ LastIn(s, p, good) => LastIn(Append(s, x), p, good)
           /\ x.path = p => ~NoneOf(Append(s, x), p)
           /\ NoneOf(Append(s, x), p) => NoneOf(s, p) /\ x.path # p
           /\ NoneOf(s, p) /\ x.path # p => NoneOf(Append(s, x), p)
<1> DEFINE n == Len(s) + 1
           t == Append(s, x)
<1>1. n \in DOMAIN t /\ t[n] = x /\ n \in Nat
  OBVIOUS
<1>2. \A i \in DOMAIN t : i = n \/ (i \in DOMAIN s /\ t[i] = s[i] /\ i < n)
  OBVIOUS
<1>3. \A i \in DOMAIN s : i \in DOMAIN t /\ t[i] = s[i]
  OBVIOUS
<1> HIDE DEF n, t
<1>4. x.path = p /\ x \in good => LastIn(t, p, good)
  BY <1>1, <1>2 DEF LastIn
<1>5. x.path # p /\ LastIn(s, p, good) => LastIn(t, p, good)
  <2> SUFFICES ASSUME x.path # p, LastIn(s, p, good), NEW i \in DOMAIN t, t[i].path = p,
                      \A j \in DOMAIN t : j > i => t[j].path # p
               PROVE  t[i] \in good
    BY DEF LastIn
  <2>1. i \in DOMAIN s /\ t[i] = s[i]
    BY <1>1, <1>2
  <2>2. \A j \in DOMAIN s : j > i => s[j].path # p
    BY <1>3
  <2> QED BY <2>1, <2>2 DEF LastIn
<1>6. x.path = p => ~NoneOf(t, p)
  BY <1>1 DEF NoneOf
<1>7. NoneOf(t, p) => NoneOf(s, p) /\ x.path # p
  BY <1>1, <1>3 DEF NoneOf
<1>8. NoneOf(s, p) /\ x.path # p => NoneOf(t, p)
  BY <1>1, <1>2 DEF NoneOf
<1> QED BY <1>4, <1>5, <1>6, <1>7, <1>8 DEF t

LEMMA LastTaken ==
    ASSUME NEW S, NEW s \in Seq(S), s # <<>>, NEW p, NEW good
    PROVE  /\ LastIn(s, p, good) => LastIn(Tail(s), p, good)
           /\ LastIn(s, p, good) /\ NoneOf(Tail(s), p) /\ Head(s).path = p => Head(s) \in good
           /\ NoneOf(Tail(s), p) /\ Head(s).path # p => NoneOf(s, p)
           /\ NoneOf(s, p) => NoneOf(Tail(s), p) /\ Head(s).path # p
<1> DEFINE t == Tail(s)
<1>1. 1 \in DOMAIN s /\ Head(s) = s[1]
  OBVIOUS
<1>2. \A i \in DOMAIN t : i \in Nat /\ i + 1 \in DOMAIN s /\ t[i] = s[i + 1]
  OBVIOUS
<1>3. \A i \in DOMAIN s : i \in Nat /\ (i # 1 => i > 1 /\ i - 1 \in DOMAIN t /\ t[i - 1] = s[i])
  OBVIOUS
<1> HIDE DEF t
<1>4. LastIn(s, p, good) => LastIn(t, p, good)
  <2> SUFFICES ASSUME LastIn(s, p, good), NEW i \in DOMAIN t, t[i].path = p,
                      \A j \in DOMAIN t : j > i => t[j].path # p
               PROVE  t[i] \in good
    BY DEF LastIn
  <2>1. i \in Nat /\ i + 1 \in DOMAIN s /\ t[i] = s[i + 1]
    BY <1>2
  <2>2. ASSUME NEW j \in DOMAIN s, j > i + 1 PROVE s[j].path # p
    <3>1. j \in Nat /\ j - 1 \in DOMAIN t /\ t[j - 1] = s[j] /\ j - 1 > i
      BY <1>3, <2>1, <2>2
    <3> QED BY <3>1
  <2> QED BY <2>1, <2>2 DEF LastIn
<1>5. LastIn(s, p, good) /\ NoneOf(t, p) /\ Head(s).path = p => Head(s) \in good
  <2> SUFFICES ASSUME LastIn(s, p, good), NoneOf(t, p), Head(s).path = p PROVE Head(s) \in good
    OBVIOUS
  <2>1. \A j \in DOMAIN s : j > 1 => s[j].path # p
    BY <1>3 DEF NoneOf
  <2> QED BY <1>1, <2>1 DEF LastIn
<1>6. NoneOf(t, p) /\ Head(s).path # p => NoneOf(s, p)
  BY <1>1, <1>3 DEF NoneOf
<1>7. NoneOf(s, p) => NoneOf(t, p) /\ Head(s).path # p
  BY <1>1, <1>2 DEF NoneOf
<1> QED BY <1>4, <1>5, <1>6, <1>7 DEF t

-----------------------------------------------------------------------------
(* What a step leaves alone of the chain.                                  *)

LEMMA GoodKept ==
    ASSUME NEW p \in Paths, disk'[p] = disk[p]
    PROVE  RawGood(p)' = RawGood(p) /\ WatchGood(p)' = WatchGood(p) /\ MsgGood(p)' = MsgGood(p)
  BY DEF RawGood, WatchGood, MsgGood

LEMMA EventsKept ==
    ASSUME NEW p \in Paths, disk'[p] = disk[p], UNCHANGED <<raw, watchq>>, coord'.taken = coord.taken
    PROVE  (EventsOK(p) => EventsOK(p)') /\ (NoEvent(p)' <=> NoEvent(p))
  BY GoodKept DEF EventsOK, NoEvent, NoneOf, LastIn

LEMMA PlanKept ==
    ASSUME NEW p \in Paths, disk'[p] = disk[p],
           coord'.todo = coord.todo, coord'.jobs = coord.jobs, coord'.deleted = coord.deleted
    PROVE  (ScanOK(p)' <=> ScanOK(p)) /\ (Scheduled(p)' <=> Scheduled(p))
  BY DEF ScanOK, Scheduled

LEMMA InFlightKept ==
    ASSUME NEW p \in Paths, disk'[p] = disk[p], UNCHANGED <<pool, worker>>
    PROVE  (InFlightOK(p)' <=> InFlightOK(p)) /\ (Extracting(p)' <=> Extracting(p))
  BY GoodKept DEF InFlightOK, Extracting

LEMMA TableKept ==
    ASSUME NEW p \in Paths, disk'[p] = disk[p], row'[p] = row[p], UNCHANGED chan
    PROVE  TableOK(p)' <=> TableOK(p)
  BY GoodKept DEF TableOK, LastIn, NoneOf, Current, Undeleted

\* The worker w is the only one that changes, and the pool does not: what is
\* under way for a path that w is not at is as before.
LEMMA OthersKept ==
    ASSUME TypeOK, NEW p \in Paths, UNCHANGED disk, UNCHANGED pool,
           NEW w \in Workers, NEW t, worker' = [worker EXCEPT ![w] = t],
           worker[w].phase \in {"started", "extracted"} => worker[w].job.path # p,
           t.phase \in {"started", "extracted"} => t.job.path # p
    PROVE  (InFlightOK(p)' <=> InFlightOK(p)) /\ (Extracting(p)' <=> Extracting(p))
<1>1. worker'[w] = t /\ \A v \in Workers : v # w => worker'[v] = worker[v]
  BY DEF TypeOK
<1>2. disk'[p] = disk[p]
  OBVIOUS
<1> QED BY <1>1, <1>2, GoodKept DEF InFlightOK, Extracting

-----------------------------------------------------------------------------
(* What is there in each phase of the coordinator.                         *)

LEMMA RestingFields ==
    ASSUME NEW phase
    PROVE  /\ Resting(phase).phase = phase /\ Resting(phase).todo = {} /\ Resting(phase).jobs = {}
           /\ Resting(phase).deleted = {} /\ Resting(phase).taken = {}
  BY DEF Resting

\* While there is something under way, the coordinator is past its walk.
LEMMA PastTheWalk ==
    ASSUME PhaseOK, \/ pool # <<>> \/ chan # <<>> \/ \E w \in Workers : worker[w] # Idle
    PROVE  coord.phase # "walk" /\ coord.phase # "down"
  BY DEF PhaseOK, NothingUnderWay

\* The coordinator, the handle, and the writer stay: so do the phases.
LEMMA PhaseKept ==
    ASSUME PhaseOK, UNCHANGED <<coord, handle>>, writer' = writer \/ writer' = "gone",
           NothingUnderWay' \/ (coord.phase # "walk" /\ coord.phase # "down"),
           UNCHANGED <<raw, watchq>> \/ coord.phase # "down"
    PROVE  PhaseOK'
  BY DEF PhaseOK

LEMMA DocsKept ==
    ASSUME DocsOK, UNCHANGED worker
    PROVE  DocsOK'
  BY DEF DocsOK

LEMMA FilePhases ==
    ASSUME IInv, QInv, FileSystem
    PROVE  PhaseOK' /\ DocsOK'
<1>1. \E p \in Paths : \E content, kind : Edit(p, content, kind)
  BY DEF FileSystem, WriteFile, RemoveFile, RestoreFile
<1>2. /\ UNCHANGED <<coord, handle, writer, pool, chan, worker, watchq>>
      /\ coord.phase = "down" => UNCHANGED raw
  BY <1>1 DEF Edit, Noticed, Up, poolVars, writerVars
<1>3. NothingUnderWay' <=> NothingUnderWay
  BY <1>2 DEF NothingUnderWay
<1>4. coord.phase \in {"walk", "down"} => NothingUnderWay
  BY DEF QInv, PhaseOK
<1> QED BY <1>2, <1>3, <1>4, PhaseKept, DocsKept DEF QInv

LEMMA WatchPhases ==
    ASSUME IInv, QInv, Forward \/ LoseEvent \/ DropWatcher
    PROVE  PhaseOK' /\ DocsOK'
<1>1. /\ UNCHANGED <<coord, writer, pool, chan, worker>>
      /\ handle' \in {handle, "unwatched"}
      /\ UNCHANGED <<raw, watchq>> \/ raw # <<>> \/ (raw' = <<>> /\ UNCHANGED watchq)
  BY DEF Forward, LoseEvent, DropWatcher, poolVars, writerVars, historyVars
<1>2. NothingUnderWay' <=> NothingUnderWay
  BY <1>1 DEF NothingUnderWay
<1>3. PhaseOK'
  BY <1>1, <1>2 DEF QInv, PhaseOK
<1> QED BY <1>1, <1>3, DocsKept DEF QInv

LEMMA WalkPhases ==
    ASSUME IInv, QInv, \/ \E p \in Paths : VisitFile(p) \/ MissFile(p)
                       \/ WalkDone \/ ScanFails \/ EnterLiveLoop \/ TakeEvent \/ StatFails \/ ExitLoop
    PROVE  PhaseOK' /\ DocsOK'
<1>1. coord \in CoordType
  BY TypeParts DEF IInv
<1>2. UNCHANGED <<worker, pool, chan, handle, writer>>
  BY DEF VisitFile, MissFile, WalkDone, ScanFails, EnterLiveLoop, TakeEvent, StatFails, ExitLoop, poolVars, writerVars
<1>3. NothingUnderWay' <=> NothingUnderWay
  BY <1>2 DEF NothingUnderWay
<1>4. CASE \E p \in Paths : VisitFile(p) \/ MissFile(p)
  <2>1. coord.phase = "walk" /\ coord'.phase = "walk" /\ coord'.taken = coord.taken
    BY <1>1, <1>4 DEF VisitFile, MissFile, CoordType
  <2> QED BY <1>2, <1>3, <2>1, DocsKept DEF QInv, PhaseOK
<1>5. CASE WalkDone
  <2>1. /\ coord.phase = "walk" /\ coord'.phase = "dispatch" /\ coord'.taken = coord.taken
        /\ coord'.todo = {}
    BY <1>1, <1>5 DEF WalkDone, CoordType
  <2> QED BY <1>2, <1>3, <2>1, DocsKept DEF QInv, PhaseOK
<1>6. CASE ScanFails \/ EnterLiveLoop \/ StatFails
  <2>1. coord' = Resting("live")
    BY <1>6 DEF ScanFails, EnterLiveLoop, StatFails
  <2> QED BY <1>2, <2>1, RestingFields, DocsKept DEF QInv, PhaseOK
<1>7. CASE ExitLoop
  <2>1. coord' = Resting("exited") /\ handle' # "running"
    BY <1>2, <1>7 DEF ExitLoop, Stopping
  <2> QED BY <1>2, <2>1, RestingFields, DocsKept DEF QInv, PhaseOK
<1>8. CASE TakeEvent
  <2>1. coord' = [Resting("handling") EXCEPT !.taken = {Head(watchq)}]
    BY <1>8 DEF TakeEvent
  <2>2. /\ coord'.phase = "handling" /\ coord'.todo = {} /\ coord'.jobs = {} /\ coord'.deleted = {}
        /\ \A e, f \in coord'.taken : e = f
    BY <2>1 DEF Resting
  <2> QED BY <1>2, <2>2, DocsKept DEF QInv, PhaseOK
<1> QED BY <1>4, <1>5, <1>6, <1>7, <1>8

LEMMA SendPhases ==
    ASSUME IInv, QInv, DispatchScanJob \/ HandleDirty \/ SendScanDelete \/ HandleRemoved
    PROVE  PhaseOK' /\ DocsOK'
<1>1. coord \in CoordType
  BY TypeParts DEF IInv
<1>2. UNCHANGED <<worker, handle, writer>>
  BY DEF DispatchScanJob, HandleDirty, DispatchExtract, SendScanDelete, HandleRemoved, poolVars, writerVars
<1>3. \/ coord.phase = "dispatch" /\ coord'.phase = "dispatch"
            /\ coord'.todo = coord.todo /\ coord'.taken = coord.taken
      \/ coord' = Resting("live")
      \/ coord' = Resting("exited") /\ writer = "gone"
  BY <1>1 DEF DispatchScanJob, HandleDirty, SendScanDelete, HandleRemoved, CoordType
<1> QED BY <1>2, <1>3, RestingFields, DocsKept DEF QInv, PhaseOK

LEMMA WorkPhases ==
    ASSUME IInv, QInv, \/ \E w \in Workers : Worker(w)
                       \/ ProcessMsg \/ StoreFails \/ WriterExits
    PROVE  PhaseOK' /\ DocsOK'
<1>1. /\ UNCHANGED <<coord, handle, raw, watchq>> /\ writer' \in {writer, "gone"}
  BY DEF Worker, StartJob, Extract, SendDoc, FinishJob, ProcessMsg, StoreFails, WriterExits, watchVars, writerVars
<1>2. CASE \E w \in Workers : Worker(w)
  <2>1. PICK w \in Workers : Worker(w)
    BY <1>2
  <2>2. pool # <<>> \/ worker[w] # Idle
    BY <2>1 DEF Worker, StartJob, Extract, SendDoc, FinishJob, Idle
  <2>3. PhaseOK'
    BY <1>1, <2>2, PastTheWalk, PhaseKept DEF QInv
  <2>4. PICK t : worker' = [worker EXCEPT ![w] = t] /\ (t.phase = "extracted" => t.doc.path = t.job.path)
    <3>1. CASE StartJob(w)
      <4>1. PICK t : t = [phase |-> "started", job |-> Head(pool)]
        OBVIOUS
      <4>2. t.phase # "extracted" /\ worker' = [worker EXCEPT ![w] = t]
        BY <3>1, <4>1 DEF StartJob
      <4> QED BY <4>2
    <3>2. CASE Extract(w)
      BY <3>2 DEF Extract, Extracted
    <3>3. CASE SendDoc(w)
      <4>1. PICK t : t = [phase |-> "sent"]
        OBVIOUS
      <4>2. t.phase # "extracted" /\ worker' = [worker EXCEPT ![w] = t]
        BY <3>3, <4>1 DEF SendDoc
      <4> QED BY <4>2
    <3>4. CASE FinishJob(w)
      <4>1. Idle.phase # "extracted" /\ worker' = [worker EXCEPT ![w] = Idle]
        BY <3>4, WorkerShapes DEF FinishJob
      <4> QED BY <4>1
    <3> QED BY <2>1, <3>1, <3>2, <3>3, <3>4 DEF Worker
  <2>5. DocsOK'
    BY <2>4 DEF QInv, DocsOK, IInv, TypeOK
  <2> QED BY <2>3, <2>5
<1>3. CASE ProcessMsg \/ StoreFails
  <2>1. chan # <<>> /\ UNCHANGED worker
    BY <1>3 DEF ProcessMsg, StoreFails, poolVars
  <2> QED BY <1>1, <2>1, PastTheWalk, PhaseKept, DocsKept DEF QInv
<1>4. CASE WriterExits
  <2>1. coord.phase = "exited" /\ UNCHANGED worker
    BY <1>4 DEF WriterExits, SendersGone, poolVars
  <2> QED BY <1>1, <2>1, PhaseKept, DocsKept DEF QInv
<1> QED BY <1>2, <1>3, <1>4

LEMMA HandlePhases ==
    ASSUME IInv, QInv, SetStopFlag \/ Down \/ Start
    PROVE  PhaseOK' /\ DocsOK'
<1>1. CASE SetStopFlag
  <2>1. /\ UNCHANGED <<coord, writer, pool, chan, worker, raw, watchq>> /\ handle' # "running"
    BY <1>1 DEF SetStopFlag, poolVars, writerVars, watchVars
  <2>2. NothingUnderWay' <=> NothingUnderWay
    BY <2>1 DEF NothingUnderWay
  <2>3. PhaseOK'
    BY <2>1, <2>2 DEF QInv, PhaseOK
  <2> QED BY <2>1, <2>3, DocsKept DEF QInv
<1>2. CASE Down
  <2>1. \A w \in Workers : worker'[w] = Idle
    BY <1>2 DEF Down
  <2>2. NothingUnderWay' /\ raw' = <<>> /\ watchq' = <<>> /\ coord' = Resting("down")
    BY <1>2, <2>1 DEF Down, NothingUnderWay
  <2> QED BY <2>1, <2>2, RestingFields, WorkerShapes DEF PhaseOK, DocsOK
<1>3. CASE Start
  <2>1. coord' = [Resting("walk") EXCEPT !.todo = Paths] /\ UNCHANGED <<pool, chan, worker>>
    BY <1>3 DEF Start, poolVars
  <2>2. coord'.phase = "walk" /\ coord'.taken = {}
    BY <2>1 DEF Resting
  <2>3. NothingUnderWay'
    BY <1>3, <2>1 DEF Start, Up, QInv, PhaseOK, NothingUnderWay
  <2> QED BY <2>1, <2>2, <2>3, DocsKept DEF QInv, PhaseOK
<1> QED BY <1>1, <1>2, <1>3

-----------------------------------------------------------------------------
(* The chain of one path, step by step.                                    *)

\* A file changes: if it is the path's, an event tells of it.
LEMMA FileTracked ==
    ASSUME IInv, QInv, Running, NEW p \in Paths, Tracked(p), FileSystem
    PROVE  Tracked(p)'
<1>1. PICK q \in Paths : \E content \in {edits + 1, Gone, latest[q]}, kind \in {"touch", "remove"} :
          Edit(q, content, kind) /\ (kind = "remove" => content = Gone)
  BY DEF FileSystem, WriteFile, RemoveFile, RestoreFile
<1>2. PICK content \in {edits + 1, Gone, latest[q]}, kind \in {"touch", "remove"}, ev \in RawEvent :
          /\ Edit(q, content, kind) /\ (kind = "remove" => content = Gone)
          /\ ev = [kind |-> kind, path |-> q]
  BY <1>1 DEF RawEvent
<1>3. /\ disk' = [disk EXCEPT ![q] = content] /\ raw' = Append(raw, ev)
      /\ UNCHANGED <<watchq, coord, pool, worker, chan, row>>
  BY <1>2 DEF Edit, Noticed, Running, poolVars, writerVars
<1>4. raw \in Seq(RawEvent) /\ ev \in RawEvent /\ ev.path = q /\ ev.kind = kind
  BY <1>2 DEF RawEvent, IInv, TypeOK
<1>5. disk \in [Paths -> Versions \cup {Gone}]
  BY DEF IInv, TypeOK
<1>6. CASE p = q
  <2>1. disk'[p] = content
    BY <1>3, <1>5, <1>6
  <2>2. PICK good : good = RawGood(p)'
    OBVIOUS
  <2>3. ev \in good
    BY <1>2, <1>4, <2>1, <2>2 DEF RawGood
  <2>4. LastIn(raw', p, good) /\ ~NoneOf(raw', p)
    BY <1>3, <1>4, <1>6, <2>3, LastAppended
  <2>5. LastIn(raw, p, RawGood(p))' /\ ~NoneOf(raw, p)'
    BY <2>2, <2>4 DEF LastIn, NoneOf
  <2> QED BY <2>5 DEF Tracked, EventsOK, NoEvent
<1>7. CASE p # q
  <2>1. disk'[p] = disk[p] /\ row'[p] = row[p]
    BY <1>3, <1>5, <1>7
  <2>2. PICK good : good = RawGood(p)
    OBVIOUS
  <2>3. RawGood(p)' = good /\ WatchGood(p)' = WatchGood(p)
    BY <2>1, <2>2, GoodKept
  <2>4. LastIn(raw, p, good)
    BY <2>2 DEF Tracked, EventsOK
  <2>5. LastIn(raw', p, good) /\ (NoneOf(raw', p) <=> NoneOf(raw, p))
    BY <1>3, <1>4, <1>7, <2>4, LastAppended
  <2>6. LastIn(raw, p, RawGood(p))' /\ (NoneOf(raw, p)' <=> NoneOf(raw, p))
    BY <2>3, <2>5 DEF LastIn, NoneOf
  <2>7. LastIn(watchq, p, WatchGood(p))' <=> LastIn(watchq, p, WatchGood(p))
    BY <1>3, <2>3 DEF LastIn
  <2>8. NoneOf(watchq, p)' <=> NoneOf(watchq, p)
    BY <1>3 DEF NoneOf
  <2>9. EventsOK(p)' /\ (NoEvent(p)' <=> NoEvent(p))
    BY <1>3, <2>3, <2>6, <2>7, <2>8 DEF Tracked, EventsOK, NoEvent
  <2> QED BY <1>3, <2>1, <2>9, PlanKept, InFlightKept, TableKept DEF Tracked
<1> QED BY <1>6, <1>7

\* The watcher forwards an event: it probes the file now.
LEMMA ForwardTracked ==
    ASSUME IInv, QInv, NEW p \in Paths, Tracked(p), Forward
    PROVE  Tracked(p)'
<1>1. PICK ev : ev = Head(raw)
  OBVIOUS
<1>2. PICK kind : kind = IF ev.kind = "remove" \/ disk[ev.path] = Gone THEN "Removed" ELSE "Dirty"
  OBVIOUS
<1>3. PICK out : out = [kind |-> kind, path |-> ev.path]
  OBVIOUS
<1>4. /\ raw # <<>> /\ raw' = Tail(raw) /\ watchq' = Append(watchq, out)
      /\ UNCHANGED <<disk, coord, pool, worker, chan, row>>
  BY <1>1, <1>2, <1>3 DEF Forward, diskVars, poolVars, writerVars
<1>5. raw \in Seq(RawEvent) /\ watchq \in Seq(WatchEvent)
  BY DEF IInv, TypeOK, RawEvent
<1>6. ev \in RawEvent
  BY <1>1, <1>4, <1>5, Taken
<1>7. ev.path \in Paths /\ out \in WatchEvent /\ out.path = ev.path /\ out.kind = kind
  BY <1>2, <1>3, <1>6 DEF RawEvent, WatchEvent
<1>8. disk'[p] = disk[p] /\ row'[p] = row[p]
  BY <1>4
<1>9. PICK rawGood, watchGood : rawGood = RawGood(p) /\ watchGood = WatchGood(p)
  OBVIOUS
<1>10. RawGood(p)' = rawGood /\ WatchGood(p)' = watchGood
  BY <1>8, <1>9, GoodKept
<1>11. LastIn(raw, p, rawGood) /\ (NoneOf(raw, p) => LastIn(watchq, p, watchGood))
  BY <1>9 DEF Tracked, EventsOK
<1>12. LastIn(raw', p, rawGood)
  BY <1>4, <1>5, <1>11, LastTaken
<1>13. CASE ev.path = p
  <2>1. ~NoneOf(watchq', p)
    BY <1>4, <1>5, <1>7, <1>13, LastAppended
  <2>2. NoneOf(raw', p) => LastIn(watchq', p, watchGood)
    <3> SUFFICES ASSUME NoneOf(raw', p) PROVE LastIn(watchq', p, watchGood)
      OBVIOUS
    <3>1. ev \in rawGood
      BY <1>1, <1>4, <1>5, <1>11, <1>13, LastTaken
    <3>2. ev.kind = "remove" => disk[p] = Gone
      BY <1>9, <3>1 DEF RawGood
    <3>3. out \in watchGood
      BY <1>2, <1>7, <1>9, <1>13, <3>2 DEF WatchGood
    <3> QED BY <1>4, <1>5, <1>7, <1>13, <3>3, LastAppended
  <2>3. EventsOK(p)' /\ ~NoEvent(p)'
    BY <1>10, <1>12, <2>1, <2>2 DEF EventsOK, NoEvent, LastIn, NoneOf
  <2> QED BY <2>3 DEF Tracked
<1>14. CASE ev.path # p
  <2>1. NoneOf(raw', p) <=> NoneOf(raw, p)
    BY <1>1, <1>4, <1>5, <1>14, LastTaken
  <2>2. LastIn(watchq, p, watchGood) => LastIn(watchq', p, watchGood)
    BY <1>4, <1>5, <1>7, <1>14, LastAppended
  <2>3. NoneOf(watchq', p) <=> NoneOf(watchq, p)
    BY <1>4, <1>5, <1>7, <1>14, LastAppended
  <2>4. LastIn(raw, p, RawGood(p))' /\ (NoneOf(raw, p) => LastIn(watchq, p, WatchGood(p)))'
    BY <1>10, <1>11, <1>12, <2>1, <2>2 DEF LastIn, NoneOf
  <2>5. (NoneOf(raw, p)' <=> NoneOf(raw, p)) /\ (NoneOf(watchq, p)' <=> NoneOf(watchq, p))
    BY <2>1, <2>3 DEF NoneOf
  <2>6. EventsOK(p)' /\ (NoEvent(p)' <=> NoEvent(p))
    BY <1>4, <1>9, <1>10, <2>4, <2>5 DEF Tracked, EventsOK, NoEvent
  <2> QED BY <1>4, <1>8, <2>6, PlanKept, InFlightKept, TableKept DEF Tracked
<1> QED BY <1>13, <1>14

\* The walk meets a file: it is dirty, and a job is made, or its row vouches.
LEMMA VisitTracked ==
    ASSUME IInv, QInv, NEW p \in Paths, Tracked(p), NEW q \in Paths, VisitFile(q)
    PROVE  Tracked(p)'
<1>1. /\ coord.phase = "walk" /\ q \in coord.todo /\ disk[q] # Gone
      /\ UNCHANGED <<disk, raw, watchq, pool, worker, chan, row>>
  BY DEF VisitFile, diskVars, watchVars, poolVars, writerVars
<1>2. PICK job : job = [path |-> q, stamp |-> disk[q]]
  OBVIOUS
<1>3. coord \in CoordType
  BY TypeParts DEF IInv
<1>4. /\ coord'.todo = coord.todo \ {q} /\ coord'.deleted = coord.deleted /\ coord'.taken = coord.taken
      /\ coord'.jobs = (IF IsDirty(row[q], disk[q]) THEN coord.jobs \cup {job} ELSE coord.jobs)
  BY <1>2, <1>3 DEF VisitFile, CoordType
<1>5. disk'[p] = disk[p] /\ row'[p] = row[p]
  BY <1>1
<1>6. EventsOK(p)' /\ (NoEvent(p)' <=> NoEvent(p))
  BY <1>1, <1>4, <1>5, EventsKept DEF Tracked
<1>7. CASE p # q
  <2>1. (ScanOK(p)' <=> ScanOK(p)) /\ (Scheduled(p)' <=> Scheduled(p))
    BY <1>2, <1>4, <1>5, <1>7 DEF ScanOK, Scheduled
  <2> QED BY <1>1, <1>5, <1>6, <2>1, InFlightKept, TableKept DEF Tracked
<1>8. CASE p = q
  <2>1. NoEvent(p) => ScanOK(p)'
    BY <1>1, <1>2, <1>4, <1>8 DEF Tracked, ScanOK
  <2>2. /\ chan = <<>> /\ pool = <<>> /\ \A w \in Workers : worker[w] = Idle
    BY <1>1 DEF QInv, PhaseOK, NothingUnderWay
  <2>3. InFlightOK(p) /\ ~Extracting(p)
    BY <2>2, WorkerShapes DEF InFlightOK, Extracting
  <2>4. CASE IsDirty(row[q], disk[q])
    <3>1. Scheduled(p)'
      BY <1>2, <1>4, <1>8, <2>4 DEF Scheduled
    <3> QED BY <1>6, <2>1, <3>1 DEF Tracked
  <2>5. CASE ~IsDirty(row[q], disk[q])
    <3>1. row[p].status \notin {"absent", "error"} /\ row[p].stamp = disk[p]
      BY <1>8, <2>5 DEF IsDirty
    <3>2. row[p] \in DocumentRow
      BY DEF IInv, TypeOK
    <3>3. row[p].status = "ok" => row[p].content = disk[p]
      BY <3>1, InvVouches DEF StampVouchesForContent
    <3>4. Current(p) \/ Undeleted(p)
      <4>1. row[p].status \in {"ok", "deleted"}
        BY <3>1, <3>2 DEF DocumentRow
      <4>2. row[p] = [status |-> row[p].status, stamp |-> row[p].stamp, content |-> row[p].content]
        BY <3>2 DEF DocumentRow
      <4> QED BY <1>1, <1>8, <3>1, <3>3, <4>1, <4>2 DEF Current, Undeleted
    <3>5. TableOK(p)
      BY <2>2, <3>4, NoneIsLast DEF TableOK
    <3> QED BY <1>1, <1>5, <1>6, <2>1, <2>3, <3>5, InFlightKept, TableKept DEF Tracked
  <2> QED BY <2>4, <2>5
<1> QED BY <1>7, <1>8

\* The walk ends without having met it: it is gone, or the path is one of missed.
LEMMA MissTracked ==
    ASSUME IInv, QInv, NEW p \in Paths, Tracked(p), p \notin missed', NEW q \in Paths, MissFile(q)
    PROVE  Tracked(p)'
<1>1. /\ coord.phase = "walk" /\ q \in coord.todo
      /\ UNCHANGED <<disk, raw, watchq, pool, worker, chan, row>>
  BY DEF MissFile, diskVars, watchVars, poolVars, writerVars
<1>2. coord \in CoordType
  BY TypeParts DEF IInv
<1>3. /\ coord'.todo = coord.todo \ {q} /\ coord'.jobs = coord.jobs /\ coord'.taken = coord.taken
      /\ coord'.deleted = (IF IsLeftover(row[q]) THEN coord.deleted \cup {q} ELSE coord.deleted)
  BY <1>2 DEF MissFile, CoordType
<1>4. disk'[p] = disk[p] /\ row'[p] = row[p]
  BY <1>1
<1>5. EventsOK(p)' /\ (NoEvent(p)' <=> NoEvent(p))
  BY <1>1, <1>3, <1>4, EventsKept DEF Tracked
<1>6. CASE p # q
  <2>1. (ScanOK(p)' <=> ScanOK(p)) /\ (Scheduled(p)' <=> Scheduled(p))
    BY <1>3, <1>4, <1>6 DEF ScanOK, Scheduled
  <2> QED BY <1>1, <1>4, <1>5, <2>1, InFlightKept, TableKept DEF Tracked
<1>7. CASE p = q
  <2>1. disk[p] = Gone
    BY <1>7 DEF MissFile
  <2>2. NoEvent(p) => ScanOK(p)'
    BY <1>3, <1>4, <2>1 DEF Tracked, ScanOK
  <2>3. /\ chan = <<>> /\ pool = <<>> /\ \A w \in Workers : worker[w] = Idle
    BY <1>1 DEF QInv, PhaseOK, NothingUnderWay
  <2>4. InFlightOK(p) /\ ~Extracting(p)
    BY <2>3, WorkerShapes DEF InFlightOK, Extracting
  <2>5. CASE IsLeftover(row[q])
    <3>1. Scheduled(p)'
      BY <1>3, <1>7, <2>5 DEF Scheduled
    <3> QED BY <1>5, <2>2, <3>1 DEF Tracked
  <2>6. CASE ~IsLeftover(row[q])
    <3>1. Current(p)
      BY <1>7, <2>1, <2>6 DEF Current, IsLeftover
    <3>2. TableOK(p)
      BY <2>3, <3>1, NoneIsLast DEF TableOK
    <3> QED BY <1>1, <1>4, <1>5, <2>2, <2>4, <3>2, InFlightKept, TableKept DEF Tracked
  <2> QED BY <2>5, <2>6
<1> QED BY <1>6, <1>7

\* The walk is over; or the scan is, with nothing left to do.
LEMMA PhaseTracked ==
    ASSUME IInv, QInv, Running, Running', NEW p \in Paths, Tracked(p), WalkDone \/ EnterLiveLoop
    PROVE  Tracked(p)'
<1>1. UNCHANGED <<disk, raw, watchq, pool, worker, chan, row, handle>>
  BY DEF WalkDone, EnterLiveLoop, diskVars, watchVars, poolVars, writerVars
<1>2. coord \in CoordType
  BY TypeParts DEF IInv
<1>3. /\ coord'.todo = coord.todo /\ coord'.jobs = coord.jobs /\ coord'.deleted = coord.deleted
      /\ coord'.taken = coord.taken
  <2>1. CASE WalkDone
    BY <1>2, <2>1 DEF WalkDone, CoordType
  <2>2. CASE EnterLiveLoop
    <3>1. coord.phase = "dispatch" /\ coord.jobs = {} /\ coord.deleted = {} /\ coord' = Resting("live")
      BY <2>2 DEF EnterLiveLoop, Stopping, Running
    <3> QED BY <3>1, RestingFields DEF QInv, PhaseOK
  <2> QED BY <2>1, <2>2
<1>4. disk'[p] = disk[p] /\ row'[p] = row[p]
  BY <1>1
<1> QED BY <1>1, <1>3, <1>4, EventsKept, PlanKept, InFlightKept, TableKept DEF Tracked

\* The live loop takes an event in hand.
LEMMA TakeTracked ==
    ASSUME IInv, QInv, NEW p \in Paths, Tracked(p), TakeEvent
    PROVE  Tracked(p)'
<1>1. PICK ev : ev = Head(watchq)
  OBVIOUS
<1>2. /\ coord.phase = "live" /\ watchq # <<>> /\ watchq' = Tail(watchq)
      /\ coord' = [Resting("handling") EXCEPT !.taken = {ev}]
      /\ UNCHANGED <<disk, raw, pool, worker, chan, row>>
  BY <1>1 DEF TakeEvent, diskVars, poolVars, writerVars
<1>3. coord'.todo = {} /\ coord'.jobs = {} /\ coord'.deleted = {} /\ coord'.taken = {ev}
  BY <1>2 DEF Resting
<1>4. coord.todo = {} /\ coord.jobs = {} /\ coord.deleted = {} /\ coord.taken = {}
  BY <1>2, RestingFields DEF QInv, PhaseOK
<1>5. watchq \in Seq(WatchEvent)
  BY DEF IInv, TypeOK
<1>6. disk'[p] = disk[p] /\ row'[p] = row[p]
  BY <1>2
<1>7. PICK rawGood, watchGood : rawGood = RawGood(p) /\ watchGood = WatchGood(p)
  OBVIOUS
<1>8. RawGood(p)' = rawGood /\ WatchGood(p)' = watchGood
  BY <1>6, <1>7, GoodKept
<1>9. LastIn(raw, p, rawGood) /\ (NoneOf(raw, p) => LastIn(watchq, p, watchGood))
  BY <1>7 DEF Tracked, EventsOK
<1>10. LastIn(watchq, p, watchGood) => LastIn(watchq', p, watchGood)
  BY <1>2, <1>5, LastTaken
<1>11. LastIn(watchq, p, watchGood) /\ NoneOf(watchq', p) /\ ev.path = p => ev \in watchGood
  BY <1>1, <1>2, <1>5, LastTaken
<1>12. LastIn(raw, p, RawGood(p))' /\ (NoneOf(raw, p) => LastIn(watchq, p, WatchGood(p)))'
  BY <1>2, <1>8, <1>9, <1>10 DEF LastIn, NoneOf
<1>13. (NoneOf(raw, p)' <=> NoneOf(raw, p)) /\ (NoneOf(watchq, p)' <=> NoneOf(watchq', p))
  BY <1>2 DEF NoneOf
<1>14. EventsOK(p)'
  BY <1>3, <1>8, <1>9, <1>11, <1>12, <1>13 DEF EventsOK
<1>15. NoEvent(p)' => NoEvent(p)
  <2>1. NoneOf(watchq', p) /\ ev.path # p => NoneOf(watchq, p)
    BY <1>1, <1>2, <1>5, LastTaken
  <2> QED BY <1>3, <1>4, <1>13, <2>1 DEF NoEvent
<1> QED BY <1>2, <1>3, <1>4, <1>6, <1>14, <1>15, PlanKept, InFlightKept, TableKept DEF Tracked

\* A job enters the pool.
LEMMA PoolAppended ==
    ASSUME IInv, NEW p \in Paths, NEW job \in Job, pool' = Append(pool, job), UNCHANGED <<worker, disk>>
    PROVE  /\ p # job.path => (InFlightOK(p) => InFlightOK(p)') /\ (Extracting(p)' <=> Extracting(p))
           /\ p = job.path => Extracting(p)'
           /\ p = job.path /\ ~Extracting(p) /\ job.stamp = disk[p] => InFlightOK(p)'
<1>1. pool \in Seq(Job)
  BY DEF IInv, TypeOK
<1>2. \A i \in DOMAIN pool' : pool'[i] = job \/ (i \in DOMAIN pool /\ pool'[i] = pool[i])
  BY <1>1, Appended
<1>3. /\ \A i \in DOMAIN pool : i \in DOMAIN pool' /\ pool'[i] = pool[i]
      /\ \E i \in DOMAIN pool' : pool'[i] = job
  <2>1. Len(pool) + 1 \in DOMAIN pool' /\ pool'[Len(pool) + 1] = job
    BY <1>1
  <2>2. \A i \in DOMAIN pool : i \in DOMAIN pool' /\ pool'[i] = pool[i]
    BY <1>1
  <2> QED BY <2>1, <2>2
<1>4. MsgGood(p)' = MsgGood(p)
  BY GoodKept
<1>5. p # job.path => (InFlightOK(p) => InFlightOK(p)') /\ (Extracting(p)' <=> Extracting(p))
  BY <1>2, <1>3, <1>4 DEF InFlightOK, Extracting
<1>6. p = job.path => Extracting(p)'
  BY <1>3 DEF Extracting
<1>7. p = job.path /\ ~Extracting(p) /\ job.stamp = disk[p] => InFlightOK(p)'
  BY <1>2, <1>4 DEF InFlightOK, Extracting
<1> QED BY <1>5, <1>6, <1>7

\* A message enters the channel.
LEMMA ChanAppended ==
    ASSUME IInv, NEW p \in Paths, NEW m \in WriterMsg, chan' = Append(chan, m), UNCHANGED <<row, disk>>
    PROVE  /\ p # m.path /\ TableOK(p) => TableOK(p)'
           /\ p = m.path /\ m \in MsgGood(p) => TableOK(p)'
<1>1. chan \in Seq(WriterMsg)
  BY DEF IInv, TypeOK
<1>2. PICK good : good = MsgGood(p)
  OBVIOUS
<1>3. MsgGood(p)' = good
  BY <1>2, GoodKept
<1>4. /\ m.path = p /\ m \in good => LastIn(chan', p, good)
      /\ m.path # p /\ LastIn(chan, p, good) => LastIn(chan', p, good)
      /\ m.path = p => ~NoneOf(chan', p)
      /\ NoneOf(chan', p) => NoneOf(chan, p)
  BY <1>1, LastAppended
<1>5. TableOK(p)' <=> LastIn(chan', p, good) /\ (NoneOf(chan', p) => Current(p) \/ Undeleted(p))
  BY <1>3 DEF TableOK, LastIn, NoneOf, Current, Undeleted
<1> QED BY <1>2, <1>4, <1>5 DEF TableOK

\* Nothing is wrong with what is not there.
LEMMA NoneInFlight ==
    ASSUME NEW p \in Paths, ~Extracting(p)
    PROVE  InFlightOK(p)
  BY DEF Extracting, InFlightOK

LEMMA DispatchTracked ==
    ASSUME IInv, QInv, NEW p \in Paths, Tracked(p), p \notin overlapped', DispatchScanJob
    PROVE  Tracked(p)'
<1>1. coord \in CoordType
  BY TypeParts DEF IInv
<1>2. PICK job \in coord.jobs : DispatchExtract(job) /\ coord' = [coord EXCEPT !.jobs = @ \ {job}]
  BY DEF DispatchScanJob
<1>3. /\ coord'.todo = coord.todo /\ coord'.deleted = coord.deleted /\ coord'.taken = coord.taken
      /\ coord'.jobs = coord.jobs \ {job} /\ job \in Job
  BY <1>1, <1>2 DEF CoordType
<1>4. /\ UNCHANGED <<disk, raw, watchq, chan, row, worker>> /\ pool' = Append(pool, job)
      /\ p = job.path => ~Extracting(p)
  BY <1>2 DEF DispatchScanJob, DispatchExtract, Overlap, diskVars, watchVars, writerVars
<1>5. disk'[p] = disk[p] /\ row'[p] = row[p]
  BY <1>4
<1>6. EventsOK(p)' /\ (NoEvent(p)' <=> NoEvent(p))
  BY <1>3, <1>4, <1>5, EventsKept DEF Tracked
<1>7. ScanOK(p) => ScanOK(p)'
  BY <1>3, <1>5 DEF ScanOK
<1>8. CASE p # job.path
  <2>1. Scheduled(p)' <=> Scheduled(p)
    BY <1>3, <1>8 DEF Scheduled
  <2> QED BY <1>3, <1>4, <1>5, <1>6, <1>7, <1>8, <2>1, PoolAppended, TableKept DEF Tracked
<1>9. CASE p = job.path
  <2>1. NoEvent(p) => job.stamp = disk[p] /\ ScanOK(p)
    BY <1>9 DEF Tracked, ScanOK
  <2> QED BY <1>3, <1>4, <1>6, <1>7, <1>9, <2>1, PoolAppended DEF Tracked
<1> QED BY <1>8, <1>9

\* What the live loop leaves when it has dealt with the event in hand.
LEMMA HandledEvents ==
    ASSUME IInv, QInv, NEW p \in Paths, Tracked(p), NEW ev \in coord.taken, coord.phase = "handling",
           coord' = Resting("live"), UNCHANGED <<disk, raw, watchq>>
    PROVE  /\ EventsOK(p)' /\ ScanOK(p)' /\ ~Scheduled(p)' /\ ~Scheduled(p)
           /\ NoEvent(p)' /\ ev.path # p => NoEvent(p)
           /\ NoEvent(p)' /\ ev.path = p => ev \in WatchGood(p)
<1>1. /\ coord'.todo = {} /\ coord'.jobs = {} /\ coord'.deleted = {} /\ coord'.taken = {}
  BY RestingFields
<1>2. /\ coord.todo = {} /\ coord.jobs = {} /\ coord.deleted = {} /\ \A e \in coord.taken : e = ev
  BY DEF QInv, PhaseOK
<1>3. RawGood(p)' = RawGood(p) /\ WatchGood(p)' = WatchGood(p)
  BY GoodKept
<1>4. EventsOK(p)'
  BY <1>1, <1>3 DEF Tracked, EventsOK, LastIn, NoneOf
<1>5. ScanOK(p)' /\ ~Scheduled(p)' /\ ~Scheduled(p)
  BY <1>1, <1>2 DEF ScanOK, Scheduled
<1>6. NoEvent(p)' => NoneOf(raw, p) /\ NoneOf(watchq, p)
  BY DEF NoEvent, NoneOf
<1>7. NoEvent(p)' /\ ev.path # p => NoEvent(p)
  BY <1>2, <1>6 DEF NoEvent
<1>8. NoEvent(p)' /\ ev.path = p => ev \in WatchGood(p)
  BY <1>6 DEF Tracked, EventsOK
<1> QED BY <1>4, <1>5, <1>7, <1>8

LEMMA DirtyTracked ==
    ASSUME IInv, QInv, NEW p \in Paths, Tracked(p), p \notin overlapped', HandleDirty
    PROVE  Tracked(p)'
<1>1. coord \in CoordType
  BY TypeParts DEF IInv
<1>2. PICK ev \in coord.taken :
         /\ ev.kind = "Dirty"
         /\ IF disk[ev.path] # Gone
            THEN DispatchExtract([path |-> ev.path, stamp |-> disk[ev.path]])
            ELSE UNCHANGED <<poolVars, overlapped>>
  BY DEF HandleDirty
<1>3. /\ coord.phase = "handling" /\ coord' = Resting("live")
      /\ UNCHANGED <<disk, raw, watchq, chan, row>>
  BY DEF HandleDirty, diskVars, watchVars, writerVars
<1>4. ev.path \in Paths
  BY <1>1 DEF CoordType, WatchEvent
<1>5. /\ EventsOK(p)' /\ ScanOK(p)' /\ ~Scheduled(p)' /\ ~Scheduled(p)
      /\ NoEvent(p)' /\ ev.path # p => NoEvent(p)
      /\ NoEvent(p)' /\ ev.path = p => ev \in WatchGood(p)
  BY <1>3, HandledEvents
<1>6. NoEvent(p)' /\ ev.path = p => disk[p] # Gone
  BY <1>2, <1>5 DEF WatchGood
<1>7. disk'[p] = disk[p] /\ row'[p] = row[p]
  BY <1>3
<1>8. CASE disk[ev.path] = Gone
  <2>1. UNCHANGED <<pool, worker>>
    BY <1>2, <1>8 DEF poolVars
  <2> QED BY <1>3, <1>5, <1>6, <1>7, <1>8, <2>1, InFlightKept, TableKept DEF Tracked
<1>9. CASE disk[ev.path] # Gone
  <2>1. PICK job : job = [path |-> ev.path, stamp |-> disk[ev.path]]
    OBVIOUS
  <2>2. job \in Job /\ job.path = ev.path /\ job.stamp = disk[ev.path]
    BY <1>4, <1>9, <2>1 DEF Job, IInv, TypeOK
  <2>3. /\ pool' = Append(pool, job) /\ UNCHANGED worker
        /\ p = job.path => ~Extracting(p)
    BY <1>2, <1>9, <2>1, <2>2 DEF DispatchExtract, Overlap
  <2>4. CASE p # ev.path
    BY <1>3, <1>5, <1>7, <2>2, <2>3, <2>4, PoolAppended, TableKept DEF Tracked
  <2>5. CASE p = ev.path
    BY <1>3, <1>5, <2>2, <2>3, <2>5, PoolAppended DEF Tracked
  <2> QED BY <2>4, <2>5
<1> QED BY <1>8, <1>9

\* A file that changed cannot be statted, at another path.
LEMMA StatFailsTracked ==
    ASSUME IInv, QInv, NEW p \in Paths, Tracked(p), p \notin missed', StatFails
    PROVE  Tracked(p)'
<1>1. PICK ev \in coord.taken : missed' = missed \cup {ev.path}
  BY DEF StatFails
<1>2. /\ coord.phase = "handling" /\ coord' = Resting("live") /\ ev.path # p
      /\ UNCHANGED <<disk, raw, watchq, pool, worker, chan, row>>
  BY <1>1 DEF StatFails, diskVars, watchVars, poolVars, writerVars
<1>3. /\ EventsOK(p)' /\ ScanOK(p)' /\ ~Scheduled(p)' /\ ~Scheduled(p)
      /\ NoEvent(p)' => NoEvent(p)
  BY <1>2, HandledEvents
<1>4. disk'[p] = disk[p] /\ row'[p] = row[p]
  BY <1>2
<1> QED BY <1>2, <1>3, <1>4, InFlightKept, TableKept DEF Tracked

LEMMA DeleteTracked ==
    ASSUME IInv, QInv, Running, NEW p \in Paths, Tracked(p), p \notin overlapped',
           SendScanDelete \/ HandleRemoved
    PROVE  Tracked(p)'
<1>1. coord \in CoordType
  BY TypeParts DEF IInv
<1>2. UNCHANGED <<disk, raw, watchq, pool, worker, row>>
  BY DEF SendScanDelete, HandleRemoved, diskVars, watchVars, poolVars
<1>3. disk'[p] = disk[p]
  BY <1>2
<1>4. CASE SendScanDelete
  <2>1. PICK q \in coord.deleted :
           /\ chan' = Append(chan, [type |-> "Delete", path |-> q]) /\ Overlap(q)
           /\ coord' = [coord EXCEPT !.deleted = @ \ {q}]
    BY <1>4 DEF SendScanDelete, Running
  <2>2. PICK m : m = [type |-> "Delete", path |-> q]
    OBVIOUS
  <2>3. m \in WriterMsg /\ m.path = q /\ m.type = "Delete" /\ q \in Paths
    BY <1>1, <2>2 DEF WriterMsg, DeleteMsg, CoordType
  <2>4. /\ coord'.todo = coord.todo /\ coord'.jobs = coord.jobs /\ coord'.taken = coord.taken
        /\ coord'.deleted = coord.deleted \ {q}
    BY <1>1, <2>1 DEF CoordType
  <2>5. EventsOK(p)' /\ (NoEvent(p)' <=> NoEvent(p))
    BY <1>2, <1>3, <2>4, EventsKept DEF Tracked
  <2>6. ScanOK(p) => ScanOK(p)'
    BY <1>3, <2>4 DEF ScanOK
  <2>7. CASE p # q
    <3>1. Scheduled(p)' <=> Scheduled(p)
      BY <2>4, <2>7 DEF Scheduled
    <3>2. TableOK(p) => TableOK(p)'
      BY <1>2, <2>1, <2>2, <2>3, <2>7, ChanAppended
    <3> QED BY <1>2, <1>3, <2>5, <2>6, <3>1, <3>2, InFlightKept DEF Tracked
  <2>8. CASE p = q
    <3>1. ~Extracting(p)
      BY <2>1, <2>8 DEF Overlap
    <3>2. InFlightOK(p)'
      BY <1>2, <1>3, <3>1, NoneInFlight, InFlightKept
    <3>3. NoEvent(p) => ScanOK(p) /\ disk[p] = Gone
      BY <2>8 DEF Tracked, ScanOK
    <3>4. disk[p] = Gone => m \in MsgGood(p)
      BY <2>3 DEF MsgGood
    <3>5. NoEvent(p) => TableOK(p)'
      BY <1>2, <2>1, <2>2, <2>3, <2>8, <3>3, <3>4, ChanAppended
    <3> QED BY <2>5, <2>6, <3>2, <3>3, <3>5 DEF Tracked
  <2> QED BY <2>7, <2>8
<1>5. CASE HandleRemoved
  <2>1. PICK ev \in coord.taken :
           /\ ev.kind = "Removed" /\ chan' = Append(chan, [type |-> "Delete", path |-> ev.path])
           /\ Overlap(ev.path) /\ coord' = Resting("live") /\ coord.phase = "handling"
    BY <1>5 DEF HandleRemoved, Running
  <2>2. PICK m : m = [type |-> "Delete", path |-> ev.path]
    OBVIOUS
  <2>3. m \in WriterMsg /\ m.path = ev.path /\ m.type = "Delete"
    BY <1>1, <2>2 DEF WriterMsg, DeleteMsg, CoordType, WatchEvent
  <2>4. /\ EventsOK(p)' /\ ScanOK(p)' /\ ~Scheduled(p)' /\ ~Scheduled(p)
        /\ NoEvent(p)' /\ ev.path # p => NoEvent(p)
        /\ NoEvent(p)' /\ ev.path = p => ev \in WatchGood(p)
    BY <1>2, <2>1, HandledEvents
  <2>5. CASE p # ev.path
    <3>1. TableOK(p) => TableOK(p)'
      BY <1>2, <2>1, <2>2, <2>3, <2>5, ChanAppended
    <3> QED BY <1>2, <1>3, <2>4, <2>5, <3>1, InFlightKept DEF Tracked
  <2>6. CASE p = ev.path
    <3>1. InFlightOK(p)'
      BY <1>2, <1>3, <2>1, <2>6, NoneInFlight, InFlightKept DEF Overlap
    <3>2. NoEvent(p)' => disk[p] = Gone
      BY <2>1, <2>4, <2>6 DEF WatchGood
    <3>3. disk[p] = Gone => m \in MsgGood(p)
      BY <2>3 DEF MsgGood
    <3>4. NoEvent(p)' => TableOK(p)'
      BY <1>2, <2>1, <2>2, <2>3, <2>6, <3>2, <3>3, ChanAppended
    <3> QED BY <2>4, <3>1, <3>4 DEF Tracked
  <2> QED BY <2>5, <2>6
<1> QED BY <1>4, <1>5

LEMMA StartJobTracked ==
    ASSUME IInv, QInv, NEW p \in Paths, Tracked(p), NEW w \in Workers, StartJob(w)
    PROVE  Tracked(p)'
<1>1. PICK t : t = [phase |-> "started", job |-> Head(pool)]
  OBVIOUS
<1>2. /\ worker[w].phase = "idle" /\ pool # <<>> /\ pool' = Tail(pool)
      /\ worker' = [worker EXCEPT ![w] = t]
      /\ UNCHANGED <<disk, raw, watchq, coord, chan, row>>
  BY <1>1 DEF StartJob, diskVars, watchVars, writerVars
<1>3. disk'[p] = disk[p] /\ row'[p] = row[p]
  BY <1>2
<1>4. pool \in Seq(Job)
  BY DEF IInv, TypeOK
<1>5. 1 \in DOMAIN pool /\ t.job = pool[1] /\ t.phase = "started"
  BY <1>1, <1>2, <1>4
<1>6. \A i \in DOMAIN pool' : i + 1 \in DOMAIN pool /\ pool'[i] = pool[i + 1]
  BY <1>2, <1>4, Taken
<1>7. \A i \in DOMAIN pool : i # 1 => i - 1 \in DOMAIN pool' /\ pool'[i - 1] = pool[i]
  BY <1>2, <1>4
<1>8. worker'[w] = t /\ \A v \in Workers : v # w => worker'[v] = worker[v]
  BY <1>2 DEF IInv, TypeOK
<1>9. MsgGood(p)' = MsgGood(p)
  BY <1>3, GoodKept
<1>10. InFlightOK(p) => InFlightOK(p)'
  <2>1. (\A i \in DOMAIN pool : pool[i].path = p => pool[i].stamp = disk[p])
        => \A i \in DOMAIN pool' : pool'[i].path = p => pool'[i].stamp = disk[p]
    BY <1>6
  <2> QED BY <1>2, <1>5, <1>8, <1>9, <2>1 DEF InFlightOK
<1>11. Extracting(p) => Extracting(p)'
  <2>1. CASE \E i \in DOMAIN pool : pool[i].path = p
    <3>1. PICK i \in DOMAIN pool : pool[i].path = p
      BY <2>1
    <3>2. CASE i = 1
      BY <1>5, <1>8, <3>1, <3>2 DEF Extracting
    <3>3. CASE i # 1
      BY <1>7, <3>1, <3>3 DEF Extracting
    <3> QED BY <3>2, <3>3
  <2>2. CASE \E v \in Workers : worker[v].phase \in {"started", "extracted"} /\ worker[v].job.path = p
    BY <1>2, <1>8, <2>2 DEF Extracting
  <2> QED BY <2>1, <2>2 DEF Extracting
<1> QED BY <1>2, <1>3, <1>10, <1>11, EventsKept, PlanKept, TableKept DEF Tracked

\* The file is read: while nothing was heard of it, it is what was statted.
LEMMA ExtractTracked ==
    ASSUME IInv, IInv', QInv, NEW p \in Paths, Tracked(p), NEW w \in Workers, Extract(w)
    PROVE  Tracked(p)'
<1>1. PICK status \in {"ok", "error"} :
         worker' = [worker EXCEPT ![w] = [phase |-> "extracted", job |-> worker[w].job,
                                          doc |-> Extracted(worker[w].job, status)]]
  BY DEF Extract
<1>2. /\ worker[w].phase = "started" /\ UNCHANGED <<disk, raw, watchq, coord, chan, row, pool>>
  BY DEF Extract, diskVars, watchVars, writerVars
<1>3. PICK doc : doc = Extracted(worker[w].job, status)
  OBVIOUS
<1>4. PICK t : t = [phase |-> "extracted", job |-> worker[w].job, doc |-> doc]
  OBVIOUS
<1>5. /\ worker' = [worker EXCEPT ![w] = t] /\ t.phase = "extracted" /\ t.job = worker[w].job /\ t.doc = doc
  BY <1>1, <1>3, <1>4
<1>6. worker'[w] = t /\ \A v \in Workers : v # w => worker'[v] = worker[v]
  BY <1>5 DEF IInv, TypeOK
<1>7. disk'[p] = disk[p] /\ row'[p] = row[p]
  BY <1>2
<1>8. MsgGood(p)' = MsgGood(p)
  BY <1>7, GoodKept
<1>9. doc \in DocMsg
  <2>1. worker'[w] # Idle /\ WorkerTypeOK(worker'[w])
    BY <1>5, <1>6 DEF IInv, TypeOK, Idle
  <2> QED BY <1>5, <1>6, <2>1 DEF WorkerTypeOK
<1>10. /\ doc.type = "Doc" /\ doc.status = status /\ doc.stamp = worker[w].job.stamp
       /\ status = "ok" => doc.content = disk[worker[w].job.path]
  BY <1>3 DEF Extracted
<1>11. worker[w].job.path = p /\ InFlightOK(p) => doc \in MsgGood(p)
  <2> SUFFICES ASSUME worker[w].job.path = p, InFlightOK(p) PROVE doc \in MsgGood(p)
    OBVIOUS
  <2>1. doc.stamp = disk[p] /\ (doc.status = "ok" => doc.content = disk[p])
    BY <1>2, <1>10 DEF InFlightOK
  <2>2. doc \in WriterMsg
    BY <1>9 DEF WriterMsg
  <2> QED BY <1>10, <2>1, <2>2 DEF MsgGood
<1>12. InFlightOK(p) => InFlightOK(p)'
  BY <1>2, <1>5, <1>6, <1>8, <1>11 DEF InFlightOK
<1>13. Extracting(p) => Extracting(p)'
  BY <1>2, <1>5, <1>6 DEF Extracting
<1> QED BY <1>2, <1>7, <1>12, <1>13, EventsKept, PlanKept, TableKept DEF Tracked

\* The document enters the channel, behind everything else about its path.
LEMMA SendDocTracked ==
    ASSUME IInv, QInv, Running, NEW p \in Paths, Tracked(p), NEW w \in Workers, SendDoc(w)
    PROVE  Tracked(p)'
<1>1. PICK doc : doc = worker[w].doc
  OBVIOUS
<1>2. /\ worker[w].phase = "extracted" /\ chan' = Append(chan, doc)
      /\ UNCHANGED <<disk, raw, watchq, coord, row, pool>>
  BY <1>1 DEF SendDoc, Running, diskVars, watchVars
<1>3. PICK t : t = [phase |-> "sent"] /\ worker' = [worker EXCEPT ![w] = t]
  BY DEF SendDoc
<1>4. t.phase = "sent"
  BY <1>3
<1>5. doc \in DocMsg /\ doc.path = worker[w].job.path
  BY <1>1, <1>2, WorkerHolds DEF IInv, QInv, DocsOK
<1>6. doc \in WriterMsg
  BY <1>5 DEF WriterMsg
<1>7. disk'[p] = disk[p]
  BY <1>2
<1>8. EventsOK(p)' /\ (NoEvent(p)' <=> NoEvent(p)) /\ (ScanOK(p)' <=> ScanOK(p)) /\ (Scheduled(p)' <=> Scheduled(p))
  BY <1>2, <1>7, EventsKept, PlanKept DEF Tracked
<1>9. CASE p # doc.path
  <2>1. (InFlightOK(p)' <=> InFlightOK(p)) /\ (Extracting(p)' <=> Extracting(p))
    BY <1>2, <1>3, <1>4, <1>5, <1>9, OthersKept DEF IInv
  <2>2. TableOK(p) => TableOK(p)'
    BY <1>2, <1>6, <1>9, ChanAppended
  <2> QED BY <1>8, <2>1, <2>2 DEF Tracked
<1>10. CASE p = doc.path
  <2>1. InFlightOK(p) => doc \in MsgGood(p)
    BY <1>1, <1>2, <1>5, <1>10 DEF InFlightOK
  <2>2. InFlightOK(p) => TableOK(p)'
    BY <1>2, <1>6, <1>10, <2>1, ChanAppended
  <2>3. InFlightOK(p) => InFlightOK(p)'
    <3>1. worker'[w] = t /\ \A v \in Workers : v # w => worker'[v] = worker[v]
      BY <1>3 DEF IInv, TypeOK
    <3>2. MsgGood(p)' = MsgGood(p)
      BY <1>7, GoodKept
    <3> QED BY <1>2, <1>4, <3>1, <3>2 DEF InFlightOK
  <2> QED BY <1>8, <2>2, <2>3 DEF Tracked
<1> QED BY <1>9, <1>10

LEMMA FinishTracked ==
    ASSUME IInv, QInv, NEW p \in Paths, Tracked(p), NEW w \in Workers, FinishJob(w)
    PROVE  Tracked(p)'
<1>1. /\ worker[w].phase = "sent" /\ worker' = [worker EXCEPT ![w] = Idle]
      /\ UNCHANGED <<disk, raw, watchq, coord, chan, row, pool>>
  BY DEF FinishJob, diskVars, watchVars, writerVars
<1>2. disk'[p] = disk[p] /\ row'[p] = row[p]
  BY <1>1
<1>3. (InFlightOK(p)' <=> InFlightOK(p)) /\ (Extracting(p)' <=> Extracting(p))
  BY <1>1, WorkerShapes, OthersKept DEF IInv
<1> QED BY <1>1, <1>2, <1>3, EventsKept, PlanKept, TableKept DEF Tracked

\* The last message about a path makes its row current.
LEMMA ProcessTracked ==
    ASSUME IInv, QInv, NEW p \in Paths, Tracked(p), ProcessMsg
    PROVE  Tracked(p)'
<1>1. PICK msg : msg = Head(chan)
  OBVIOUS
<1>2. /\ chan # <<>> /\ chan' = Tail(chan)
      /\ row' = [row EXCEPT ![msg.path] = Stored(row[msg.path], msg)]
      /\ UNCHANGED <<disk, raw, watchq, coord, worker, pool>>
  BY <1>1 DEF ProcessMsg, diskVars, watchVars, poolVars
<1>3. chan \in Seq(WriterMsg) /\ row \in [Paths -> DocumentRow]
  BY DEF IInv, TypeOK
<1>4. msg \in WriterMsg
  BY <1>1, <1>2, <1>3, Taken
<1>5. msg.path \in Paths
  BY <1>4 DEF WriterMsg, DocMsg, DeleteMsg
<1>6. disk'[p] = disk[p]
  BY <1>2
<1>7. PICK good : good = MsgGood(p)
  OBVIOUS
<1>8. MsgGood(p)' = good
  BY <1>6, <1>7, GoodKept
<1>9. /\ LastIn(chan, p, good) => LastIn(chan', p, good)
      /\ LastIn(chan, p, good) /\ NoneOf(chan', p) /\ msg.path = p => msg \in good
      /\ NoneOf(chan', p) /\ msg.path # p => NoneOf(chan, p)
  BY <1>1, <1>2, <1>3, LastTaken
<1>10. TableOK(p)' <=> LastIn(chan', p, good) /\ (NoneOf(chan', p) => (Current(p) \/ Undeleted(p))')
  BY <1>8 DEF TableOK, LastIn, NoneOf
<1>11. msg.path # p => ((Current(p) \/ Undeleted(p))' <=> Current(p) \/ Undeleted(p))
  <2>1. msg.path # p => row'[p] = row[p]
    BY <1>2, <1>3
  <2> QED BY <1>6, <2>1 DEF Current, Undeleted
<1>12. msg.path = p /\ msg \in good => Current(p)'
  <2> SUFFICES ASSUME msg.path = p, msg \in good PROVE Current(p)'
    OBVIOUS
  <2>1. row'[p] = Stored(row[p], msg) /\ row[p] \in DocumentRow
    BY <1>2, <1>3
  <2>2. /\ msg.type = "Doc" => msg.stamp = disk[p] /\ (msg.status = "ok" => msg.content = disk[p])
        /\ msg.type = "Delete" => disk[p] = Gone
    BY <1>7 DEF MsgGood
  <2>3. CASE msg.type = "Doc"
    <3>1. msg.stamp \in Versions /\ msg.status \in {"ok", "error"}
      BY <1>4, <2>3 DEF WriterMsg, DocMsg, DeleteMsg
    <3>2. row'[p] = [status |-> msg.status, stamp |-> msg.stamp, content |-> msg.content]
      BY <2>1, <2>3 DEF Stored
    <3>3. disk'[p] # Gone
      BY <1>6, <2>2, <2>3, <3>1, VersionsAreNumbers
    <3>4. msg.stamp = disk'[p] /\ (msg.status = "ok" => msg.content = disk'[p])
      BY <1>6, <2>2, <2>3
    <3>5. /\ msg.status = "ok" => row'[p] = [status |-> "ok", stamp |-> disk'[p], content |-> disk'[p]]
          /\ row'[p].status = msg.status /\ row'[p].stamp = disk'[p]
      BY <3>2, <3>4
    <3> QED BY <3>1, <3>3, <3>5 DEF Current
  <2>4. CASE msg.type # "Doc"
    <3>1. msg.type = "Delete"
      BY <1>4, <2>4 DEF WriterMsg, DocMsg, DeleteMsg
    <3>2. disk'[p] = Gone
      BY <1>6, <2>2, <3>1
    <3>3. row'[p].status \in {"absent", "deleted"}
      BY <2>1, <2>4 DEF Stored, DocumentRow
    <3> QED BY <3>2, <3>3 DEF Current
  <2> QED BY <2>3, <2>4
<1>13. TableOK(p) => TableOK(p)'
  BY <1>7, <1>9, <1>10, <1>11, <1>12 DEF TableOK
<1> QED BY <1>2, <1>6, <1>13, EventsKept, PlanKept, InFlightKept DEF Tracked

\* A message is lost, of another path: the path's own would be one of missed.
LEMMA StoreFailsTracked ==
    ASSUME IInv, QInv, NEW p \in Paths, Tracked(p), p \notin missed', StoreFails
    PROVE  Tracked(p)'
<1>1. PICK msg : msg = Head(chan)
  OBVIOUS
<1>2. /\ chan # <<>> /\ chan' = Tail(chan) /\ msg.path # p
      /\ UNCHANGED <<disk, raw, watchq, coord, worker, pool, row>>
  BY <1>1 DEF StoreFails, diskVars, watchVars, poolVars
<1>3. chan \in Seq(WriterMsg)
  BY DEF IInv, TypeOK
<1>4. disk'[p] = disk[p]
  BY <1>2
<1>5. PICK good : good = MsgGood(p)
  OBVIOUS
<1>6. MsgGood(p)' = good
  BY <1>4, <1>5, GoodKept
<1>7. /\ LastIn(chan, p, good) => LastIn(chan', p, good)
      /\ NoneOf(chan', p) => NoneOf(chan, p)
  BY <1>1, <1>2, <1>3, LastTaken
<1>8. TableOK(p)' <=> LastIn(chan', p, good) /\ (NoneOf(chan', p) => Current(p) \/ Undeleted(p))
  BY <1>2, <1>6 DEF TableOK, LastIn, NoneOf, Current, Undeleted
<1>9. TableOK(p) => TableOK(p)'
  BY <1>5, <1>7, <1>8 DEF TableOK
<1> QED BY <1>2, <1>4, <1>9, EventsKept, PlanKept, InFlightKept DEF Tracked

\* An event is lost, of another path.
LEMMA LoseTracked ==
    ASSUME IInv, QInv, NEW p \in Paths, Tracked(p), p \notin missed', LoseEvent
    PROVE  Tracked(p)'
<1>1. PICK ev : ev = Head(raw)
  OBVIOUS
<1>2. /\ raw # <<>> /\ raw' = Tail(raw) /\ ev.path # p
      /\ UNCHANGED <<disk, watchq, coord, worker, pool, chan, row>>
  BY <1>1 DEF LoseEvent, diskVars, poolVars, writerVars
<1>3. raw \in Seq(RawEvent)
  BY DEF IInv, TypeOK, RawEvent
<1>4. disk'[p] = disk[p] /\ row'[p] = row[p]
  BY <1>2
<1>5. PICK good : good = RawGood(p)
  OBVIOUS
<1>6. RawGood(p)' = good /\ WatchGood(p)' = WatchGood(p)
  BY <1>4, <1>5, GoodKept
<1>7. /\ LastIn(raw, p, good) => LastIn(raw', p, good)
      /\ NoneOf(raw', p) <=> NoneOf(raw, p)
  BY <1>1, <1>2, <1>3, LastTaken
<1>8. LastIn(raw, p, RawGood(p))' /\ (NoneOf(raw, p)' <=> NoneOf(raw, p))
  BY <1>5, <1>6, <1>7 DEF Tracked, EventsOK, LastIn, NoneOf
<1>9. LastIn(watchq, p, WatchGood(p))' <=> LastIn(watchq, p, WatchGood(p))
  BY <1>2, <1>6 DEF LastIn
<1>10. NoneOf(watchq, p)' <=> NoneOf(watchq, p)
  BY <1>2 DEF NoneOf
<1>11. EventsOK(p)' /\ (NoEvent(p)' <=> NoEvent(p))
  BY <1>2, <1>6, <1>8, <1>9, <1>10 DEF Tracked, EventsOK, NoEvent
<1> QED BY <1>2, <1>4, <1>11, PlanKept, InFlightKept, TableKept DEF Tracked

\* At the start everything is still to be walked.
LEMMA StartTracked ==
    ASSUME QInv, NEW p \in Paths, Start
    PROVE  Tracked(p)'
<1>1. coord' = [Resting("walk") EXCEPT !.todo = Paths]
  BY DEF Start
<1>2. coord'.todo = Paths /\ coord'.jobs = {} /\ coord'.deleted = {} /\ coord'.taken = {}
  BY <1>1 DEF Resting
<1>3. raw = <<>> /\ watchq = <<>> /\ UNCHANGED <<raw, watchq>>
  BY DEF Start, Up, QInv, PhaseOK, watchVars
<1>4. EventsOK(p)'
  BY <1>2, <1>3 DEF EventsOK, LastIn
<1> QED BY <1>2, <1>4 DEF Tracked, ScanOK, Scheduled

-----------------------------------------------------------------------------
LEMMA QuietInit == Init => QInv
<1> SUFFICES ASSUME Init PROVE QInv
  OBVIOUS
<1>1. /\ coord = Resting("down") /\ coord.phase = "down" /\ raw = <<>> /\ watchq = <<>>
      /\ pool = <<>> /\ chan = <<>> /\ \A w \in Workers : worker[w] = Idle
  BY DEF Init, Resting
<1> QED BY <1>1, WorkerShapes DEF QInv, PhaseOK, DocsOK, NothingUnderWay, Running, Up

\* A pipeline that runs after a step ran before it, or is just started.
LEMMA RunsOn ==
    ASSUME Next, Running', ~Start
    PROVE  /\ Running /\ ~Down /\ ~SetStopFlag /\ ~DropWatcher /\ ~ExitLoop /\ ~WriterExits
<1>1. coord'.phase # "down" /\ handle' = "running" /\ writer' = "up"
  BY DEF Running, Up
<1>2. ~Down
  BY <1>1, RestingFields DEF Down
<1>3. ~SetStopFlag /\ ~DropWatcher /\ ~WriterExits
  BY <1>1 DEF SetStopFlag, DropWatcher, WriterExits
<1>4. /\ UNCHANGED <<handle, writer>> /\ (coord.phase = "down" => UNCHANGED coord)
  BY <1>2, <1>3
     DEF Next, FileSystem, WriteFile, RemoveFile, RestoreFile, Edit, Forward, LoseEvent, Coordinator, VisitFile,
         MissFile, WalkDone, ScanFails, DispatchScanJob, SendScanDelete, EnterLiveLoop, TakeEvent, HandleDirty,
         StatFails, HandleRemoved, ExitLoop, Worker, StartJob, Extract, SendDoc, FinishJob, Writer, ProcessMsg, StoreFails,
         JoinThreads, Crash, writerVars
<1>5. ~ExitLoop
  BY <1>1, <1>4 DEF ExitLoop, Stopping
<1> QED BY <1>1, <1>2, <1>3, <1>4, <1>5 DEF Running, Up

\* Within a run, nothing is taken off the two lists of excepted paths.
LEMMA ListsGrow ==
    ASSUME IInv, Next, ~Down
    PROVE  overlapped \subseteq overlapped' /\ missed \subseteq missed'
<1>1. overlapped \subseteq Paths /\ missed \subseteq Paths
  BY DEF IInv, TypeOK
<1>2. CASE FileSystem \/ Forward \/ LoseEvent \/ SetStopFlag \/ DropWatcher \/ JoinThreads \/ Crash \/ Start
  BY <1>2 DEF FileSystem, WriteFile, RemoveFile, RestoreFile, Edit, Forward, LoseEvent, SetStopFlag, DropWatcher,
              JoinThreads, Crash, Start, historyVars
<1>3. CASE Coordinator
  BY <1>1, <1>3 DEF Coordinator, VisitFile, MissFile, WalkDone, ScanFails, DispatchScanJob, DispatchExtract, Overlap,
              SendScanDelete, EnterLiveLoop, TakeEvent, HandleDirty, StatFails, HandleRemoved, ExitLoop, historyVars,
              poolVars
<1>4. CASE (\E w \in Workers : Worker(w)) \/ Writer
  BY <1>4 DEF Worker, StartJob, Extract, SendDoc, FinishJob, Writer, ProcessMsg, StoreFails, WriterExits, historyVars
<1> QED BY <1>2, <1>3, <1>4 DEF Next

LEMMA QuietNext == IInv /\ QInv /\ [Next]_vars => QInv'
<1> SUFFICES ASSUME IInv, QInv, [Next]_vars PROVE QInv'
  OBVIOUS
<1>1. CASE UNCHANGED vars
  <2>1. UNCHANGED <<disk, raw, watchq, coord, pool, worker, chan, row, writer, handle, overlapped, missed>>
    BY <1>1 DEF vars, diskVars, watchVars, poolVars, writerVars, historyVars
  <2>2. PhaseOK' /\ DocsOK' /\ (Running' => Running)
    BY <2>1 DEF QInv, PhaseOK, DocsOK, NothingUnderWay, Running, Up
  <2>3. ASSUME NEW p \in Paths, Tracked(p) PROVE Tracked(p)'
    BY <2>1, <2>3, EventsKept, PlanKept, InFlightKept, TableKept DEF Tracked
  <2> QED BY <2>1, <2>2, <2>3 DEF QInv
<1>2. CASE Next
  <2>1. PhaseOK' /\ DocsOK'
    BY <1>2, FilePhases, WatchPhases, WalkPhases, SendPhases, WorkPhases, HandlePhases
       DEF Next, Coordinator, Writer, JoinThreads, Crash
  <2>2. ASSUME Running', NEW p \in Paths, p \notin overlapped', p \notin missed'
        PROVE  Tracked(p)'
    <3>1. CASE Start
      BY <3>1, StartTracked
    <3>2. CASE ~Start
      <4>1. /\ Running /\ ~Down /\ ~SetStopFlag /\ ~DropWatcher /\ ~ExitLoop /\ ~WriterExits
        BY <1>2, <2>2, <3>2, RunsOn
      <4>2. Tracked(p)
        BY <1>2, <2>2, <4>1, ListsGrow DEF QInv
      <4>3. CASE FileSystem \/ Forward \/ LoseEvent
        BY <2>2, <4>1, <4>2, <4>3, FileTracked, ForwardTracked, LoseTracked
      <4>4. CASE Coordinator
        <5>1. CASE ScanFails
          BY <2>2, <5>1 DEF ScanFails
        <5>2. CASE \E q \in Paths : VisitFile(q) \/ MissFile(q)
          BY <2>2, <4>2, <5>2, VisitTracked, MissTracked
        <5>3. CASE WalkDone \/ EnterLiveLoop \/ TakeEvent
          BY <2>2, <4>1, <4>2, <5>3, PhaseTracked, TakeTracked
        <5>4. CASE DispatchScanJob \/ HandleDirty \/ SendScanDelete \/ HandleRemoved
          BY <2>2, <4>1, <4>2, <5>4, DispatchTracked, DirtyTracked, DeleteTracked
        <5>5. CASE StatFails
          BY <2>2, <4>2, <5>5, StatFailsTracked
        <5> QED BY <4>1, <4>4, <5>1, <5>2, <5>3, <5>4, <5>5 DEF Coordinator
      <4>5. CASE \E w \in Workers : Worker(w)
        BY <1>2, <4>1, <4>2, <4>5, NextInv, StartJobTracked, ExtractTracked, SendDocTracked, FinishTracked
           DEF Worker
      <4>6. CASE Writer
        BY <2>2, <4>1, <4>2, <4>6, ProcessTracked, StoreFailsTracked DEF Writer
      <4> QED BY <1>2, <3>2, <4>1, <4>3, <4>4, <4>5, <4>6 DEF Next, JoinThreads, Crash
    <3> QED BY <3>1, <3>2
  <2> QED BY <2>1, <2>2 DEF QInv
<1> QED BY <1>1, <1>2

\* A quiet pipeline's table is current: every row says what is on disk, or is of
\* a path that one of the named exceptions is about - for any number of paths,
\* workers, edits and crashes, in any order of events, jobs and messages.
THEOREM QuietTableCurrent == Spec => []QuietMeansCurrent
<1>1. Init => IInv /\ QInv
  BY InitInv, QuietInit
<1>2. (IInv /\ QInv) /\ [Next]_vars => (IInv /\ QInv)'
  BY NextInv, QuietNext
<1>3. QInv => QuietMeansCurrent
  <2> SUFFICES ASSUME QInv, Quiet, NEW p \in Paths, p \notin overlapped, p \notin missed
               PROVE  Current(p) \/ Undeleted(p)
    BY DEF QuietMeansCurrent
  <2>1. Tracked(p)
    BY DEF QInv, Quiet, Running, Up, Stopping
  <2>2. coord.todo = {} /\ coord.jobs = {} /\ coord.deleted = {} /\ coord.taken = {}
    BY RestingFields DEF QInv, PhaseOK, Quiet
  <2>3. NoEvent(p) /\ ~Scheduled(p)
    BY <2>2, NoneIsLast DEF Quiet, NoEvent, Scheduled
  <2>4. ~Extracting(p)
    BY WorkerShapes DEF Quiet, Extracting
  <2>5. NoneOf(chan, p)
    BY NoneIsLast DEF Quiet
  <2> QED BY <2>1, <2>3, <2>4, <2>5 DEF Tracked, TableOK
<1> QED BY <1>1, <1>2, <1>3, PTL DEF Spec
=============================================================================
