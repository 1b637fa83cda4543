------------------------------ MODULE Pipeline ------------------------------
(***************************************************************************)
(* The watch pipeline that keeps the documents table in step with a folder *)
(* of PDFs (app/, scanner.rs, watcher.rs, extract.rs, db.rs): the file     *)
(* system and its change events, the coordinator thread with its initial   *)
(* scan, the extractor pool, the bounded channel, the writer thread,       *)
(* WatchHandle::stop, and crashes and restarts in the middle of all that.  *)
(*                                                                         *)
(* A file's content and its identity (size_bytes, mtime_ns) are both the   *)
(* number of the write that made it: a write gives a file an identity it   *)
(* never had, and moving a file away and back keeps the one it has.        *)
(* How rows become searchable is LiveIndex; here a writer step is atomic.  *)
(***************************************************************************)
EXTENDS Integers, Sequences, FiniteSets

CONSTANTS
    Paths,       \* the PDFs below the root
    Workers,     \* the threads of the extractor pool
    Capacity,    \* slots of the writer channel (64 in the code)
    MaxEdits,    \* bound on file system changes (model checking only)
    MaxCrashes,  \* bound on crashes (model checking only)
    Removals,    \* TRUE when files are also removed and moved back
    Faults       \* TRUE when I/O fails: lost events, failed stats, walks and writes

ASSUME PipelineAssumption ==
    /\ IsFiniteSet(Paths) /\ IsFiniteSet(Workers) /\ Workers # {}
    /\ Capacity \in Nat \ {0} /\ MaxEdits \in Nat \ {0} /\ MaxCrashes \in Nat
    /\ Removals \in BOOLEAN /\ Faults \in BOOLEAN

VARIABLES
    disk,        \* the content of each file, Gone when there is none
    latest,      \* the content each file last had
    edits, crashes,
    raw,         \* changes the debouncer has not forwarded yet
    watchq,      \* the unbounded watch_tx / watch_rx channel
    coord,       \* the coordinator thread
    pool,        \* jobs spawned on the rayon pool and not started
    worker,      \* the pool's threads
    chan,        \* the writer channel
    writer,      \* whether the writer thread runs
    row,         \* the documents table
    pending,     \* IndexProgress.pending
    handle,      \* how far WatchHandle::stop has come
    overlapped,  \* history: paths with a change dispatched during an extraction
    missed       \* history: paths with a change this run was not told of or failed to store

diskVars    == <<disk, latest, edits>>
watchVars   == <<raw, watchq>>
poolVars    == <<pool, worker, pending>>
writerVars  == <<chan, writer, row>>
historyVars == <<overlapped, missed>>
vars == <<diskVars, crashes, watchVars, coord, poolVars, writerVars, handle, historyVars>>

-----------------------------------------------------------------------------
Gone      == 0
Versions  == 1 .. MaxEdits
Job       == [path : Paths, stamp : Versions]
WatchEvent == [kind : {"Dirty", "Removed"}, path : Paths]
DocMsg    == [type : {"Doc"}, path : Paths, stamp : Versions,
              status : {"ok", "error"}, content : Versions \cup {Gone}]
DeleteMsg == [type : {"Delete"}, path : Paths]
WriterMsg == DocMsg \cup DeleteMsg
DocumentRow == [status : {"absent", "ok", "error", "deleted"},
                stamp : Versions \cup {Gone}, content : Versions \cup {Gone}]

NoRow     == [status |-> "absent", stamp |-> Gone, content |-> Gone]
Idle      == [phase |-> "idle"]
Resting(phase) == [phase |-> phase, todo |-> {}, jobs |-> {}, deleted |-> {}, taken |-> {}]

Up        == coord.phase # "down"
Stopping  == handle # "running"

\* Mutant: one message too many.
RoomForOneMore == Len(chan) <= Capacity

HasRoom == Len(chan) < Capacity

\* Jobs that hold a stamp and have not reached the channel yet.
Extracting(p) ==
    \/ \E i \in DOMAIN pool : pool[i].path = p
    \/ \E w \in Workers : worker[w].phase \in {"started", "extracted"} /\ worker[w].job.path = p

\* A change of p enters the pipeline: does it race with an extraction of p?
Overlap(p) == overlapped' = IF Extracting(p) THEN overlapped \cup {p} ELSE overlapped

-----------------------------------------------------------------------------
(* The file system and the watcher                                         *)

\* Mutant: the watcher is spawned after the initial scan.
NoticedAfterScan(p, kind) ==
    raw' = IF coord.phase \in {"live", "handling"} /\ handle # "unwatched"
           THEN Append(raw, [kind |-> kind, path |-> p]) ELSE raw

\* notify sees a change while the debouncer is alive: from before the scan
\* until stop drops it.
Noticed(p, kind) ==
    raw' = IF Up /\ handle # "unwatched"
           THEN Append(raw, [kind |-> kind, path |-> p]) ELSE raw

Edit(p, content, kind) ==
    /\ edits < MaxEdits /\ edits' = edits + 1
    /\ disk' = [disk EXCEPT ![p] = content]
    /\ latest' = [latest EXCEPT ![p] = IF content = Gone THEN @ ELSE content]
    /\ Noticed(p, kind)
    /\ UNCHANGED <<crashes, watchq, coord, poolVars, writerVars, handle, historyVars>>

WriteFile(p)   == Edit(p, edits + 1, "touch")
RemoveFile(p)  == Removals /\ disk[p] # Gone /\ Edit(p, Gone, "remove")
RestoreFile(p) == /\ Removals /\ disk[p] = Gone /\ latest[p] # Gone
                  /\ Edit(p, latest[p], "touch")

\* forward_event, classify, dirty_or_removed: the file is probed now.
Forward ==
    /\ raw # <<>>
    /\ LET ev   == Head(raw)
           kind == IF ev.kind = "remove" \/ disk[ev.path] = Gone THEN "Removed" ELSE "Dirty"
       IN  watchq' = Append(watchq, [kind |-> kind, path |-> ev.path])
    /\ raw' = Tail(raw)
    /\ UNCHANGED <<diskVars, crashes, coord, poolVars, writerVars, handle, historyVars>>

\* The debouncer reports errors instead of events: they are only logged.
LoseEvent ==
    /\ Faults /\ raw # <<>>
    /\ missed' = missed \cup {Head(raw).path}
    /\ raw' = Tail(raw)
    /\ UNCHANGED <<diskVars, crashes, watchq, coord, poolVars, writerVars, handle, overlapped>>

-----------------------------------------------------------------------------
(* The coordinator: the initial scan. Nothing reaches the writer before    *)
(* the walk is over, so the rows it loads first are still the rows.        *)

\* decide_dirty, and New for a path without a row. (The extractor's and the
\* normaliser's versions stay the same across runs here.)
IsDirty(r, stamp) == r.status \in {"absent", "error"} \/ r.stamp # stamp

\* Rows left over in by_path when the walk did not come across the file.
IsLeftover(r) == r.status \notin {"absent", "deleted"}

\* walk_and_diff meets p.
VisitFile(p) ==
    /\ coord.phase = "walk" /\ p \in coord.todo /\ disk[p] # Gone
    /\ coord' = [coord EXCEPT
                    !.todo = @ \ {p},
                    !.jobs = IF IsDirty(row[p], disk[p])
                             THEN @ \cup {[path |-> p, stamp |-> disk[p]]} ELSE @]
    /\ UNCHANGED <<diskVars, crashes, watchVars, poolVars, writerVars, handle, historyVars>>

\* walk_and_diff comes to an end without having met p: it is gone, or the walk
\* entry or its metadata was an error and the loop went on.
MissFile(p) ==
    /\ coord.phase = "walk" /\ p \in coord.todo
    /\ disk[p] = Gone \/ Faults
    /\ coord' = [coord EXCEPT !.todo = @ \ {p},
                              !.deleted = IF IsLeftover(row[p]) THEN @ \cup {p} ELSE @]
    /\ missed' = IF disk[p] = Gone THEN missed ELSE missed \cup {p}
    /\ UNCHANGED <<diskVars, crashes, watchVars, poolVars, writerVars, handle, overlapped>>

WalkDone ==
    /\ coord.phase = "walk" /\ coord.todo = {}
    /\ coord' = [coord EXCEPT !.phase = "dispatch"]
    /\ UNCHANGED <<diskVars, crashes, watchVars, poolVars, writerVars, handle, historyVars>>

\* Opening the reader connection or loading the rows fails: no scan.
ScanFails ==
    /\ Faults /\ coord.phase = "walk" /\ coord.todo = Paths
    /\ coord' = Resting("live")
    /\ missed' = Paths
    /\ UNCHANGED <<diskVars, crashes, watchVars, poolVars, writerVars, handle, overlapped>>

\* Mutant: the job is not counted.
DispatchUncounted(job) ==
    /\ pool' = Append(pool, job)
    /\ Overlap(job.path)
    /\ UNCHANGED <<worker, pending>>

\* dispatch_extract: count the job, spawn it on the pool.
DispatchExtract(job) ==
    /\ pending' = pending + 1
    /\ pool' = Append(pool, job)
    /\ Overlap(job.path)
    /\ UNCHANGED worker

DispatchScanJob ==
    /\ coord.phase = "dispatch"
    /\ \E job \in coord.jobs :
          /\ DispatchExtract(job)
          /\ coord' = [coord EXCEPT !.jobs = @ \ {job}]
    /\ UNCHANGED <<diskVars, crashes, watchVars, writerVars, handle, missed>>

\* writer_tx.send blocks while the channel is full, and fails when the writer
\* has gone, which ends the scan.
SendScanDelete ==
    /\ coord.phase = "dispatch" /\ coord.jobs = {}
    /\ \E p \in coord.deleted :
          \/ /\ writer = "up" /\ HasRoom
             /\ chan' = Append(chan, [type |-> "Delete", path |-> p])
             /\ coord' = [coord EXCEPT !.deleted = @ \ {p}]
             /\ Overlap(p)
          \/ /\ writer = "gone"
             /\ coord' = Resting("live") /\ UNCHANGED <<chan, overlapped>>
    /\ UNCHANGED <<diskVars, crashes, watchVars, poolVars, writer, row, handle, missed>>

\* The scan is over, or gives up because it sees the stop flag. (A relaxed
\* load: it may also see the flag late, and dispatch some more.)
EnterLiveLoop ==
    /\ coord.phase = "dispatch"
    /\ Stopping \/ (coord.jobs = {} /\ coord.deleted = {})
    /\ coord' = Resting("live")
    /\ UNCHANGED <<diskVars, crashes, watchVars, poolVars, writerVars, handle, historyVars>>

-----------------------------------------------------------------------------
(* The coordinator: the live loop                                          *)

\* The selector picks a watch event, perhaps after stop was called: the flag was
\* still clear at the top of the loop, or seen late.
TakeEvent ==
    /\ coord.phase = "live" /\ watchq # <<>>
    /\ coord' = [Resting("handling") EXCEPT !.taken = {Head(watchq)}]
    /\ watchq' = Tail(watchq)
    /\ UNCHANGED <<diskVars, crashes, raw, poolVars, writerVars, handle, historyVars>>

\* handle_watch_event, Dirty: scan_one stats the file, a missing one is dropped.
HandleDirty ==
    /\ coord.phase = "handling"
    /\ \E ev \in coord.taken :
          /\ ev.kind = "Dirty"
          /\ IF disk[ev.path] # Gone
             THEN DispatchExtract([path |-> ev.path, stamp |-> disk[ev.path]])
             ELSE UNCHANGED <<poolVars, overlapped>>
    /\ coord' = Resting("live")
    /\ UNCHANGED <<diskVars, crashes, watchVars, writerVars, handle, missed>>

\* scan_one cannot stat the file for another reason: the event is only logged.
StatFails ==
    /\ Faults /\ coord.phase = "handling"
    /\ \E ev \in coord.taken :
          /\ ev.kind = "Dirty"
          /\ missed' = missed \cup {ev.path}
    /\ coord' = Resting("live")
    /\ UNCHANGED <<diskVars, crashes, watchVars, poolVars, writerVars, handle, overlapped>>

\* handle_watch_event, Removed: blocks while the channel is full; the loop ends
\* when the writer has gone.
HandleRemoved ==
    /\ coord.phase = "handling"
    /\ \E ev \in coord.taken :
          /\ ev.kind = "Removed"
          /\ \/ /\ writer = "up" /\ HasRoom
                /\ chan' = Append(chan, [type |-> "Delete", path |-> ev.path])
                /\ coord' = Resting("live")
                /\ Overlap(ev.path)
             \/ /\ writer = "gone"
                /\ coord' = Resting("exited") /\ UNCHANGED <<chan, overlapped>>
    /\ UNCHANGED <<diskVars, crashes, watchVars, poolVars, writer, row, handle, missed>>

\* The stop flag, or the selector: stop was signalled or the watcher hung up.
ExitLoop ==
    /\ coord.phase = "live" /\ Stopping
    /\ coord' = Resting("exited")
    /\ UNCHANGED <<diskVars, crashes, watchVars, poolVars, writerVars, handle, historyVars>>

-----------------------------------------------------------------------------
(* The extractor pool                                                      *)

StartJob(w) ==
    /\ worker[w].phase = "idle" /\ pool # <<>>
    /\ worker' = [worker EXCEPT ![w] = [phase |-> "started", job |-> Head(pool)]]
    /\ pool' = Tail(pool)
    /\ UNCHANGED <<diskVars, crashes, watchVars, coord, pending, writerVars, handle, historyVars>>

\* Mutant: the row is stamped with the identity the file has afterwards.
StampAfterRead(job, status) ==
    [type |-> "Doc", path |-> job.path, status |-> status,
     stamp |-> IF disk[job.path] = Gone THEN job.stamp ELSE disk[job.path],
     content |-> IF status = "ok" THEN job.stamp ELSE Gone]

\* extract_pdf reads the file now, and stamps the row with the job's identity.
Extracted(job, status) ==
    [type |-> "Doc", path |-> job.path, status |-> status, stamp |-> job.stamp,
     content |-> IF status = "ok" THEN disk[job.path] ELSE Gone]

\* A file that is gone cannot be read, and any other may be a PDF that
\* pdftotext rejects: both make an Error row.
Extract(w) ==
    /\ worker[w].phase = "started"
    /\ \E status \in {"ok", "error"} :
          /\ disk[worker[w].job.path] = Gone => status = "error"
          /\ worker' = [worker EXCEPT ![w] =
                           [phase |-> "extracted", job |-> worker[w].job,
                            doc |-> Extracted(worker[w].job, status)]]
    /\ UNCHANGED <<diskVars, crashes, watchVars, coord, pool, pending, writerVars, handle, historyVars>>

\* tx.send blocks while the channel is full; with the writer gone the result is
\* discarded.
SendDoc(w) ==
    /\ worker[w].phase = "extracted"
    /\ \/ writer = "up" /\ HasRoom /\ chan' = Append(chan, worker[w].doc)
       \/ writer = "gone" /\ UNCHANGED chan
    /\ worker' = [worker EXCEPT ![w] = [phase |-> "sent"]]
    /\ UNCHANGED <<diskVars, crashes, watchVars, coord, pool, pending, writer, row, handle, historyVars>>

\* Mutant: the counter goes down only when the result could be sent.
FinishIfSent(w) ==
    /\ worker[w].phase = "sent"
    /\ worker' = [worker EXCEPT ![w] = Idle]
    /\ pending' = IF writer = "up" THEN pending - 1 ELSE pending
    /\ UNCHANGED <<diskVars, crashes, watchVars, coord, pool, writerVars, handle, historyVars>>

\* PendingGuard is dropped at the end of the closure, and tx after it.
FinishJob(w) ==
    /\ worker[w].phase = "sent"
    /\ worker' = [worker EXCEPT ![w] = Idle]
    /\ pending' = pending - 1
    /\ UNCHANGED <<diskVars, crashes, watchVars, coord, pool, writerVars, handle, historyVars>>

-----------------------------------------------------------------------------
(* The writer thread                                                       *)

\* upsert_extracted and mark_deleted; a path without a row is not deleted.
Stored(r, msg) ==
    IF msg.type = "Doc"
    THEN [status |-> msg.status, stamp |-> msg.stamp, content |-> msg.content]
    ELSE IF r.status = "absent" THEN r ELSE [r EXCEPT !.status = "deleted"]

ProcessMsg ==
    /\ writer = "up" /\ chan # <<>>
    /\ LET msg == Head(chan) IN row' = [row EXCEPT ![msg.path] = Stored(@, msg)]
    /\ chan' = Tail(chan)
    /\ UNCHANGED <<diskVars, crashes, watchVars, coord, poolVars, writer, handle, historyVars>>

\* The transaction fails: the message is logged and forgotten.
StoreFails ==
    /\ Faults /\ writer = "up" /\ chan # <<>>
    /\ missed' = missed \cup {Head(chan).path}
    /\ chan' = Tail(chan)
    /\ UNCHANGED <<diskVars, crashes, watchVars, coord, poolVars, writer, row, handle, overlapped>>

\* Mutant: run_watch does not drop its own writer_tx.
SenderForgotten == ~Up

\* The coordinator's sender and the clone of every spawned job are dropped.
SendersGone ==
    coord.phase = "exited" /\ pool = <<>> /\ \A w \in Workers : worker[w].phase = "idle"

\* rx.recv fails once the channel is empty and disconnected.
WriterExits ==
    /\ writer = "up" /\ chan = <<>> /\ SendersGone
    /\ writer' = "gone"
    /\ UNCHANGED <<diskVars, crashes, watchVars, coord, poolVars, chan, row, handle, historyVars>>

-----------------------------------------------------------------------------
(* WatchHandle::stop, crashes and restarts                                 *)

\* The flag is set and the coordinator woken.
SetStopFlag ==
    /\ Up /\ handle = "running" /\ handle' = "stopping"
    /\ UNCHANGED <<diskVars, crashes, watchVars, coord, poolVars, writerVars, historyVars>>

\* The watcher is dropped: the debouncer forwards nothing any more.
DropWatcher ==
    /\ handle = "stopping" /\ handle' = "unwatched"
    /\ raw' = <<>>
    /\ UNCHANGED <<diskVars, crashes, watchq, coord, poolVars, writerVars, historyVars>>

\* What a process that is not running keeps: the files and the rows.
Down ==
    /\ raw' = <<>> /\ watchq' = <<>> /\ coord' = Resting("down")
    /\ pool' = <<>> /\ worker' = [w \in Workers |-> Idle] /\ pending' = 0
    /\ chan' = <<>> /\ writer' = "gone" /\ handle' = "running"
    /\ overlapped' = {} /\ missed' = {}
    /\ UNCHANGED <<diskVars, row>>

\* stop returns when it has joined the coordinator and the writer, and the
\* process ends.
JoinThreads ==
    /\ handle = "unwatched" /\ coord.phase = "exited" /\ writer = "gone"
    /\ Down /\ UNCHANGED crashes

Crash == Up /\ crashes < MaxCrashes /\ crashes' = crashes + 1 /\ Down

\* run_watch: the writer and the watcher are spawned before the coordinator,
\* whose first action is the scan. The writer's own Db::open may fail.
Start ==
    /\ ~Up
    /\ writer' \in (IF Faults THEN {"up", "gone"} ELSE {"up"})
    /\ coord' = [Resting("walk") EXCEPT !.todo = Paths]
    /\ UNCHANGED <<diskVars, crashes, watchVars, poolVars, chan, row, handle, historyVars>>

\* A folder with some PDFs in it, and no database yet.
Init ==
    /\ disk \in [Paths -> {Gone, 1}] /\ latest = disk
    /\ edits = 1 /\ crashes = 0
    /\ raw = <<>> /\ watchq = <<>> /\ coord = Resting("down")
    /\ pool = <<>> /\ worker = [w \in Workers |-> Idle] /\ pending = 0
    /\ chan = <<>> /\ writer = "gone" /\ row = [p \in Paths |-> NoRow]
    /\ handle = "running" /\ overlapped = {} /\ missed = {}

FileSystem  == \E p \in Paths : WriteFile(p) \/ RemoveFile(p) \/ RestoreFile(p)
Coordinator ==
    \/ \E p \in Paths : VisitFile(p) \/ MissFile(p)
    \/ WalkDone \/ ScanFails \/ DispatchScanJob \/ SendScanDelete \/ EnterLiveLoop
    \/ TakeEvent \/ HandleDirty \/ StatFails \/ HandleRemoved \/ ExitLoop
Worker(w)   == StartJob(w) \/ Extract(w) \/ SendDoc(w) \/ FinishJob(w)
Writer      == ProcessMsg \/ StoreFails \/ WriterExits

Next ==
    \/ FileSystem \/ Forward \/ LoseEvent
    \/ Coordinator \/ (\E w \in Workers : Worker(w)) \/ Writer
    \/ SetStopFlag \/ DropWatcher \/ JoinThreads \/ Crash \/ Start

Spec == Init /\ [][Next]_vars

\* Threads are scheduled and pdftotext returns; nobody has to edit a file, stop
\* or start the program, and nothing has to fail. A stop, once begun, runs.
FairSpec ==
    /\ Spec
    /\ WF_vars(Forward) /\ WF_vars(Coordinator) /\ WF_vars(Writer)
    /\ \A w \in Workers : WF_vars(Worker(w))
    /\ WF_vars(DropWatcher) /\ WF_vars(JoinThreads)

-----------------------------------------------------------------------------
(* Properties                                                              *)

WorkerTypeOK(t) ==
    \/ t = Idle \/ t = [phase |-> "sent"]
    \/ t \in [phase : {"started"}, job : Job]
    \/ t \in [phase : {"extracted"}, job : Job, doc : DocMsg]

\* Every variable has its type, and the writer channel never holds more than
\* its capacity.
TypeOK ==
    /\ disk \in [Paths -> Versions \cup {Gone}] /\ latest \in [Paths -> Versions \cup {Gone}]
    /\ edits \in Versions /\ crashes \in 0 .. MaxCrashes
    /\ raw \in Seq([kind : {"touch", "remove"}, path : Paths])
    /\ watchq \in Seq(WatchEvent)
    /\ coord \in [phase : {"down", "walk", "dispatch", "live", "handling", "exited"},
                  todo : SUBSET Paths, jobs : SUBSET Job, deleted : SUBSET Paths,
                  taken : SUBSET WatchEvent]
    /\ pool \in Seq(Job) /\ DOMAIN worker = Workers
    /\ \A w \in Workers : WorkerTypeOK(worker[w])
    /\ chan \in Seq(WriterMsg) /\ Len(chan) <= Capacity /\ writer \in {"up", "gone"}
    /\ row \in [Paths -> DocumentRow]
    /\ pending \in Nat
    /\ handle \in {"running", "stopping", "unwatched"}
    /\ overlapped \subseteq Paths /\ missed \subseteq Paths

\* The next scan may skip a row whose identity is the file's: its text is the
\* file's text, although the file was read long after it was statted
\* (scanner.rs:232, extract.rs:111), through every crash and reordering.
StampVouchesForContent ==
    \A p \in Paths : row[p].status = "ok" /\ row[p].stamp = disk[p] => row[p].content = disk[p]

\* The row says what is on disk: the file's text, an attempt to get it, or
\* nothing.
Current(p) ==
    IF disk[p] = Gone THEN row[p].status \in {"absent", "deleted"}
    ELSE \/ row[p] = [status |-> "ok", stamp |-> disk[p], content |-> disk[p]]
         \/ row[p].status = "error" /\ row[p].stamp = disk[p]

\* Everything that has happened has been dealt with.
Quiet ==
    /\ coord.phase = "live" /\ ~Stopping /\ writer = "up"
    /\ raw = <<>> /\ watchq = <<>> /\ pool = <<>> /\ chan = <<>>
    /\ \A w \in Workers : worker[w] = Idle

\* A row marked deleted, and the same file back in its place.
Undeleted(p) == row[p].status = "deleted" /\ row[p].stamp = disk[p]

\* Once the pipeline is quiet, a row is current, whatever was written, removed
\* or moved back before, during and after the scan and between two runs - unless
\* a change of its path overtook an extraction, a fault hid or lost a change in
\* this run, or the file came back unchanged after its row was marked deleted.
QuietMeansCurrent ==
    Quiet => \A p \in Paths \ (overlapped \cup missed) : Current(p) \/ Undeleted(p)

\* coordinator.rs:170-173, "the progress.pending counter stays consistent":
\* it counts the jobs in the pool and at work, also when the results of some
\* are discarded because the writer has gone.
PendingIsExact ==
    pending = Len(pool) + Cardinality({w \in Workers : worker[w] # Idle})

\* No burst of work, full channel or dead writer leaves the counter up for
\* good: the workers, blocked on a full channel, always get to drop the guard.
PendingReturnsToZero == pending > 0 ~> pending = 0

\* WatchHandle::stop returns: whatever is queued when it is called, the
\* coordinator exits, the jobs drain, and the writer sees its channel closed.
StopReturns == Stopping ~> ~Stopping

\* scanner.rs:138, "compare every PDF against the documents table, and return
\* the diff": after a scan that met no fault, every row is current.
ScanFindsEveryDifference ==
    Quiet => \A p \in Paths \ (overlapped \cup missed) : Current(p)

\* app/mod.rs:125-128, a path "both seen by the scan and touched by the user
\* mid-scan" is extracted twice, "double work, not incorrect work".
DoubleWorkIsNotIncorrect ==
    Quiet => \A p \in Paths \ missed : row[p].status = "ok" => row[p].content = disk[p]
=============================================================================
