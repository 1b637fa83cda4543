------------------------------ MODULE Frontend ------------------------------
(***************************************************************************)
(* The interactive search: the TUI's event loop (tui/mod.rs, tui/keys.rs)  *)
(* and the search worker it shares with the GUI (ui/search.rs), which talk *)
(* through a one-slot mailbox with a condition variable and a one-slot     *)
(* result cell. The GUI's submit_query, drain_results and pick_selected    *)
(* are the same code on the same fields.                                   *)
(*                                                                         *)
(* A list of hits is what it answers and its length; how many hits a       *)
(* search finds is open, for the index changes all the time.               *)
(***************************************************************************)
EXTENDS Integers, FiniteSets

CONSTANTS
    Queries,    \* the texts the user types; the blank one is Blank
    Blank,      \* a query that is empty once trimmed
    BadRegex,   \* the texts that are no regular expression
    MaxHits,    \* opts.limit
    MaxEdits,   \* bound on query and mode edits (model checking only)
    MaxPanics   \* bound on searches that panic

ASSUME FrontendAssumption ==
    /\ Blank \notin Queries /\ BadRegex \subseteq Queries
    /\ MaxHits \in Nat /\ MaxEdits \in Nat /\ MaxPanics \in Nat

VARIABLES
    query, mode, hits, selected, lastError,  \* AppState, what is painted
    submitted, applied,                      \* its two stamps
    shouldQuit, chosen,
    onPick,      \* TuiOptions.on_pick
    loop,        \* where the event loop is
    slot,        \* the mailbox: the pending request, if any, and closed
    result,      \* the result cell: the last result not yet taken, if any
    worker,      \* what the worker thread is doing
    current,     \* the request it is searching for
    panics

listVars   == <<hits, selected, lastError>>
stampVars  == <<submitted, applied>>
sessionVars == <<shouldQuit, chosen, onPick>>
workerVars == <<worker, current, panics>>
vars == <<query, mode, listVars, stampVars, sessionVars, loop, slot, result, workerVars>>

-----------------------------------------------------------------------------
QueryMode == {"Literal", "Regex", "Fuzzy"}
Texts     == Queries \cup {Blank}
Answers   == Texts \X QueryMode
Request   == [stamp : Nat, query : Queries, mode : QueryMode]
HitList   == [answers : Answers, len : 0 .. MaxHits]
None      == -1

NoHits    == [answers |-> <<Blank, "Literal">>, len |-> 0]
Searching == applied # submitted

\* cycle_mode
CycleMode(m) == CASE m = "Literal" -> "Regex" [] m = "Regex" -> "Fuzzy" [] m = "Fuzzy" -> "Literal"

Clamp(i, low, high) == IF i < low THEN low ELSE IF i > high THEN high ELSE i

\* move_selection
MoveSelection(cur, total, delta) ==
    IF total = 0 THEN None ELSE Clamp((IF cur = None THEN 0 ELSE cur) + delta, 0, total - 1)

-----------------------------------------------------------------------------
(* The event loop: poll a key, drain a result, draw, and again. What the   *)
(* user sees is the state the loop polls in.                               *)

\* Mutant: the worker is not woken.
WakeNobody == worker

\* cv.notify_one
Notify == IF worker = "waiting" THEN "checking" ELSE worker

\* Mutant: requests queue up.
QueueRequest(req) == slot.pending \cup {req}

\* SearchWorker::submit: an older pending request is dropped.
OverwriteRequest(req) == {req}

\* submit_query, and SearchWorker::submit for a query that is not blank.
SubmitQuery(q, m) ==
    /\ submitted < MaxEdits
    /\ submitted' = submitted + 1
    /\ IF q = Blank
       THEN /\ hits' = NoHits /\ selected' = None /\ lastError' = FALSE
            /\ applied' = submitted'
            /\ UNCHANGED <<slot, worker>>
       ELSE /\ slot' = [slot EXCEPT
                  !.pending = OverwriteRequest([stamp |-> submitted', query |-> q, mode |-> m])]
            /\ worker' = Notify
            /\ UNCHANGED <<listVars, applied>>
    /\ UNCHANGED <<result, current, panics>>

\* A character, Backspace, Ctrl-U, Ctrl-W: edit_and_search.
EditQuery(q) ==
    /\ loop = "poll" /\ loop' = "drain"
    /\ query' = q
    /\ SubmitQuery(q, mode)
    /\ UNCHANGED <<mode, sessionVars>>

\* Tab
SwitchMode ==
    /\ loop = "poll" /\ loop' = "drain"
    /\ mode' = CycleMode(mode)
    /\ SubmitQuery(query, mode')
    /\ UNCHANGED <<query, sessionVars>>

\* The arrow and page keys.
Nav(delta) ==
    /\ loop = "poll" /\ loop' = "drain"
    /\ selected' = MoveSelection(selected, hits.len, delta)
    /\ UNCHANGED <<query, mode, hits, lastError, stampVars, sessionVars, slot, result, workerVars>>

\* Enter: pick_selected. The viewer may fail to start.
PickSelected ==
    /\ loop = "poll" /\ loop' = "drain"
    /\ selected \in 0 .. hits.len - 1
    /\ IF onPick = "OpenInViewer"
       THEN lastError' \in BOOLEAN /\ UNCHANGED <<chosen, shouldQuit>>
       ELSE chosen' = {hits.answers} /\ shouldQuit' = TRUE /\ UNCHANGED lastError
    /\ UNCHANGED <<query, mode, hits, selected, stampVars, onPick, slot, result, workerVars>>

\* Esc, Ctrl-C, Ctrl-D, Ctrl-Q.
QuitKey ==
    /\ loop = "poll" /\ loop' = "drain"
    /\ shouldQuit' = TRUE
    /\ UNCHANGED <<query, mode, listVars, stampVars, chosen, onPick, slot, result, workerVars>>

\* event::poll times out, or the key does nothing.
Tick ==
    /\ loop = "poll" /\ loop' = "drain"
    /\ UNCHANGED <<query, mode, listVars, stampVars, sessionVars, slot, result, workerVars>>

\* Mutant: the selection stays where it was.
ApplyKeepingSelection(list) == hits' = list /\ lastError' = FALSE /\ selected' = selected

\* apply_hits
ApplyHits(list) ==
    /\ hits' = list /\ lastError' = FALSE
    /\ selected' = IF list.len = 0 THEN None ELSE 0

\* Mutant: a late result is as good as any.
IsFreshWhenNewer(r) == r.stamp > applied

\* result.stamp == state.submitted_stamp
IsFresh(r) == r.stamp = submitted

\* drain_results: take the result, drop it when it is stale; draw.
DrainResults ==
    /\ loop = "drain" /\ loop' = IF shouldQuit THEN "quit" ELSE "poll"
    /\ result' = {}
    /\ IF \E r \in result : IsFresh(r)
       THEN \E r \in result :
               /\ applied' = r.stamp
               /\ IF r.ok THEN ApplyHits(r.hits)
                  ELSE lastError' = TRUE /\ UNCHANGED <<hits, selected>>
       ELSE UNCHANGED <<applied, listVars>>
    /\ UNCHANGED <<query, mode, submitted, sessionVars, slot, workerVars>>

\* Mutant: stop does not notify the condition variable.
CloseSilently ==
    /\ loop = "quit" /\ loop' = "joining"
    /\ slot' = [slot EXCEPT !.closed = TRUE]
    /\ UNCHANGED <<query, mode, listVars, stampVars, sessionVars, result, workerVars>>

\* SearchWorker::stop: close the mailbox, wake the worker.
CloseSlot ==
    /\ loop = "quit" /\ loop' = "joining"
    /\ slot' = [slot EXCEPT !.closed = TRUE]
    /\ worker' = Notify
    /\ UNCHANGED <<query, mode, listVars, stampVars, sessionVars, result, current, panics>>

\* handle.join() returns; a panic of the worker is ignored.
JoinWorker ==
    /\ loop = "joining" /\ worker \in {"exited", "panicked"}
    /\ loop' = "ended"
    /\ UNCHANGED <<query, mode, listVars, stampVars, sessionVars, slot, result, workerVars>>

-----------------------------------------------------------------------------
(* The worker thread                                                       *)

\* One turn of the inner loop, under the mailbox's mutex.
CheckSlot ==
    /\ worker = "checking"
    /\ IF slot.closed THEN worker' = "exited" /\ UNCHANGED <<slot, current>>
       ELSE IF slot.pending # {}
       THEN /\ worker' = "searching"
            /\ current' = slot.pending
            /\ slot' = [slot EXCEPT !.pending = {}]
       ELSE worker' = "waiting" /\ UNCHANGED <<slot, current>>
    /\ UNCHANGED <<query, mode, listVars, stampVars, sessionVars, loop, result, panics>>

\* query::search: an error for an invalid regular expression, hits otherwise.
SearchOutcome(req) ==
    LET bad == req.mode = "Regex" /\ req.query \in BadRegex
    IN  [stamp : {req.stamp}, ok : {~bad},
         hits : [answers : {<<req.query, req.mode>>}, len : IF bad THEN {0} ELSE 0 .. MaxHits]]

\* search returns and the result replaces one that was not taken.
PublishResult ==
    /\ worker = "searching" /\ worker' = "checking"
    /\ \E req \in current : \E r \in SearchOutcome(req) : result' = {r}
    /\ current' = {}
    /\ UNCHANGED <<query, mode, listVars, stampVars, sessionVars, loop, slot, panics>>

\* search panics: the thread ends, and nothing is published.
SearchPanics ==
    /\ worker = "searching" /\ worker' = "panicked"
    /\ panics < MaxPanics /\ panics' = panics + 1
    /\ UNCHANGED <<query, mode, listVars, stampVars, sessionVars, loop, slot, result, current>>

-----------------------------------------------------------------------------
Init ==
    /\ query = Blank /\ mode \in QueryMode
    /\ hits = NoHits /\ selected = None /\ lastError = FALSE
    /\ submitted = 0 /\ applied = 0 /\ shouldQuit = FALSE /\ chosen = {}
    /\ onPick \in {"OpenInViewer", "SelectAndExit"} /\ loop = "poll"
    /\ slot = [pending |-> {}, closed |-> FALSE] /\ result = {}
    /\ worker = "checking" /\ current = {} /\ panics = 0

Key ==
    \/ \E q \in Texts : EditQuery(q)
    \/ SwitchMode
    \/ \E delta \in {-10, -1, 1, 10} : Nav(delta)
    \/ PickSelected \/ QuitKey

Exit   == CloseSlot \/ JoinWorker
Search == CheckSlot \/ PublishResult

\* The session is over.
Ended == loop = "ended" /\ UNCHANGED vars

Next == Key \/ Tick \/ DrainResults \/ Exit \/ Search \/ SearchPanics \/ Ended

Spec == Init /\ [][Next]_vars

\* event::poll times out when no key comes, searches return, threads run; the
\* user need not press a key and a search need not panic.
FairSpec ==
    Spec /\ WF_vars(Tick \/ DrainResults) /\ WF_vars(Exit) /\ WF_vars(Search)

-----------------------------------------------------------------------------
(* Properties                                                              *)

\* Every variable has its type; the mailbox and the result cell hold one entry.
TypeOK ==
    /\ query \in Texts /\ mode \in QueryMode
    /\ hits \in HitList /\ selected \in {None} \cup (0 .. MaxHits) /\ lastError \in BOOLEAN
    /\ submitted \in 0 .. MaxEdits /\ applied \in 0 .. submitted
    /\ shouldQuit \in BOOLEAN /\ chosen \subseteq Answers
    /\ onPick \in {"OpenInViewer", "SelectAndExit"}
    /\ loop \in {"poll", "drain", "quit", "joining", "ended"}
    /\ slot.pending \subseteq Request /\ Cardinality(slot.pending) <= 1 /\ slot.closed \in BOOLEAN
    /\ result \subseteq [stamp : Nat, ok : BOOLEAN, hits : HitList] /\ Cardinality(result) <= 1
    /\ worker \in {"checking", "waiting", "searching", "panicked", "exited"}
    /\ current \subseteq Request /\ (worker = "searching" => Cardinality(current) = 1)
    /\ panics \in 0 .. MaxPanics

\* Whenever a list is shown there is a selection in it, so that Enter picks a
\* hit of this very list: also right after a shorter list replaced a longer one.
SelectionInList == IF hits.len = 0 THEN selected = None ELSE selected \in 0 .. hits.len - 1

\* Hits replace other hits only when they answer the query and the mode the
\* user sees at that moment, however late or coalesced the searches were.
AppliedHitsAnswerQuery ==
    [][hits' # hits => hits'.len = 0 \/ hits'.answers = <<query', mode'>>]_vars

\* The latest query is always answered in the end: no wake-up is lost between
\* the mailbox and the condition variable, and the result that is not dropped
\* is the one of the last submission.
LatestQueryAnswered == Searching ~> (~Searching \/ shouldQuit \/ worker = "panicked")

\* Quitting always ends the session: the worker is woken, or finishes the
\* search it is in, or has panicked; a request still pending is not run.
QuitEnds == shouldQuit ~> loop = "ended"
=============================================================================
