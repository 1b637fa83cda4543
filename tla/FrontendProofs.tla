---------------------------- MODULE FrontendProofs ----------------------------
(***************************************************************************)
(* What the user sees, for any queries, limits and numbers of edits: types,*)
(* a selection that is in the list, and hits that answer the query they    *)
(* are put under.                                                          *)
(*                                                                         *)
(* The last needs the inductive part: requests and results carry stamps no *)
(* later than the last submission, and what carries the last one was made  *)
(* for the query and the mode on the screen.                               *)
(***************************************************************************)
EXTENDS Frontend, FiniteSetTheorems, TLAPS

Result == [stamp : Nat, ok : BOOLEAN, hits : HitList]

AtMostOne(S) == S = {} \/ \E x \in S : S = {x}

UIOK ==
    /\ query \in Texts /\ mode \in QueryMode
    /\ hits \in HitList /\ selected \in {None} \cup (0 .. MaxHits) /\ lastError \in BOOLEAN
    /\ submitted \in 0 .. MaxEdits /\ applied \in 0 .. submitted
    /\ shouldQuit \in BOOLEAN /\ chosen \subseteq Answers
    /\ onPick \in {"OpenInViewer", "SelectAndExit"}
    /\ loop \in {"poll", "drain", "quit", "joining", "ended"}

SlotOK ==
    /\ slot \in [pending : SUBSET Request, closed : BOOLEAN] /\ AtMostOne(slot.pending)
    /\ result \subseteq Result /\ AtMostOne(result)

WorkerOK ==
    /\ worker \in {"checking", "waiting", "searching", "panicked", "exited"}
    /\ current \subseteq Request
    /\ worker = "searching" => \E req \in current : current = {req}
    /\ panics \in 0 .. MaxPanics

\* Stamps are those of submissions, and the last one is the query on screen.
ForScreen(req) == req.stamp <= submitted /\ (req.stamp = submitted => <<req.query, req.mode>> = <<query, mode>>)

ResultForScreen(r) == r.stamp <= submitted /\ (r.stamp = submitted /\ r.ok => r.hits.answers = <<query, mode>>)

StampsOK ==
    /\ \A req \in slot.pending \cup current : ForScreen(req)
    /\ \A r \in result : ResultForScreen(r)

IInv == UIOK /\ SlotOK /\ WorkerOK /\ SelectionInList /\ StampsOK

-----------------------------------------------------------------------------
LEMMA OneCardinality ==
    ASSUME NEW S
    PROVE  /\ AtMostOne(S) => Cardinality(S) <= 1
           /\ \A x : S = {x} => Cardinality(S) = 1
<1>1. S = {} => Cardinality(S) <= 1
  BY FS_EmptySet
<1>2. ASSUME NEW x, S = {x}
      PROVE  Cardinality(S) = 1
  BY <1>2, FS_Singleton
<1> QED BY <1>1, <1>2 DEF AtMostOne

\* The strengthening gives the module's type invariant.
LEMMA TypesFollow == IInv => TypeOK
<1> SUFFICES ASSUME IInv PROVE TypeOK
  OBVIOUS
<1>1. slot.pending \subseteq Request /\ Cardinality(slot.pending) <= 1 /\ slot.closed \in BOOLEAN
  BY OneCardinality DEF IInv, SlotOK
<1>2. result \subseteq Result /\ Cardinality(result) <= 1
  BY OneCardinality DEF IInv, SlotOK
<1>3. worker = "searching" => Cardinality(current) = 1
  BY OneCardinality DEF IInv, WorkerOK
<1> QED
  BY <1>1, <1>2, <1>3 DEF IInv, UIOK, WorkerOK, TypeOK, Result

LEMMA NoHitsTyped == NoHits \in HitList /\ NoHits.len = 0
  BY FrontendAssumption DEF NoHits, HitList, Answers, Texts, QueryMode

LEMMA MoveInList ==
    ASSUME NEW total \in Nat, NEW delta \in Int, NEW cur \in {None} \cup Nat
    PROVE  LET s == MoveSelection(cur, total, delta)
           IN  IF total = 0 THEN s = None ELSE s \in 0 .. total - 1
  BY DEF MoveSelection, Clamp, None

LEMMA InitInv == Init => IInv
<1> SUFFICES ASSUME Init PROVE IInv
  OBVIOUS
<1>1. UIOK
  <2>1. hits \in HitList /\ query \in Texts /\ selected \in {None} /\ chosen \subseteq Answers
    BY NoHitsTyped DEF Init, Texts
  <2>2. submitted \in 0 .. MaxEdits /\ applied \in 0 .. submitted
    BY FrontendAssumption DEF Init
  <2> QED BY <2>1, <2>2 DEF Init, UIOK
<1>2. SelectionInList
  BY NoHitsTyped DEF Init, SelectionInList
<1>3. SlotOK /\ WorkerOK /\ StampsOK
  BY FrontendAssumption DEF Init, SlotOK, WorkerOK, StampsOK, AtMostOne
<1> QED BY <1>1, <1>2, <1>3 DEF IInv

-----------------------------------------------------------------------------
(* One lemma per action.                                                   *)

\* A submission outdates every stamp and stamps its own request last.
LEMMA SubmitInv ==
    ASSUME IInv, NEW q \in Texts, NEW m \in QueryMode,
           SubmitQuery(q, m), query' = q, mode' = m,
           loop = "poll", loop' = "drain", UNCHANGED sessionVars
    PROVE  IInv'
<1> USE DEF IInv
<1>1. submitted' \in 0 .. MaxEdits /\ submitted' = submitted + 1 /\ submitted \in Nat
  BY FrontendAssumption DEF SubmitQuery, UIOK
<1>2. result' = result /\ current' = current /\ panics' = panics
  BY DEF SubmitQuery
<1>3. \A req \in Request : ForScreen(req) => ForScreen(req)'
  BY <1>1 DEF ForScreen, Request
<1>4. \A r \in Result : ResultForScreen(r) => ResultForScreen(r)'
  BY <1>1 DEF ResultForScreen, Result
<1>5. CASE q = Blank
  <2>1. /\ hits' = NoHits /\ selected' = None /\ lastError' = FALSE /\ applied' = submitted'
        /\ slot' = slot /\ worker' = worker
    BY <1>5 DEF SubmitQuery
  <2>2. UIOK'
    <3>1. query' \in Texts /\ mode' \in QueryMode
      OBVIOUS
    <3>2. hits' \in HitList /\ selected' = None /\ lastError' \in BOOLEAN
      BY <2>1, NoHitsTyped
    <3>3. applied' \in 0 .. submitted'
      BY <1>1, <2>1
    <3> QED BY <1>1, <3>1, <3>2, <3>3 DEF UIOK, sessionVars
  <2>3. SlotOK' /\ WorkerOK'
    BY <1>2, <2>1 DEF SlotOK, WorkerOK
  <2>4. SelectionInList'
    BY <2>1, NoHitsTyped DEF SelectionInList
  <2>5. StampsOK'
    BY <1>2, <1>3, <1>4, <2>1 DEF StampsOK, SlotOK, WorkerOK
  <2> QED BY <2>2, <2>3, <2>4, <2>5
<1>6. CASE q # Blank
  <2>0. PICK req : req = [stamp |-> submitted', query |-> q, mode |-> m]
    OBVIOUS
  <2>1. /\ slot' = [slot EXCEPT !.pending = {req}] /\ worker' = Notify
        /\ UNCHANGED <<listVars, applied>>
    BY <1>6, <2>0 DEF SubmitQuery, OverwriteRequest
  <2>2. req \in Request
    BY <1>1, <1>6, <2>0 DEF Request, Texts
  <2>3. ForScreen(req)'
    BY <1>1, <2>0 DEF ForScreen
  <2>4. UIOK'
    BY <1>1, <2>1 DEF UIOK, sessionVars, listVars
  <2>5. slot'.pending = {req} /\ slot' \in [pending : SUBSET Request, closed : BOOLEAN]
    BY <2>1, <2>2 DEF SlotOK
  <2>6. SlotOK'
    BY <1>2, <2>5 DEF SlotOK, AtMostOne
  <2>7. WorkerOK'
    BY <1>2, <2>1 DEF WorkerOK, Notify
  <2>8. SelectionInList'
    BY <2>1 DEF SelectionInList, listVars
  <2>9. StampsOK'
    BY <1>2, <1>3, <1>4, <2>3, <2>5 DEF StampsOK, SlotOK, WorkerOK
  <2> QED BY <2>4, <2>6, <2>7, <2>8, <2>9
<1> QED BY <1>5, <1>6

\* The other keys and the timeout leave requests, results and stamps alone.
LEMMA KeyInv ==
    ASSUME IInv, Key \/ Tick
    PROVE  IInv'
<1>1. CASE \E q \in Texts : EditQuery(q)
  <2> PICK q \in Texts : EditQuery(q)
    BY <1>1
  <2> QED BY SubmitInv DEF EditQuery, IInv, UIOK
<1>2. CASE SwitchMode
  <2>1. mode' \in QueryMode /\ query \in Texts
    BY <1>2 DEF SwitchMode, CycleMode, QueryMode, IInv, UIOK
  <2> QED BY <1>2, <2>1, SubmitInv DEF SwitchMode
<1>3. CASE \E delta \in {-10, -1, 1, 10} : Nav(delta)
  <2> PICK delta \in {-10, -1, 1, 10} : Nav(delta)
    BY <1>3
  <2>1. hits.len \in 0 .. MaxHits /\ selected \in {None} \cup Nat
    BY FrontendAssumption DEF IInv, UIOK, HitList
  <2>2. IF hits.len = 0 THEN selected' = None ELSE selected' \in 0 .. hits.len - 1
    BY <2>1, MoveInList, FrontendAssumption DEF Nav
  <2>3. UIOK'
    BY <2>1, <2>2, FrontendAssumption DEF IInv, UIOK, Nav, stampVars, sessionVars
  <2>4. SelectionInList'
    BY <2>2 DEF SelectionInList, Nav
  <2> QED
    BY <2>3, <2>4 DEF IInv, SlotOK, WorkerOK, StampsOK, ForScreen, ResultForScreen, Nav,
                      stampVars, workerVars
<1>4. CASE PickSelected
  <2>1. hits.answers \in Answers
    BY DEF IInv, UIOK, HitList
  <2>2. UIOK'
    BY <1>4, <2>1 DEF IInv, UIOK, PickSelected, stampVars
  <2> QED
    BY <1>4, <2>2 DEF IInv, SlotOK, WorkerOK, SelectionInList, StampsOK, ForScreen, ResultForScreen,
                      PickSelected, stampVars, workerVars
<1>5. CASE QuitKey \/ Tick
  <2>1. UIOK'
    BY <1>5 DEF IInv, UIOK, QuitKey, Tick, listVars, stampVars, sessionVars
  <2> QED
    BY <1>5, <2>1 DEF IInv, SlotOK, WorkerOK, SelectionInList, StampsOK, ForScreen, ResultForScreen,
                      QuitKey, Tick, listVars, stampVars, workerVars
<1> QED BY <1>1, <1>2, <1>3, <1>4, <1>5 DEF Key

\* A result is painted only if it has the last stamp, and with its selection.
LEMMA DrainInv ==
    ASSUME IInv, DrainResults
    PROVE  IInv'
<1> USE DEF IInv, DrainResults
<1>1. CASE \E r \in result : IsFresh(r)
  <2> PICK r \in result : /\ applied' = r.stamp
                          /\ IF r.ok THEN ApplyHits(r.hits)
                             ELSE lastError' = TRUE /\ UNCHANGED <<hits, selected>>
    BY <1>1
  <2>1. r.stamp = submitted
    BY <1>1 DEF SlotOK, AtMostOne, IsFresh
  <2>2. r.hits \in HitList /\ r.hits.len \in 0 .. MaxHits
    BY DEF SlotOK, Result, HitList
  <2>3. hits' \in HitList /\ lastError' \in BOOLEAN /\ selected' \in {None} \cup (0 .. MaxHits)
    <3>1. CASE r.ok
      <4>1. hits' = r.hits /\ lastError' = FALSE /\ selected' \in {None, 0}
        BY <3>1 DEF ApplyHits
      <4>2. 0 \in 0 .. MaxHits
        BY FrontendAssumption
      <4> QED BY <2>2, <4>1, <4>2
    <3>2. CASE ~r.ok
      BY <3>2 DEF UIOK
    <3> QED BY <3>1, <3>2
  <2>4. applied' \in 0 .. submitted' /\ submitted' = submitted
    BY <2>1 DEF UIOK
  <2>5. UIOK'
    BY <2>3, <2>4 DEF UIOK, sessionVars
  <2>6. SelectionInList'
    BY <2>2, FrontendAssumption DEF SelectionInList, ApplyHits
  <2> QED
    BY <2>5, <2>6 DEF SlotOK, WorkerOK, StampsOK, ForScreen, ResultForScreen, AtMostOne, workerVars
<1>2. CASE ~ \E r \in result : IsFresh(r)
  <2>1. UNCHANGED <<applied, listVars>>
    BY <1>2
  <2>2. UIOK' /\ SelectionInList'
    BY <2>1 DEF UIOK, SelectionInList, sessionVars, listVars
  <2> QED
    BY <2>2 DEF SlotOK, WorkerOK, StampsOK, ForScreen, ResultForScreen, AtMostOne, workerVars
<1> QED BY <1>1, <1>2

LEMMA ExitInv ==
    ASSUME IInv, Exit
    PROVE  IInv'
<1>1. UIOK' /\ SelectionInList'
  BY DEF IInv, UIOK, SelectionInList, Exit, CloseSlot, JoinWorker, listVars, stampVars, sessionVars
<1>2. slot'.pending = slot.pending /\ slot' \in [pending : SUBSET Request, closed : BOOLEAN]
  BY DEF IInv, SlotOK, Exit, CloseSlot, JoinWorker
<1>3. SlotOK' /\ WorkerOK'
  BY <1>2 DEF IInv, SlotOK, WorkerOK, Exit, CloseSlot, JoinWorker, Notify, workerVars
<1>4. StampsOK'
  BY <1>2 DEF IInv, StampsOK, ForScreen, ResultForScreen, Exit, CloseSlot, JoinWorker,
              stampVars, workerVars
<1> QED BY <1>1, <1>3, <1>4 DEF IInv

LEMMA CheckInv ==
    ASSUME IInv, CheckSlot
    PROVE  IInv'
<1>1. UIOK' /\ SelectionInList'
  BY DEF IInv, UIOK, SelectionInList, CheckSlot, listVars, stampVars, sessionVars
<1>2. slot' \in [pending : SUBSET Request, closed : BOOLEAN] /\ AtMostOne(slot'.pending)
  BY DEF IInv, SlotOK, CheckSlot, AtMostOne
<1>3. slot'.pending \cup current' \subseteq slot.pending \cup current
  BY DEF IInv, SlotOK, CheckSlot
<1>4. SlotOK' /\ WorkerOK'
  BY <1>2 DEF IInv, SlotOK, WorkerOK, CheckSlot, AtMostOne
<1>5. StampsOK'
  BY <1>3 DEF IInv, StampsOK, ForScreen, ResultForScreen, CheckSlot, stampVars
<1> QED BY <1>1, <1>4, <1>5 DEF IInv

\* A result has the stamp of its request and answers it.
LEMMA PublishInv ==
    ASSUME IInv, PublishResult
    PROVE  IInv'
<1>1. PICK req \in current : \E r \in SearchOutcome(req) : result' = {r}
  BY DEF PublishResult
<1>2. PICK r \in SearchOutcome(req) : result' = {r}
  BY <1>1
<1>3. req \in Request /\ ForScreen(req)
  BY DEF IInv, WorkerOK, StampsOK
<1>4. r.stamp = req.stamp /\ r.hits.answers = <<req.query, req.mode>>
  BY DEF SearchOutcome
<1>5. r \in Result
  <2>1. <<req.query, req.mode>> \in Answers
    BY <1>3 DEF Answers, Texts, Request
  <2>2. r.stamp \in Nat /\ r.ok \in BOOLEAN
    BY <1>3 DEF SearchOutcome, Request
  <2>3. r.hits \in HitList
    BY <2>1, FrontendAssumption DEF SearchOutcome, HitList
  <2>4. r = [stamp |-> r.stamp, ok |-> r.ok, hits |-> r.hits]
    BY DEF SearchOutcome
  <2> QED BY <2>2, <2>3, <2>4 DEF Result
<1>6. ResultForScreen(r)
  BY <1>3, <1>4 DEF ForScreen, ResultForScreen
<1>7. UIOK' /\ SelectionInList'
  BY DEF IInv, UIOK, SelectionInList, PublishResult, listVars, stampVars, sessionVars
<1>8. SlotOK' /\ WorkerOK'
  BY <1>2, <1>5 DEF IInv, SlotOK, WorkerOK, AtMostOne, PublishResult
<1>9. StampsOK'
  BY <1>2, <1>6 DEF IInv, StampsOK, ForScreen, ResultForScreen, PublishResult, stampVars
<1> QED BY <1>7, <1>8, <1>9 DEF IInv

LEMMA PanicInv ==
    ASSUME IInv, SearchPanics
    PROVE  IInv'
<1>1. UIOK' /\ SelectionInList'
  BY DEF IInv, UIOK, SelectionInList, SearchPanics, listVars, stampVars, sessionVars
<1>2. SlotOK' /\ WorkerOK'
  BY FrontendAssumption DEF IInv, SlotOK, WorkerOK, SearchPanics
<1>3. StampsOK'
  BY DEF IInv, StampsOK, ForScreen, ResultForScreen, SearchPanics, stampVars
<1> QED BY <1>1, <1>2, <1>3 DEF IInv

LEMMA StutterInv ==
    ASSUME IInv, UNCHANGED vars
    PROVE  IInv'
  BY DEF IInv, UIOK, SlotOK, WorkerOK, SelectionInList, StampsOK, ForScreen, ResultForScreen,
         vars, listVars, stampVars, sessionVars, workerVars

LEMMA NextInv == IInv /\ [Next]_vars => IInv'
  BY KeyInv, DrainInv, ExitInv, CheckInv, PublishInv, PanicInv, StutterInv DEF Next, Search, Ended

LEMMA Invariance == Spec => []IInv
  BY InitInv, NextInv, PTL DEF Spec

-----------------------------------------------------------------------------
(* Theorems.                                                               *)

\* The types of the screen, the mailbox, the result cell and the worker, with
\* at most one request and one result in flight, for any queries and bounds.
THEOREM TypeCorrect == Spec => []TypeOK
  BY Invariance, TypesFollow, PTL

\* A list on the screen always has its selection in it, so Enter opens a hit of
\* this list, whatever replaced it and however the keys moved.
THEOREM SelectionCorrect == Spec => []SelectionInList
<1>1. IInv => SelectionInList
  BY DEF IInv
<1> QED BY <1>1, Invariance, PTL

\* New hits answer the query and the mode on the screen at that moment, with
\* requests overwritten, results overwritten and searches of any length.
THEOREM FreshHits == Spec => AppliedHitsAnswerQuery
<1>1. IInv /\ [Next]_vars => [hits' # hits => hits'.len = 0 \/ hits'.answers = <<query', mode'>>]_vars
  <2> SUFFICES ASSUME IInv, Next, hits' # hits
               PROVE  hits'.len = 0 \/ hits'.answers = <<query', mode'>>
    OBVIOUS
  <2>1. CASE Key \/ Tick
    <3>1. hits' = NoHits
      BY <2>1 DEF Key, Tick, EditQuery, SwitchMode, SubmitQuery, Nav, PickSelected, QuitKey, listVars
    <3> QED BY <3>1, NoHitsTyped
  <2>2. CASE DrainResults
    <3>1. PICK r \in result : /\ IF r.ok THEN ApplyHits(r.hits)
                                 ELSE lastError' = TRUE /\ UNCHANGED <<hits, selected>>
                              /\ \E s \in result : IsFresh(s)
      BY <2>2 DEF DrainResults, listVars
    <3>2. r.ok /\ hits' = r.hits
      BY <3>1 DEF ApplyHits
    <3>3. r.stamp = submitted /\ ResultForScreen(r)
      BY <3>1 DEF IInv, SlotOK, StampsOK, AtMostOne, IsFresh
    <3> QED BY <2>2, <3>2, <3>3 DEF ResultForScreen, DrainResults
  <2>3. CASE Exit \/ Search \/ SearchPanics \/ Ended
    BY <2>3 DEF Exit, CloseSlot, JoinWorker, Search, CheckSlot, PublishResult, SearchPanics, Ended,
                vars, listVars
  <2> QED BY <2>1, <2>2, <2>3 DEF Next
<1> QED BY <1>1, Invariance, PTL DEF Spec, AppliedHitsAnswerQuery
=============================================================================
