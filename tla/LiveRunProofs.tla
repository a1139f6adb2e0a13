---------------------------- MODULE LiveRunProofs ---------------------------
(***************************************************************************)
(* Proofs about LiveRun, for every number of operations, of commits and of *)
(* lost connections: the run keeps the status and the result it was given, *)
(* a page that shows an end shows all of it, and no page goes back.        *)
(***************************************************************************)
EXTENDS LiveRun, TLAPS

-----------------------------------------------------------------------------
(* The inductive invariant *)

RunStatus == {"pending", "running", "waiting", "succeeded", "failed", "cancelled"}
RunRow == [status : RunStatus, at : Nat, due : Nat]

\* What a thread reads of a row, and what a transition writes of it.
Columns == [status : RunStatus, due : Nat]

RecordsTyped ==
  /\ row \in RunRow
  /\ read \in [Actor -> Columns \cup {None}]
  /\ decided \in Columns
  /\ details \in Nat
  /\ stage \in {"idle", "start", "graph", "body", "close", "event", "complete", "refused"}
  /\ spans \in [Actor -> BOOLEAN]
  /\ reported \in Nat

\* What is recorded is reported in order: the end of an execution counts only
\* what it has reported, and no report is younger than the row of the run,
\* which every report touches.
RecordsOrdered == row.due <= reported /\ reported <= details /\ details <= row.at

\* A workflow that has ended has ended in some way.
OutcomeKnown == stage \in {"close", "event", "complete"} => outcome \in Outcome

RecordsInv == RecordsTyped /\ RecordsOrdered /\ OutcomeKnown /\ StatusIsDecided

\* A snapshot taken in the past.  Its rows are at least as young as what its
\* run says was reported.
Past(snap) ==
  /\ snap \in [run : RunRow, details : Nat]
  /\ snap.run.due <= snap.details
  /\ snap.run.at <= row.at /\ snap.details <= details

\* It is not older than what the page shows.
Newer(snap) ==
  page # None => snap.run.at >= page.run.at /\ snap.details >= page.details

\* Whatever may replace the page, now or after more queries, is not older.
ViewOrdered ==
  /\ page # None => Past(page)
  /\ asked # None => Past(asked) /\ Newer(asked)
  /\ sent # None \/ source = "sending" => Past(sent) /\ Newer(sent)
  /\ fetched # None => Past(fetched) /\ Newer(fetched)
  /\ answered # None => Past(answered) /\ Newer(answered)

\* One fragment is on its way at a time, and none once the page is terminal.
ViewOrderly ==
  /\ source \in {"none", "connecting", "polling", "sending", "closed", "dead"}
  /\ source = "sending" => asked = None
  /\ fetched = None \/ answered = None
  /\ page # None /\ IsTerminal(page) =>
       source \in {"none", "closed"} /\ fetched = None /\ answered = None

IInv == RecordsInv /\ ViewOrdered /\ ViewOrderly

-----------------------------------------------------------------------------
(* The rows *)

\* Before anything is written there is no page.
LEMMA InitEstablishes == Init => IInv
  BY DEF Init, RecordsInit, ViewInit, IInv, RecordsInv, RecordsTyped, RunRow, RunStatus,
         Columns, RecordsOrdered, OutcomeKnown, StatusIsDecided, ViewOrdered,
         ViewOrderly

\* A transition of the run keeps the order of its rows, when it counts no
\* more than what was reported.
LEMMA TransitionKeeps ==
  ASSUME RecordsInv, NEW s \in RunStatus, NEW due \in Nat, due <= reported,
         Transition(s, due)
  PROVE  /\ row' \in RunRow /\ decided' \in Columns
         /\ read' = read /\ details' = details /\ reported' = reported
         /\ RecordsOrdered' /\ StatusIsDecided'
         /\ row'.at >= row.at
  BY DEF RecordsInv, RecordsTyped, RecordsOrdered, StatusIsDecided, RunRow, Columns,
         Transition

\* Whatever a thread has read, and however long ago, the row it saves differs
\* from the row in the database by its commit number only.
LEMMA SavedKeepsColumns ==
  ASSUME row \in RunRow, NEW a \in Actor
  PROVE  /\ Saved(a) \in RunRow
         /\ Saved(a).at = row.at + 1
         /\ Saved(a).status = row.status /\ Saved(a).due = row.due
<1>1. /\ DOMAIN row = {"status", "at", "due"}
      /\ row.status \in RunStatus /\ row.at \in Nat /\ row.due \in Nat
  BY DEF RunRow
<1>2. Saved(a) = [status |-> row.status, at |-> row.at + 1, due |-> row.due]
  BY <1>1 DEF Saved, UpdateFields
<1>3. QED BY <1>1, <1>2 DEF RunRow

\* The beginning of an operation changes what its thread has read.
LEMMA GetKeeps ==
  ASSUME RecordsInv, NEW a \in Actor, Get(a)
  PROVE  RecordsInv' /\ row' = row /\ details' = details
<1>1. [status |-> row.status, due |-> row.due] \in Columns
  BY DEF RecordsInv, RecordsTyped, RunRow, Columns
<1>2. read' \in [Actor -> Columns \cup {None}]
  BY <1>1 DEF Get, RecordsInv, RecordsTyped
<1>3. QED
  BY <1>2 DEF Get, RecordsInv, RecordsTyped, RecordsOrdered, OutcomeKnown, StatusIsDecided

\* The end of an operation of the sink, recorded or rolled back, keeps the
\* order of the rows, and the status and the result of the run.
LEMMA ReportKeeps ==
  ASSUME RecordsInv, NEW a \in Actor, NEW held \in BOOLEAN, Report(a, held)
  PROVE  /\ row' \in RunRow /\ read' \in [Actor -> Columns \cup {None}]
         /\ decided' = decided /\ details' \in Nat /\ reported' \in Nat
         /\ spans' \in [Actor -> BOOLEAN]
         /\ RecordsOrdered' /\ StatusIsDecided'
         /\ row'.at >= row.at /\ details' >= details
<1>1. decided' = decided /\ read' \in [Actor -> Columns \cup {None}]
  BY DEF Report, RecordsInv, RecordsTyped
<1>2. row.at \in Nat /\ row.due \in Nat
  BY DEF RecordsInv, RecordsTyped, RunRow
<1>3. CASE UNCHANGED <<row, details, reported>>
  <2>1. spans' \in [Actor -> BOOLEAN]
    BY <1>3 DEF RecordsInv, RecordsTyped, Report
  <2>2. QED
    BY <1>1, <1>2, <1>3, <2>1 DEF RecordsInv, RecordsTyped, RecordsOrdered, StatusIsDecided
<1>4. CASE /\ row' = Saved(a)
           /\ details' = row.at + 1
           /\ reported' = IF a = "execution" THEN row.at + 1 ELSE reported
           /\ spans' = [spans EXCEPT ![a] = held]
  <2>1. spans' \in [Actor -> BOOLEAN]
    BY <1>4 DEF RecordsInv, RecordsTyped
  <2>2. /\ row' \in RunRow /\ row'.at = row.at + 1
        /\ row'.status = row.status /\ row'.due = row.due
    BY <1>4, SavedKeepsColumns DEF RecordsInv, RecordsTyped
  <2>3. QED
    BY <1>1, <1>2, <1>4, <2>1, <2>2
       DEF RecordsInv, RecordsTyped, RecordsOrdered, StatusIsDecided
<1>5. QED BY <1>3, <1>4 DEF Report

\* No step of a writer makes the rows older.
LEMMA RecordsKeep ==
  ASSUME RecordsInv, RecordsNext
  PROVE  RecordsInv' /\ row'.at >= row.at /\ details' >= details
<1> USE DEF RecordsInv
<1>1. row.at >= row.at /\ details >= details
  BY DEF RecordsTyped, RunRow
<1>2. ASSUME Accept \/ Refuse \/ Cancel
      PROVE  RecordsInv' /\ row'.at >= row.at /\ details' >= details
  <2>1. \E s \in RunStatus : Transition(s, 0)
    BY <1>2 DEF Accept, Refuse, Cancel, RunStatus
  <2>2. /\ row' \in RunRow /\ decided' \in Columns /\ read' = read
        /\ details' = details /\ reported' = reported
        /\ RecordsOrdered' /\ StatusIsDecided' /\ row'.at >= row.at
    BY <2>1, TransitionKeeps DEF RecordsTyped, RecordsOrdered
  <2>3. spans' = spans /\ outcome' = outcome
        /\ (stage' = stage \/ stage' \in {"start", "refused"})
    BY <1>2 DEF Accept, Refuse, Cancel
  <2>4. QED BY <1>1, <2>2, <2>3 DEF RecordsTyped, OutcomeKnown
<1>3. ASSUME ReportLifecycle \/ ReportProgress \/ ReportCall \/ ReportCancel
      PROVE  RecordsInv' /\ row'.at >= row.at /\ details' >= details
  <2>1. PICK a \in Actor, held \in BOOLEAN : Report(a, held)
    BY <1>3, ActorAssumption
       DEF ReportLifecycle, ReportProgress, ReportCall, ReportCancel, RecordsTyped
  <2>2. /\ row' \in RunRow /\ read' \in [Actor -> Columns \cup {None}]
        /\ decided' = decided /\ details' \in Nat /\ reported' \in Nat
        /\ spans' \in [Actor -> BOOLEAN] /\ RecordsOrdered' /\ StatusIsDecided'
        /\ row'.at >= row.at /\ details' >= details
    BY <2>1, ReportKeeps
  <2>3. outcome' = outcome /\ (stage' = stage \/ stage' = AfterReport(stage))
    BY <2>1 DEF Report
  <2>4. /\ stage' \in {"idle", "start", "graph", "body", "close", "event", "complete",
                       "refused"}
        /\ stage' \in {"close", "event", "complete"} =>
             stage \in {"close", "event", "complete"}
    BY <2>3 DEF AfterReport, RecordsTyped
  <2>5. QED BY <2>2, <2>3, <2>4 DEF RecordsTyped, OutcomeKnown
<1>4. ASSUME NEW o \in Outcome, End(o)
      PROVE  RecordsInv' /\ row'.at >= row.at /\ details' >= details
  BY <1>1, <1>4 DEF End, RecordsTyped, RecordsOrdered, OutcomeKnown, StatusIsDecided
<1>5. ASSUME Complete
      PROVE  RecordsInv' /\ row'.at >= row.at /\ details' >= details
  <2>1. outcome \in RunStatus /\ Transition(outcome, reported)
    BY <1>5, OutcomeAssumption DEF Complete, OutcomeKnown, RunStatus
  <2>2. reported \in Nat /\ reported <= reported
    BY DEF RecordsTyped
  <2>3. /\ row' \in RunRow /\ decided' \in Columns /\ read' = read
        /\ details' = details /\ reported' = reported
        /\ RecordsOrdered' /\ StatusIsDecided' /\ row'.at >= row.at
    BY <2>1, <2>2, TransitionKeeps
  <2>4. spans' = spans /\ stage' = "idle"
    BY <1>5 DEF Complete
  <2>5. QED BY <1>1, <2>3, <2>4 DEF RecordsTyped, OutcomeKnown
<1>6. ASSUME NEW a \in Actor, Get(a)
      PROVE  RecordsInv' /\ row'.at >= row.at /\ details' >= details
  BY <1>1, <1>6, GetKeeps
<1>7. QED BY <1>2, <1>3, <1>4, <1>5, <1>6 DEF RecordsNext

-----------------------------------------------------------------------------
(* The view *)

\* The writers leave the view alone.
LEMMA RecordingKeeps == ASSUME IInv, Recording PROVE IInv'
<1>1. RecordsInv' /\ row'.at >= row.at /\ details' >= details
  BY RecordsKeep DEF IInv, Recording
<1>2. UNCHANGED <<page, source, asked, sent, fetched, answered>>
  BY DEF Recording, view
<1>3. ViewOrdered'
  BY <1>1, <1>2 DEF IInv, RecordsInv, RecordsTyped, RunRow, ViewOrdered, Past, Newer
<1>4. ViewOrderly'
  BY <1>2 DEF IInv, ViewOrderly, IsTerminal
<1>5. QED BY <1>1, <1>3, <1>4 DEF IInv

\* The rows a query finds are not older than the page.
LEMMA QueriedIsNew == ASSUME IInv PROVE Past(Queried) /\ Newer(Queried)
  BY DEF IInv, RecordsInv, RecordsTyped, RecordsOrdered, RunRow, ViewOrdered, Past, Newer,
         Queried

\* Nor is the snapshot that the later queries make of them.
LEMMA SnapshotIsNew ==
  ASSUME IInv, NEW q, Past(q), Newer(q)
  PROVE  Past(Snapshot(q)) /\ Newer(Snapshot(q))
<1>1. Past(Snapshot(q))
  BY DEF IInv, RecordsInv, RecordsTyped, RunRow, Past, Snapshot
<1>2. Newer(Snapshot(q))
  BY DEF IInv, RecordsInv, RecordsTyped, RunRow, ViewOrdered, Past, Newer, Snapshot
<1>3. QED BY <1>1, <1>2

\* The steps of the server and of the browser leave the rows alone.
LEMMA RecordsInvStays == ASSUME RecordsInv, UNCHANGED records PROVE RecordsInv'
  BY DEF records, RecordsInv, RecordsTyped, RecordsOrdered, OutcomeKnown, StatusIsDecided

\* A fragment that is fetched is asked for when the page may need it, and
\* replaces the page only while nothing else has.
LEMMA FetchingKeeps == ASSUME IInv, Fetching \/ FetchFails PROVE IInv'
<1>1. RecordsInv'
  BY RecordsInvStays DEF IInv, Fetching, FetchFragment, AnswerFetch, ShowFetched, FetchFails
<1>2. row' = row /\ details' = details
  BY DEF Fetching, FetchFragment, AnswerFetch, ShowFetched, FetchFails, records
<1>3. CASE FetchFragment
  <2>1. fetched' = Queried /\ UNCHANGED <<page, source, asked, sent, answered>>
    BY <1>3 DEF FetchFragment
  <2>2. (Past(fetched) /\ Newer(fetched))'
    BY <1>2, <2>1, QueriedIsNew DEF Past, Newer
  <2>3. ViewOrdered'
    BY <1>2, <2>1, <2>2 DEF IInv, ViewOrdered, Past, Newer
  <2>4. ViewOrderly'
    BY <1>3, <2>1 DEF FetchFragment, IInv, ViewOrderly, IsTerminal
  <2>5. QED BY <1>1, <2>3, <2>4 DEF IInv
<1>4. CASE AnswerFetch
  <2>1. /\ fetched # None /\ fetched' = None /\ answered' = Snapshot(fetched)
        /\ UNCHANGED <<page, source, asked, sent>>
    BY <1>4 DEF AnswerFetch
  <2>2. Past(Snapshot(fetched)) /\ Newer(Snapshot(fetched))
    BY <2>1, SnapshotIsNew DEF IInv, ViewOrdered
  <2>3. (Past(answered) /\ Newer(answered))'
    BY <1>2, <2>1, <2>2 DEF Past, Newer
  <2>4. ViewOrdered'
    BY <1>2, <2>1, <2>3 DEF IInv, ViewOrdered, Past, Newer
  <2>5. ViewOrderly'
    BY <2>1 DEF IInv, ViewOrderly, IsTerminal
  <2>6. QED BY <1>1, <2>4, <2>5 DEF IInv
<1>5. CASE ShowFetched
  <2>1. /\ answered # None /\ page' = answered
        /\ source' = IF IsTerminal(answered) THEN "none" ELSE "connecting"
        /\ asked' = None /\ sent' = None /\ answered' = None /\ fetched' = fetched
    BY <1>5 DEF ShowFetched
  <2>2. fetched = None
    BY <2>1 DEF IInv, ViewOrderly
  <2>3. ViewOrdered'
    BY <1>2, <2>1, <2>2 DEF IInv, ViewOrdered, Past, Newer
  <2>4. ViewOrderly'
    BY <2>1, <2>2 DEF ViewOrderly, IsTerminal
  <2>5. QED BY <1>1, <2>3, <2>4 DEF IInv
<1>6. CASE FetchFails
  <2>1. fetched' = None /\ UNCHANGED <<page, source, asked, sent, answered>>
    BY <1>6 DEF FetchFails
  <2>2. ViewOrdered'
    BY <1>2, <2>1 DEF IInv, ViewOrdered, Past, Newer
  <2>3. ViewOrderly'
    BY <2>1 DEF IInv, ViewOrderly, IsTerminal
  <2>4. QED BY <1>1, <2>2, <2>3 DEF IInv
<1>7. QED BY <1>3, <1>4, <1>5, <1>6 DEF Fetching

\* The stream sends what it has queried since the page was replaced; a lost
\* connection loses what was on its way.
LEMMA StreamingKeeps == ASSUME IInv, Streaming \/ ConnectionLost PROVE IInv'
<1>1. RecordsInv'
  BY RecordsInvStays DEF IInv, Streaming, Accepted, Poll, Answer, Deliver, ConnectionLost
<1>2. row' = row /\ details' = details
  BY DEF Streaming, Accepted, Poll, Answer, Deliver, ConnectionLost, records
<1>3. CASE Accepted
  <2>1. /\ source = "connecting" /\ source' \in {"polling", "dead"}
        /\ UNCHANGED <<page, asked, sent, fetched, answered>>
    BY <1>3 DEF Accepted
  <2>2. ViewOrdered'
    BY <1>2, <2>1 DEF IInv, ViewOrdered, Past, Newer
  <2>3. ViewOrderly'
    BY <2>1 DEF IInv, ViewOrderly, IsTerminal
  <2>4. QED BY <1>1, <2>2, <2>3 DEF IInv
<1>4. CASE Poll
  <2>1. /\ source = "polling" /\ asked' = Queried
        /\ UNCHANGED <<page, source, sent, fetched, answered>>
    BY <1>4 DEF Poll
  <2>2. (Past(asked) /\ Newer(asked))'
    BY <1>2, <2>1, QueriedIsNew DEF Past, Newer
  <2>3. ViewOrdered'
    BY <1>2, <2>1, <2>2 DEF IInv, ViewOrdered, Past, Newer
  <2>4. ViewOrderly'
    BY <2>1 DEF IInv, ViewOrderly, IsTerminal
  <2>5. QED BY <1>1, <2>3, <2>4 DEF IInv
<1>5. CASE Answer
  <2>1. /\ source = "polling" /\ asked # None /\ asked' = None
        /\ UNCHANGED <<page, fetched, answered>>
        /\ \/ UNCHANGED <<source, sent>>
           \/ source' = "sending" /\ sent' = Snapshot(asked)
    BY <1>5 DEF Answer
  <2>2. Past(Snapshot(asked)) /\ Newer(Snapshot(asked))
    BY <2>1, SnapshotIsNew DEF IInv, ViewOrdered
  <2>3. UNCHANGED <<source, sent>> \/ (Past(sent) /\ Newer(sent))'
    BY <1>2, <2>1, <2>2 DEF Past, Newer
  <2>4. ViewOrdered'
    BY <1>2, <2>1, <2>3 DEF IInv, ViewOrdered, Past, Newer
  <2>5. ViewOrderly'
    BY <2>1 DEF IInv, ViewOrderly, IsTerminal
  <2>6. QED BY <1>1, <2>4, <2>5 DEF IInv
<1>6. CASE Deliver
  <2>1. /\ source = "sending" /\ page' = sent
        /\ source' = IF IsTerminal(sent) THEN "closed" ELSE "polling"
        /\ fetched' = None /\ answered' = None /\ UNCHANGED <<asked, sent>>
    BY <1>6 DEF Deliver
  <2>2. asked = None
    BY <2>1 DEF IInv, ViewOrderly
  <2>3. ViewOrdered'
    BY <1>2, <2>1, <2>2
       DEF IInv, ViewOrdered, Past, Newer, RunRow
  <2>4. ViewOrderly'
    BY <2>1 DEF ViewOrderly, IsTerminal
  <2>5. QED BY <1>1, <2>3, <2>4 DEF IInv
<1>7. CASE ConnectionLost
  <2>1. /\ source \in {"connecting", "polling", "sending"}
        /\ source' \in {"connecting", "dead"} /\ asked' = None /\ sent' = None
        /\ UNCHANGED <<page, fetched, answered>>
    BY <1>7 DEF ConnectionLost
  <2>2. ViewOrdered'
    BY <1>2, <2>1 DEF IInv, ViewOrdered, Past, Newer
  <2>3. ViewOrderly'
    BY <2>1 DEF IInv, ViewOrderly, IsTerminal
  <2>4. QED BY <1>1, <2>2, <2>3 DEF IInv
<1>8. QED BY <1>3, <1>4, <1>5, <1>6, <1>7 DEF Streaming

\* Every step keeps the invariant.
LEMMA NextKeeps == IInv /\ [Next]_vars => IInv'
<1> SUFFICES ASSUME IInv, [Next]_vars PROVE IInv'
  OBVIOUS
<1>1. ASSUME UNCHANGED vars PROVE IInv'
  <2>1. RecordsInv'
    BY <1>1, RecordsInvStays DEF IInv, vars
  <2>2. ViewOrdered' /\ ViewOrderly'
    BY <1>1 DEF vars, records, view, IInv, ViewOrdered, ViewOrderly, Past, Newer, IsTerminal
  <2>3. QED BY <2>1, <2>2 DEF IInv
<1>2. QED
  BY <1>1, RecordingKeeps, StreamingKeeps, FetchingKeeps DEF Next

-----------------------------------------------------------------------------
(* Theorems *)

\* The inductive invariant holds in every reachable state: rows and snapshots
\* are typed, every snapshot on its way lies in the past of the rows and in
\* the future of the page.
THEOREM Invariance == Spec => []IInv
<1>1. QED BY InitEstablishes, NextKeeps, PTL DEF Spec

\* The run keeps the status and the result services/runs.py has written last,
\* whichever rows the threads that report have read before they save
\* (StatusIsDecided).
THEOREM StatusShown == Spec => []StatusIsDecided
<1>1. IInv => StatusIsDecided
  BY DEF IInv, RecordsInv
<1>2. QED BY <1>1, Invariance, PTL

\* A page that shows the end of an execution shows all the execution has
\* reported (EndIsShown).
THEOREM EndsAreShown == Spec => []EndIsShown
<1>1. IInv => EndIsShown
  <2> SUFFICES ASSUME IInv, page # None PROVE page.details >= page.run.due
    BY DEF EndIsShown
  <2>1. Past(page)
    BY DEF IInv, ViewOrdered
  <2>2. QED BY <2>1 DEF Past, RunRow
<1>2. QED BY <1>1, Invariance, PTL

\* No fragment replaces a younger one (PageNeverGoesBack).
THEOREM PagesAdvance == Spec => PageNeverGoesBack
<1>1. ASSUME IInv, [Next]_vars, page # None
      PROVE  page'.run.at >= page.run.at /\ page'.details >= page.details
  <2>1. page.run.at \in Nat /\ page.details \in Nat
    BY <1>1 DEF IInv, ViewOrdered, Past, RunRow
  <2>2. CASE page' = page
    BY <2>1, <2>2
  <2>3. CASE ShowFetched
    BY <1>1, <2>3 DEF ShowFetched, IInv, ViewOrdered, Newer
  <2>4. CASE Deliver
    BY <1>1, <2>4 DEF Deliver, IInv, ViewOrdered, ViewOrderly, Newer
  <2>5. ShowFetched \/ Deliver \/ page' = page
    BY <1>1 DEF Next, Recording, Streaming, Fetching, Accepted, Poll, Answer, FetchFragment,
                AnswerFetch, FetchFails, ConnectionLost, vars, view
  <2>6. QED BY <2>2, <2>3, <2>4, <2>5
<1>2. IInv /\ [Next]_vars =>
        [page # None => page'.run.at >= page.run.at /\ page'.details >= page.details]_vars
  BY <1>1
<1>3. QED BY <1>2, Invariance, PTL DEF Spec, PageNeverGoesBack

\* A page that shows a terminal status is final: no fragment that was on its
\* way then is shown later, and no new one is asked for, though the run may be
\* retried.
THEOREM TerminalPageStays ==
  Spec => [][page # None /\ IsTerminal(page) => page' = page]_vars
<1>1. ASSUME IInv, [Next]_vars, page # None, IsTerminal(page)
      PROVE  page' = page
  <2>1. source # "sending" /\ answered = None
    BY <1>1 DEF IInv, ViewOrderly
  <2>2. ~ShowFetched /\ ~Deliver
    BY <2>1 DEF ShowFetched, Deliver
  <2>3. QED
    BY <1>1, <2>2 DEF Next, Recording, Streaming, Fetching, Accepted, Poll, Answer,
                FetchFragment, AnswerFetch, FetchFails, ConnectionLost, vars, view
<1>2. IInv /\ [Next]_vars => [page # None /\ IsTerminal(page) => page' = page]_vars
  BY <1>1
<1>3. QED BY <1>2, Invariance, PTL DEF Spec
=============================================================================
