------------------------------- MODULE LiveRun ------------------------------
(***************************************************************************)
(* The live view of a run: the queries of ui/run_live.py, the stream of    *)
(* server-sent events of apps/web/views/run_live.py, and the script        *)
(* live-run.js in one browser, over the rows that RunRecords commits.      *)
(*                                                                         *)
(* A snapshot is taken by separate queries outside any transaction: first  *)
(* the run, then the rows that hang on it.  What else the server does with *)
(* it belongs to the step of the last query.  An event source or a request *)
(* whose element has left the page changes nothing any more, and is not    *)
(* followed further.                                                       *)
(***************************************************************************)
EXTENDS RunRecords

CONSTANTS
  MaxDrops      \* bound on the connections that are lost

ASSUME DropAssumption == MaxDrops \in Nat

VARIABLES
  page,         \* the snapshot the element run-live-state shows, or None
  source,       \* the EventSource of that element
  asked,        \* what the stream has queried for its next snapshot, or None
  sent,         \* the snapshot whose revision is last_revision, or None
  fallback,     \* the element has a timer that fetches the fragment
  fetched,      \* what the request for a fragment has queried, or None
  answered,     \* the fragment that answers it, or None
  asgi,         \* the server can stream
  drops         \* connections lost so far

view == <<page, source, asked, sent, fallback, fetched, answered, asgi, drops>>
vars == <<records, view>>

-----------------------------------------------------------------------------
(* Queries: ui/run_live.py *)

\* The rows when the first query is made, which returns the run.
Queried == [run |-> row, details |-> details]

\* Mutation: the row of the run is read after the others.
SnapshotRunLast(q) == [run |-> row, details |-> q.details]

\* build_run_live_spec reads the spans and the events after the run.
Snapshot(q) == [run |-> q.run, details |-> details]

\* Mutation: the revision says nothing of the spans and events.
RevisionOfRun(snap) == snap.run.status

\* The revision covers the status, the times of the last change and of the
\* last event, every span and the last event.
Revision(snap) == <<snap.run.status, snap.run.at, snap.details>>

IsTerminal(snap) == snap.run.status \in Terminal

-----------------------------------------------------------------------------
(* The page: live-run.js *)

ViewInit ==
  /\ page = None
  /\ source = "none"
  /\ asked = None
  /\ sent = None
  /\ fallback = FALSE
  /\ fetched = None
  /\ answered = None
  /\ asgi \in BOOLEAN
  /\ drops = 0

\* The fragment is requested: with the page of the run, or by the timer of
\* startFallback while its element is in the page and not terminal.
FetchFragment ==
  /\ (page # None => fallback /\ ~IsTerminal(page))
  /\ fetched = None /\ answered = None
  /\ fetched' = Queried
  /\ UNCHANGED <<records, page, source, asked, sent, fallback, answered, asgi, drops>>

AnswerFetch ==
  /\ fetched # None
  /\ answered' = Snapshot(fetched)
  /\ fetched' = None
  /\ UNCHANGED <<records, page, source, asked, sent, fallback, asgi, drops>>

\* The fragment replaces the element it was fetched for; the new element has
\* no timer and connects, unless it is terminal.
ShowFetched ==
  /\ answered # None
  /\ page' = answered
  /\ source' = IF IsTerminal(answered) THEN "none" ELSE "connecting"
  /\ fallback' = FALSE
  /\ asked' = None /\ sent' = None /\ answered' = None
  /\ UNCHANGED <<records, fetched, asgi, drops>>

\* A fetch that fails changes nothing; the timer goes on.
FetchFails ==
  /\ fetched # None /\ page # None /\ drops < MaxDrops
  /\ drops' = drops + 1
  /\ fetched' = None
  /\ UNCHANGED <<records, page, source, asked, sent, fallback, answered, asgi>>

-----------------------------------------------------------------------------
(* The stream: apps/web/views/run_live.py *)

\* Without ASGI the answer is 503, and the browser does not try again.
Accepted ==
  /\ source = "connecting"
  /\ source' = IF asgi THEN "polling" ELSE "dead"
  /\ fallback' = (fallback \/ ~asgi)
  /\ UNCHANGED <<records, page, asked, sent, fetched, answered, asgi, drops>>

Poll ==
  /\ source = "polling" /\ asked = None
  /\ asked' = Queried
  /\ UNCHANGED <<records, page, source, sent, fallback, fetched, answered, asgi, drops>>

\* The fragment of a new revision is sent; otherwise the stream sleeps.
Answer ==
  /\ source = "polling" /\ asked # None
  /\ IF sent # None /\ Revision(Snapshot(asked)) = Revision(sent)
     THEN UNCHANGED <<source, sent>>
     ELSE source' = "sending" /\ sent' = Snapshot(asked)
  /\ asked' = None
  /\ UNCHANGED <<records, page, fallback, fetched, answered, asgi, drops>>

\* Mutation: the answer to a request goes to whatever element is in the page
\* by the time it arrives.
DeliverOnly ==
  /\ source = "sending"
  /\ page' = sent
  /\ source' = IF IsTerminal(sent) THEN "closed" ELSE "polling"
  /\ fallback' = FALSE
  /\ UNCHANGED <<records, asked, sent, fetched, answered, asgi, drops>>

\* The listener of "fragment" replaces the element.  With it go its timer and
\* the answer to its request; a terminal fragment closes the stream on both
\* sides.
Deliver ==
  /\ source = "sending"
  /\ page' = sent
  /\ source' = IF IsTerminal(sent) THEN "closed" ELSE "polling"
  /\ fallback' = FALSE
  /\ fetched' = None /\ answered' = None
  /\ UNCHANGED <<records, asked, sent, asgi, drops>>

\* onerror: the connection is lost, or has reached its 900 polls, and what is
\* in flight with it.  The browser connects again, unless the answer to that
\* is an error, and a timer is started in the meantime.
ConnectionLost ==
  /\ source \in {"connecting", "polling", "sending"}
  /\ drops < MaxDrops
  /\ drops' = drops + 1
  /\ source' \in {"connecting", "dead"}
  /\ fallback' = TRUE
  /\ asked' = None /\ sent' = None
  /\ UNCHANGED <<records, page, fetched, answered, asgi>>

Streaming == Accepted \/ Poll \/ Answer \/ Deliver
Fetching == FetchFragment \/ AnswerFetch \/ ShowFetched

Recording == RecordsNext /\ UNCHANGED view

Init == RecordsInit /\ ViewInit

Next == Recording \/ Streaming \/ Fetching \/ FetchFails \/ ConnectionLost

Spec == Init /\ [][Next]_vars

\* The server polls, the browser delivers, reconnects and fires its timers;
\* nothing is assumed of the threads that write.
Fairness == WF_vars(Streaming) /\ WF_vars(Fetching)
FairSpec == Spec /\ Fairness

-----------------------------------------------------------------------------
(* Properties *)

\* Once a page shows the status an execution has ended with, it shows all
\* that this execution has reported: the end of its span, its last event,
\* its output.  Nothing comes after the fragment that closes the stream.
EndIsShown == page # None => page.details >= page.run.due

\* What the page shows is never replaced by something older, though the
\* stream and the timer fetch fragments at the same time.
PageNeverGoesBack ==
  [][page # None => page'.run.at >= page.run.at /\ page'.details >= page.details]_vars

\* A page that is open shows at last what is recorded, or the terminal
\* status at which it stopped: with and without streaming, through lost
\* connections, and however the writers are scheduled.
PageCatchesUp ==
  <>[](page # None /\ (IsTerminal(page) \/ page = Queried))
=============================================================================
