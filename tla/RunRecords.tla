----------------------------- MODULE RunRecords -----------------------------
(***************************************************************************)
(* What the control plane records about one run: the rows of Run,          *)
(* ExecutionSpan and RunEvent that services/runs.py and DjangoEventSink    *)
(* write, in transactions of their own, from several threads.              *)
(*                                                                         *)
(* Commits are numbered.  The spans and the events of the run are known by *)
(* the number of the commit that changed them last.  An operation of the   *)
(* sink reads the row of the run without a lock and saves it again when it *)
(* has recorded its event; in between the other threads commit.  It may    *)
(* fail: it is rolled back, its caller suppresses the error, and nothing   *)
(* is recorded.                                                            *)
(***************************************************************************)
EXTENDS Naturals

CONSTANTS
  None,
  Actor,        \* the threads that report
  Outcome,      \* how the workflow may end
  MaxTurns,     \* bound on the operations (start, resume, retry) accepted
  MaxCommits    \* bound on the commits: beyond it every report fails

\* The thread that executes the run, the request that cancels it and, if the
\* workflow has one, a worker thread of a Native helper (a call of an LLM or a
\* tool).
ASSUME ActorAssumption ==
  /\ {"execution", "cancel"} \subseteq Actor
  /\ Actor \subseteq {"execution", "cancel", "helper"}

ASSUME OutcomeAssumption == Outcome \subseteq {"succeeded", "failed", "waiting"}

ASSUME BoundAssumption == MaxTurns \in Nat /\ MaxCommits \in Nat

VARIABLES
  row,          \* the row of the run: its status, what of the execution its
                \* result covers (due), and the commit that touched it
  read,         \* what each thread has read of the row for the operation it is
                \* in, but for the commit number, which it sets anew
  details,      \* the commit that changed a span or added an event last
  turns,        \* operations accepted
  stage,        \* where the thread that executes the run is
  outcome,      \* how the workflow has ended
  spans,        \* the thread holds the SpanRef of a span it has to end
  cancelling,   \* a request has cancelled the run and has still to report it
  decided,      \* history: the status and the result services/runs.py wrote last
  reported      \* history: the last commit of a report of the execution

records == <<row, read, details, turns, stage, outcome, spans, cancelling,
             decided, reported>>

Terminal == {"succeeded", "failed", "cancelled"}

-----------------------------------------------------------------------------
(* Transactions *)

\* _transition_run, under the lock of the row.  The result of the execution,
\* its output or its error, is written with the status; due is what the
\* execution has reported by then.
Transition(status, due) ==
  /\ row' = [status |-> status, at |-> row.at + 1, due |-> due]
  /\ decided' = [status |-> status, due |-> due]
  /\ UNCHANGED <<read, details, reported>>

\* Mutation: the row is saved without update_fields, as save() does.
AllFields == {"status", "at", "due"}

\* The columns _touch_run saves: the times of the last change and of the last
\* event.
UpdateFields == {"at"}

\* The operation of a changes the row it has read and saves UpdateFields of
\* it; the other columns stay what they are in the database by then.
Saved(a) ==
  LET touched == [status |-> read[a].status, at |-> row.at + 1, due |-> read[a].due]
  IN [f \in DOMAIN row |-> IF f \in UpdateFields THEN touched[f] ELSE row[f]]

AfterReport(at) ==
  CASE at = "start" -> "graph"
    [] at = "graph" -> "body"
    [] at = "close" -> "event"
    [] at = "event" -> "complete"
    [] at = "refused" -> "idle"
    [] OTHER -> at

\* The event a thread has to report.  The execution reports the start of the
\* run and of the graph span, events of the workflow itself, and when that has
\* ended the end of the span, if there is one, and the event of the outcome,
\* which a pause does not have.
HasEvent(a) ==
  CASE a = "execution" ->
         \/ stage \in {"start", "graph", "refused", "body", "close"}
         \/ stage = "event" /\ outcome # "waiting"
    [] a = "helper" -> stage = "body" \/ spans["helper"]
    [] a = "cancel" -> cancelling

\* An operation of the sink begins: the row is read, by itself or with the row
\* of the span, and no lock is taken.
Get(a) ==
  /\ HasEvent(a) /\ read[a] = None
  /\ read' = [read EXCEPT ![a] = [status |-> row.status, due |-> row.due]]
  /\ UNCHANGED <<row, details, turns, stage, outcome, spans, cancelling,
                 decided, reported>>

\* It ends: the change of the span, its event and the touch of the run become
\* visible at once, or none of them does.  The caller goes on in either case:
\* a span that could not be started has no reference, and one whose end could
\* not be reported stays running.
Report(a, held) ==
  /\ read[a] # None
  /\ read' = [read EXCEPT ![a] = None]
  /\ \/ /\ row.at < MaxCommits
        /\ row' = Saved(a)
        /\ details' = row.at + 1
        /\ reported' = IF a = "execution" THEN row.at + 1 ELSE reported
        /\ spans' = [spans EXCEPT ![a] = held]
     \/ /\ UNCHANGED <<row, details, reported>>
        /\ spans' = [spans EXCEPT ![a] = @ /\ held]
  /\ stage' = IF a = "execution" THEN AfterReport(stage) ELSE stage
  /\ UNCHANGED <<turns, outcome, decided>>

-----------------------------------------------------------------------------
(* The threads *)

RecordsInit ==
  /\ row = [status |-> "pending", at |-> 0, due |-> 0]
  /\ read = [a \in Actor |-> None]
  /\ details = 0
  /\ turns = 0
  /\ stage = "idle"
  /\ outcome = None
  /\ spans = [a \in Actor |-> FALSE]
  /\ cancelling = FALSE
  /\ decided = [status |-> "pending", due |-> 0]
  /\ reported = 0

\* The first transaction of start_run, resume_run and retry_run.
Accept ==
  /\ stage = "idle"
  /\ row.status \in {"pending", "waiting", "failed", "cancelled"}
  /\ turns < MaxTurns
  /\ Transition("running", 0)
  /\ turns' = turns + 1
  /\ stage' = "start"
  /\ UNCHANGED <<outcome, spans, cancelling>>

\* _handle_runtime_build_failure: the failure is committed, then reported.
Refuse ==
  /\ stage = "start" /\ read["execution"] = None
  /\ Transition("failed", 0)
  /\ stage' = "refused"
  /\ UNCHANGED <<turns, outcome, spans, cancelling>>

\* _dispatch: the start of the graph span gives the thread its reference.
ReportLifecycle ==
  /\ stage # "body"
  /\ Report("execution", stage = "graph")
  /\ UNCHANGED cancelling

\* An event of the workflow itself: progress, a metric, an artifact.
ReportProgress ==
  /\ stage = "body"
  /\ Report("execution", spans["execution"])
  /\ UNCHANGED cancelling

\* The workflow returns or raises.
End(o) ==
  /\ stage = "body" /\ read["execution"] = None
  /\ outcome' = o
  /\ stage' = IF spans["execution"] THEN "close" ELSE "event"
  /\ UNCHANGED <<row, read, details, turns, spans, cancelling, decided, reported>>

\* _complete_action, whatever the status is by now.
Complete ==
  /\ \/ stage = "complete"
     \/ stage = "event" /\ outcome = "waiting"
  /\ Transition(outcome, reported)
  /\ stage' = "idle"
  /\ outcome' = None
  /\ UNCHANGED <<turns, spans, cancelling>>

\* The span of a call is started while the workflow runs.  Its thread is not
\* stopped when the step that waits for it times out: the span may be ended
\* at any time.
ReportCall ==
  /\ "helper" \in Actor
  /\ Report("helper", ~spans["helper"])
  /\ UNCHANGED cancelling

\* cancel_run: the transaction, and then the event.
Cancel ==
  /\ ~cancelling
  /\ row.status \in {"pending", "running", "waiting"}
  /\ Transition("cancelled", 0)
  /\ cancelling' = TRUE
  /\ UNCHANGED <<turns, stage, outcome, spans>>

ReportCancel ==
  /\ Report("cancel", FALSE)
  /\ cancelling' = FALSE

RecordsNext ==
  \/ Accept \/ Refuse \/ ReportLifecycle \/ ReportProgress \/ Complete
  \/ \E o \in Outcome : End(o)
  \/ \E a \in Actor : Get(a)
  \/ ReportCall \/ Cancel \/ ReportCancel

RecordsSpec == RecordsInit /\ [][RecordsNext]_records

-----------------------------------------------------------------------------
(* Properties *)

\* The run keeps the status and the result that services/runs.py has written
\* last.  The operations of the event sink read the row without a lock and save
\* it after any number of transitions by the execution or by a request that
\* cancels the run; none of them brings back the status it has read.
StatusIsDecided == row.status = decided.status /\ row.due = decided.due
=============================================================================
