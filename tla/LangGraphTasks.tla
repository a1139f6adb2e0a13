--------------------------- MODULE LangGraphTasks ---------------------------
(***************************************************************************)
(* LangGraphExecutable: the debug stream of a graph, turned into spans and *)
(* snapshots as it arrives.  The graph runs tasks of its nodes, several at *)
(* a time; a task ends with a result, an error or an interrupt, and the    *)
(* stream ends, or raises.                                                 *)
(***************************************************************************)
EXTENDS ProviderRecords

CONSTANTS
  Task,         \* tasks of the graph
  NodeOf        \* the node of a task

ASSUME TaskAssumption == NodeOf \in [Task -> Unit]

VARIABLES
  todo,         \* tasks the graph has still to run
  open,         \* the span of each running task that has one (spans)
  interrupted   \* tasks that wait for an answer (interrupts)

graph == <<todo, open, interrupted>>

GraphInit == todo = {} /\ open = <<>> /\ interrupted = {}

\* The tasks that run: a span that could not be started is None.
Running == DOMAIN open

\* execute, and resume, which runs the interrupted tasks again.
GraphStarts(tasks) ==
  /\ todo' = tasks
  /\ open' = <<>>
  /\ interrupted' = {}
  /\ UNCHANGED records

\* _emit_projection: the node is the unit of its tasks.
Project(t, status, sequence, works) == Snapshot(NodeOf[t], status, sequence, works)

\* A part of type task.
TaskStarts(t) ==
  /\ t \in todo
  /\ \E span, snap \in Works :
       /\ rows' = Started(span)
       /\ open' = [x \in Running \cup {t} |-> IF x = t THEN RefIf(span) ELSE open[x]]
       /\ Project(t, "running", 0, snap)
       /\ faults' = faults + Cost(span) + Cost(snap)
  /\ todo' = todo \ {t}
  /\ UNCHANGED interrupted

\* Mutation: the span of a task that is interrupted is kept for its resume.
TaskEndsKept(t, how) ==
  /\ t \in Running
  /\ \E span, snap \in Works :
       /\ rows' = IF how = "waiting" THEN rows
                  ELSE Ended(rows, {open[t]}, how, span)
       /\ Project(t, how, 1, snap)
       /\ faults' = faults + Cost(span) + Cost(snap)
  /\ open' = [x \in Running \ {t} |-> open[x]]
  /\ interrupted' = IF how = "waiting" THEN interrupted \cup {t} ELSE interrupted
  /\ UNCHANGED todo

\* A part of type task_result; the span of an interrupted task is completed.
TaskEnds(t, how) ==
  /\ t \in Running
  /\ \E span, snap \in Works :
       /\ rows' = Ended(rows, {open[t]}, IF how = "failed" THEN how ELSE "succeeded", span)
       /\ Project(t, how, 1, snap)
       /\ faults' = faults + Cost(span) + Cost(snap)
  /\ open' = [x \in Running \ {t} |-> open[x]]
  /\ interrupted' = IF how = "waiting" THEN interrupted \cup {t} ELSE interrupted
  /\ UNCHANGED todo

\* The stream raises, or the control does: the spans of the tasks that run
\* are failed, their snapshots are left as they are.
GraphRaises ==
  /\ \E works \in Works :
       /\ rows' = Ended(rows, {open[t] : t \in Running}, "failed", works)
       /\ faults' = faults + Cost(works)
  /\ open' = <<>> /\ todo' = {} /\ interrupted' = {}
  /\ UNCHANGED <<current, unknown>>

\* The stream ends: no task is left, or what is left waits for the answers.
GraphReturns == Running = {} /\ (todo = {} \/ interrupted # {}) /\ UNCHANGED <<records, graph>>
=============================================================================
