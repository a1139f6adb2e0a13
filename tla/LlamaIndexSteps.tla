--------------------------- MODULE LlamaIndexSteps --------------------------
(***************************************************************************)
(* LlamaIndexWorkflowsExecutable: the event stream of a workflow, turned   *)
(* into operations on a buffer while the event loop runs, and replayed on  *)
(* the event sink when the loop has ended.                                 *)
(*                                                                         *)
(* The library says that a worker of a step runs or does not run any more, *)
(* and afterwards that the step has failed.  A step without a failure      *)
(* event counts as completed, once the whole workflow is.                  *)
(***************************************************************************)
EXTENDS ProviderRecords, SequencesExt

CONSTANTS
  Worker,       \* the numbers of the workers of a step
  MaxStepRuns   \* bound on the runs of steps

ASSUME StepAssumption == Worker \subseteq Nat /\ MaxStepRuns \in Nat

VARIABLES
  busy,         \* the workers that run, of each step
  stopped,      \* history: the steps that have stopped
  stack,        \* the spans of the running workers, per step (spans)
  pending,      \* steps that have stopped, with their spans (pending_terminals)
  buffer,       \* the operations still to be replayed
  started,      \* spans started in the buffer (_counter)
  refs          \* the spans the replay has started (refs)

steps == <<busy, stopped, stack, pending, buffer, started, refs>>

StepsInit ==
  /\ busy = [s \in Unit |-> {}]
  /\ stopped = {}
  /\ stack = [s \in Unit |-> <<>>]
  /\ pending = <<>>
  /\ buffer = <<>>
  /\ started = 0
  /\ refs = <<>>

Start(ref) == [do |-> "start", ref |-> ref]
Terminal(ref, status) == [do |-> "end", ref |-> ref, status |-> status]
Projection(step, status, sequence) ==
  [do |-> "snapshot", unit |-> step, status |-> status, sequence |-> sequence]

\* _worker_sequence: the snapshots of a worker are numbered apart from those
\* of the others.
WorkerSequence(w, step) == 10 * w + step

-----------------------------------------------------------------------------
(* The event loop *)

\* StepStateChanged to RUNNING.
StepRuns(s, w) ==
  /\ w \notin busy[s] /\ started < MaxStepRuns
  /\ busy' = [busy EXCEPT ![s] = @ \cup {w}]
  /\ started' = started + 1
  /\ stack' = [stack EXCEPT ![s] = Append(@, started')]
  /\ buffer' = buffer \o <<Start(started'), Projection(s, "running", WorkerSequence(w, 0))>>
  /\ UNCHANGED <<records, stopped, pending, refs>>

\* StepStateChanged to NOT_RUNNING: the span started last is taken for the
\* span of this worker, and is not ended yet.
StepStops(s, w) ==
  /\ w \in busy[s]
  /\ busy' = [busy EXCEPT ![s] = @ \ {w}]
  /\ stopped' = stopped \cup {s}
  /\ stack' = [stack EXCEPT ![s] = Front(@)]
  /\ pending' = Append(pending, [step |-> s, ref |-> Last(stack[s])])
  /\ buffer' = Append(buffer, Projection(s, "succeeded", WorkerSequence(w, 1)))
  /\ UNCHANGED <<records, started, refs>>

\* _pop_pending_terminal: the position of the last one of this step, or 0.
LastPending(s) ==
  SelectLastInSeq(pending, LAMBDA entry : entry.step = s)

\* Mutation: the failed snapshot is numbered as the end of a worker.
NumberedAsWorker == 1

\* The failed snapshot is numbered beyond the states of every worker.
FailedSequence == 10000

\* WorkflowFailedEvent, which names the step and not the worker: the span is
\* that of a worker that has stopped, or the one started last.
StepFails(s) ==
  /\ s \in stopped \/ busy[s] # {}
  /\ LET p == LastPending(s)
         ref == IF p > 0 THEN pending[p].ref
                ELSE IF stack[s] # <<>> THEN Last(stack[s]) ELSE None
     IN  /\ pending' = IF p = 0 THEN pending
                       ELSE RemoveAt(pending, p)
         /\ stack' = IF p > 0 \/ stack[s] = <<>> THEN stack
                     ELSE [stack EXCEPT ![s] = Front(@)]
         /\ buffer' = buffer
                        \o (IF ref = None THEN <<>> ELSE <<Terminal(ref, "failed")>>)
                        \o <<Projection(s, "failed", FailedSequence)>>
  /\ UNCHANGED <<records, busy, stopped, started, refs>>

AllEnded(ids, status) == [i \in DOMAIN ids |-> Terminal(ids[i], status)]

\* The stream, the handler or the control raises: the spans on the stacks are
\* failed, those of the steps that have stopped are not ended at all.
StepsRaise ==
  LET left == UNION {ToSet(stack[s]) : s \in Unit}
  IN  /\ buffer' = buffer \o AllEnded(SetToSeq(left), "failed")
      /\ UNCHANGED <<records, busy, stopped, stack, pending, started, refs>>

\* The handler returns: the steps that have stopped are completed, the spans
\* of steps the end of the workflow has interrupted are not ended at all.
StepsReturn ==
  /\ buffer' = buffer
       \o AllEnded([i \in DOMAIN pending |-> pending[i].ref], "succeeded")
  /\ UNCHANGED <<records, busy, stopped, stack, pending, started, refs>>

-----------------------------------------------------------------------------
(* The replay, in the calling thread *)

\* Operations on a span that could not be started are skipped.
Replay ==
  /\ buffer # <<>>
  /\ LET op == Head(buffer)
     IN  \E works \in Works :
           /\ faults' = faults + Cost(works)
           /\ CASE op.do = "start" ->
                     /\ rows' = Started(works)
                     /\ refs' = Append(refs, RefIf(works))
                     /\ UNCHANGED <<current, unknown>>
                [] op.do = "end" ->
                     /\ rows' = Ended(rows, {refs[op.ref]}, op.status, works)
                     /\ UNCHANGED <<current, unknown, refs>>
                [] op.do = "snapshot" ->
                     /\ Snapshot(op.unit, op.status, op.sequence, works)
                     /\ UNCHANGED <<rows, refs>>
  /\ buffer' = Tail(buffer)
  /\ UNCHANGED <<busy, stopped, stack, pending, started>>
=============================================================================
