--------------------------- MODULE IntegratedRuns ---------------------------
(***************************************************************************)
(* One run of a workflow that an integration provider wraps: LangGraph,    *)
(* which reports while it runs and can pause, or LlamaIndex Workflows,     *)
(* which reports afterwards.  Users answer a pause through the action the  *)
(* provider has published for it (ui/integration_actions.py).              *)
(***************************************************************************)
EXTENDS LangGraphTasks, LlamaIndexSteps

CONSTANTS
  User,
  MaxPauses     \* bound on the pauses: beyond it no task interrupts

ASSUME PauseAssumption == MaxPauses \in Nat

VARIABLES
  kind,         \* the integration of the workflow
  status,       \* of the run
  phase,        \* of its execution
  raised,       \* the execution has ended with an exception
  failed,       \* history: the units that have reported a failure last
  pauses,       \* pauses so far
  answers,      \* pauses that have been answered
  offers,       \* the pauses whose action record is stored and not expired
  form,         \* the pause whose action a user has before him, or None
  sending       \* the user's answer has passed the checks of the router

control == <<kind, status, phase, raised, failed, pauses, answers, offers, form, sending>>
vars == <<records, graph, steps, control>>

Init ==
  /\ RecordsInit /\ GraphInit /\ StepsInit
  /\ kind \in {"langgraph", "llamaindex"}
  /\ status = "pending" /\ phase = "idle"
  /\ raised = FALSE /\ failed = {}
  /\ pauses = 0 /\ answers = 0 /\ offers = {}
  /\ form = [u \in User |-> None]
  /\ sending = [u \in User |-> FALSE]

\* The run is started; the graph has all its tasks to run.
Run ==
  /\ status = "pending"
  /\ status' = "running" /\ phase' = "stream"
  /\ GraphStarts(IF kind = "langgraph" THEN Task ELSE {})
  /\ UNCHANGED <<steps, kind, raised, failed, pauses, answers, offers, form, sending>>

Streaming(k) == phase = "stream" /\ kind = k

-----------------------------------------------------------------------------
(* LangGraph *)

\* The stream is read on whatever a part says: the tasks that run beside one
\* that has failed end as well, those of the same node included.
GraphEvent ==
  /\ Streaming("langgraph")
  /\ \E t \in Task :
       \/ TaskStarts(t) /\ failed' = failed \ {NodeOf[t]}
       \/ TaskEnds(t, "succeeded") /\ failed' = failed \ {NodeOf[t]}
       \/ TaskEnds(t, "waiting") /\ pauses < MaxPauses /\ failed' = failed \ {NodeOf[t]}
       \/ TaskEnds(t, "failed") /\ failed' = failed \cup {NodeOf[t]}
  /\ UNCHANGED <<steps, kind, status, phase, raised, pauses, answers, offers, form, sending>>

GraphFails ==
  /\ Streaming("langgraph")
  /\ GraphRaises
  /\ raised' = TRUE /\ phase' = "ended"
  /\ UNCHANGED <<steps, kind, status, failed, pauses, answers, offers, form, sending>>

\* A pause publishes the action that answers it, before the run waits.
GraphEnds ==
  /\ Streaming("langgraph")
  /\ GraphReturns
  /\ phase' = "ended"
  /\ \/ interrupted = {} /\ UNCHANGED <<pauses, offers>>
     \/ /\ interrupted # {}
        /\ pauses' = pauses + 1
        /\ offers' \in {offers, offers \cup {pauses'}}
  /\ UNCHANGED <<steps, kind, status, raised, failed, answers, form, sending>>

-----------------------------------------------------------------------------
(* LlamaIndex *)

\* WorkflowFailedEvent stops the workflow, and is the last event of its stream.
StepEvent ==
  /\ Streaming("llamaindex") /\ failed = {}
  /\ \E s \in Unit :
       \/ \E w \in Worker : (StepRuns(s, w) \/ StepStops(s, w)) /\ UNCHANGED failed
       \/ StepFails(s) /\ failed' = {s}
  /\ UNCHANGED <<graph, kind, status, phase, raised, pauses, answers, offers, form, sending>>

\* A failure event is followed by the exception of the handler.
LoopEnds ==
  /\ Streaming("llamaindex")
  /\ \/ StepsRaise /\ raised' = TRUE
     \/ failed = {} /\ StepsReturn /\ UNCHANGED raised
  /\ phase' = "replay"
  /\ UNCHANGED <<graph, kind, status, failed, pauses, answers, offers, form, sending>>

ReplayNext ==
  /\ phase = "replay"
  /\ Replay
  /\ UNCHANGED <<graph, control>>

-----------------------------------------------------------------------------
(* The run, and its users *)

\* The result is written to the run.
Finish ==
  /\ \/ phase = "ended"
     \/ phase = "replay" /\ buffer = <<>>
  /\ status' = IF raised THEN "failed"
               ELSE IF interrupted # {} THEN "waiting" ELSE "succeeded"
  /\ phase' = "idle"
  /\ UNCHANGED <<records, graph, steps, kind, raised, failed, pauses, answers, offers, form, sending>>

\* build_integration_action_specs: the actions of every stored record.
OpenForm(u) ==
  /\ status = "waiting" /\ form[u] = None
  /\ \E p \in offers : form' = [form EXCEPT ![u] = p]
  /\ UNCHANGED <<records, graph, steps, kind, status, phase, raised, failed, pauses, answers,
                 offers, sending>>

\* dispatch_integration_action looks at the run and at the record, and not
\* at the pause the record is about.  The checkpoint id of the record is
\* passed on, and resume of LangGraph does not use it.
Submit(u) ==
  /\ form[u] # None /\ ~sending[u]
  /\ sending' = [sending EXCEPT ![u] = status = "waiting" /\ form[u] \in offers]
  /\ form' = IF sending'[u] THEN form ELSE [form EXCEPT ![u] = None]
  /\ UNCHANGED <<records, graph, steps, kind, status, phase, raised, failed, pauses, answers,
                 offers>>

Close(u) ==
  /\ sending' = [sending EXCEPT ![u] = FALSE]
  /\ form' = [form EXCEPT ![u] = None]

\* Mutation: the router's own look at the run is taken for sufficient.
AnswerUnlocked(u) ==
  /\ sending[u]
  /\ status' = "running" /\ phase' = "stream"
  /\ answers' = answers + 1
  /\ GraphStarts(interrupted \cup todo)
  /\ Close(u)
  /\ UNCHANGED <<steps, kind, raised, failed, pauses, offers>>

\* resume_run: the policy is asked again under the lock of the row.  The
\* graph is resumed where it waits by now.
Answer(u) ==
  /\ sending[u]
  /\ \/ /\ status = "waiting"
        /\ status' = "running" /\ phase' = "stream"
        /\ answers' = answers + 1
        /\ GraphStarts(interrupted \cup todo)
     \/ /\ status # "waiting"
        /\ UNCHANGED <<records, graph, status, phase, answers>>
  /\ Close(u)
  /\ UNCHANGED <<steps, kind, raised, failed, pauses, offers>>

\* Action records are transient: they expire after a day.
Expire ==
  /\ offers # {}
  /\ \E p \in offers : offers' = offers \ {p}
  /\ UNCHANGED <<records, graph, steps, kind, status, phase, raised, failed, pauses, answers,
                 form, sending>>

Next ==
  \/ Run \/ GraphEvent \/ GraphFails \/ GraphEnds
  \/ StepEvent \/ LoopEnds \/ ReplayNext \/ Finish \/ Expire
  \/ \E u \in User : OpenForm(u) \/ Submit(u) \/ Answer(u)

Spec == Init /\ [][Next]_vars

-----------------------------------------------------------------------------
(* Properties *)

\* The spans LlamaIndexWorkflowsExecutable leaves open: those of the steps
\* that had stopped when the workflow failed, and of those that had not when
\* it was completed.
LeftOpen ==
  LET ids == IF raised THEN {pending[i].ref : i \in DOMAIN pending}
             ELSE UNION {ToSet(stack[s]) : s \in Unit}
  IN  {refs[id] : id \in ids}

\* When an execution has ended, in whatever way, no span of it stays running,
\* except for a failed report and for what LlamaIndex leaves open.
SpansAreSettled ==
  phase = "idle" =>
    \A i \in DOMAIN rows :
      rows[i].status = "running" =>
        rows[i].lost \/ (kind = "llamaindex" /\ i \in LeftOpen)

\* A unit that has reported a failure last is shown as failed when the
\* execution has ended: neither the snapshots of its other tasks or workers,
\* nor snapshots of the same time, change that; only a report that fails does.
\* For LlamaIndex, where nothing follows a failure, it is what
\* docs/architecture/design/OSS_NEUTRAL_WORKFLOW_INTEGRATION.md says: "A failed
\* LlamaIndex step emits a final failed snapshot after WorkflowFailedEvent, so
\* current state cannot remain incorrectly successful".  A node of LangGraph may
\* report a success after a failure, if it runs in several tasks.
FailureIsCurrent ==
  phase = "idle" =>
    \A u \in failed \ unknown : current[u] # None /\ current[u].status = "failed"

\* Every pause is answered at most once, though several users may have its
\* action before them, actions of earlier pauses stay on offer, and the
\* router looks at the run before it takes the lock.
AnsweredOnce == answers <= pauses /\ (status = "waiting" => answers < pauses)
=============================================================================
