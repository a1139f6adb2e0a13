-------------------------- MODULE DurableWorkflows --------------------------
(***************************************************************************)
(* Two workflow packages that pause on a checkpoint store: the saga of     *)
(* packages/saga_workflow and the approval of packages/human_approval_     *)
(* workflow.  A call computes what it has to do from its input or from a   *)
(* version it has loaded; the outcome says what it puts into the artifact  *)
(* store, what it saves, and with what status it then returns.             *)
(***************************************************************************)
EXTENDS Naturals, FiniteSetsExt, Callers

CONSTANT Operation     \* of the saga

Outcome(status, put, save) == [status |-> status, put |-> put, save |-> save]

\* A request that is linked to the latest version when it is saved.
Latest == [name |-> "latest", number |-> 0]

Request(name, number, parent, body) ==
  [id |-> [name |-> name, number |-> number], parent |-> parent, body |-> body]

-----------------------------------------------------------------------------
(* The saga: a result for each operation, from the failure plan *)

Failure == {"none", "retryable", "fatal"}

\* execute_branch
Branch(failure, attempt) == [failure |-> failure, attempt |-> attempt]

Attempts(results) == MapThenSumSet(LAMBDA o : results[o].attempt, Operation)

Body(done, results) == [done |-> done, results |-> results]

\* What is kept of the operations: a branch is run again only after a failure
\* that is retryable, which lifts it.
Results ==
  [Operation -> {branch \in [failure : Failure, attempt : 1..2] :
                   branch.attempt = 2 => branch.failure = "none"}]

SagaBody == [done : {"open", "completed", "compensated"}, results : Results]

Finalize(done, results, parent) ==
  Outcome("succeeded", Body(done, results),
          Request(done, 0, parent, Body(done, results)))

Reconcile(results, parent) ==
  IF \A o \in Operation : results[o].failure = "none"
  THEN Finalize("completed", results, parent)
  ELSE Outcome("waiting", None,
               Request("partial", Attempts(results), parent, Body("open", results)))

SagaExecute(plan) == Reconcile([o \in Operation |-> Branch(plan[o], 1)], None)

\* The branches that succeeded are undone, in the call.
Compensate(results, parent) == Finalize("compensated", results, parent)

\* retry_failed runs the retryable branches again, and lifts their failures.
\* The payload of a final version has no branch results: KeyError.
SagaResume(version, action) ==
  LET results == version.req.body.results
      retried == [o \in Operation |->
                    IF results[o].failure = "retryable"
                    THEN Branch("none", results[o].attempt + 1)
                    ELSE results[o]]
  IN  IF version.req.body.done # "open" THEN None
      ELSE IF action = "retry_failed" THEN Reconcile(retried, version.req.id)
      ELSE Compensate(results, version.req.id)

-----------------------------------------------------------------------------
(* The approval: the state of the graph, with the proposal it is about *)

\* The snapshot of the saver holds identifiers that no other call has made.
Pause(count, proposal, call) ==
  Outcome("waiting", None,
          Request("approval-pause", count, Latest,
                  [count |-> count, proposal |-> proposal, call |-> call]))

State == [count : Nat, proposal : Nat, call : Nat]

Decision == [decision : {"approve", "reject"}, proposal : Nat, count : Nat]

\* A proposal is known by the call that has made it, the first one by 0.
ApprovalExecute(call) == Pause(0, 0, call)

ApprovalResume(version, action, call) ==
  LET state == version.req.body
  IN  IF action = "revise" THEN Pause(state.count + 1, call, call)
      ELSE Outcome("succeeded",
                   [decision |-> action, proposal |-> state.proposal, count |-> state.count],
                   None)

-----------------------------------------------------------------------------
(* What is saved and stored *)

CheckpointId ==
  [name : {"partial", "completed", "compensated", "approval-pause"},
   number : Nat \cup {Attempts(results) : results \in Results}]

Saves ==
  [id : CheckpointId, parent : CheckpointId \cup {None, Latest}, body : SagaBody \cup State]

Artifacts == SagaBody \cup Decision

\* None is no record of a workflow.
ASSUME RecordAssumption == None \notin Saves \cup Artifacts \cup CheckpointId \cup {Latest}
=============================================================================
