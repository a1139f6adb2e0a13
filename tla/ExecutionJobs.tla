---------------------------- MODULE ExecutionJobs ---------------------------
(***************************************************************************)
(* Worker mode: the operations on a run are queued as ExecutionJob rows    *)
(* (services/jobs.py, models/job.py, services/dispatch.py), and the loop   *)
(* of "cobalt-wren worker" (cli/main.py) claims and executes them.  A web  *)
(* process queues the operations and cancels the run itself.               *)
(*                                                                         *)
(* The module composes the job table and the workers with RunLifecycle:    *)
(* a worker executes a job by carrying out an operation of the run.  The   *)
(* jobs are those of one run; jobs of other runs only delay a worker.      *)
(***************************************************************************)
EXTENDS Naturals, FiniteSets

CONSTANTS
  Worker,       \* worker processes, each with one thread
  Web,          \* the processes that serve users
  Job,          \* rows of the job table
  None,
  MaxFaults

\* The operations are queued by some web process.
ASSUME WorkerAssumption == Worker \cap Web = {} /\ Web # {}
ASSUME NoneAssumption == None \notin Worker /\ None \notin Job
ASSUME FaultAssumption == MaxFaults \in Nat

VARIABLES
  job,          \* each row: [op, status], or None when it does not exist yet
  stage,        \* where the loop of each worker is
  held,         \* the job a worker has in hand, or None
  performed,    \* history: how often the run has accepted the operation of each job
  hasty,        \* history: a job was put back while its worker was alive
  status, active, cancelled, pc, result, faults, overlapped, interfered

table == <<job, stage, held, performed, hasty>>
run == <<status, active, cancelled, pc, result, faults, overlapped, interfered>>
vars == <<table, run>>

\* The threads that execute the run are the workers, each its own process.
Run == INSTANCE RunLifecycle WITH
         Thread <- Worker, Process <- Worker \cup Web, Home <- [w \in Worker |-> w]

JobStatus == {"queued", "claimed", "succeeded", "failed"}

\* An absent row differs from every row.
ASSUME RowAssumption == None \notin [op : Run!Operation, status : JobStatus]

\* The rows under the unique constraint one_active_execution_job_per_run.
ActiveJobs == {j \in Job : job[j] # None /\ job[j].status \in {"queued", "claimed"}}

-----------------------------------------------------------------------------
(* Steps *)

Init ==
  /\ Run!Init
  /\ job = [j \in Job |-> None]
  /\ stage = [w \in Worker |-> "poll"]
  /\ held = [w \in Worker |-> None]
  /\ performed = [j \in Job |-> 0]
  /\ hasty = FALSE

SetStage(w, s) == stage' = [stage EXCEPT ![w] = s]
SetJob(j, s) == job' = [job EXCEPT ![j].status = s]

\* enqueue_execution_job.  A second active job violates the unique
\* constraint: the caller gets an IntegrityError and nothing is stored.  The
\* policy of the run is not asked.
Enqueue(o) ==
  /\ ActiveJobs = {}
  /\ \E j \in Job :
       /\ job[j] = None
       /\ job' = [job EXCEPT ![j] = [op |-> o, status |-> "queued"]]
  /\ UNCHANGED <<stage, held, performed, hasty, run>>

\* Mutation: a job whose worker is gone is not put back.
RecoverNothing(w) ==
  /\ stage[w] = "poll"
  /\ UNCHANGED vars

\* Mutation: the job gets the status a new run has.
RecoverAsPending(w) ==
  /\ stage[w] = "poll"
  /\ \E j \in Job :
       /\ job[j] # None /\ job[j].status = "claimed"
       /\ SetJob(j, "pending")
       /\ hasty' = (hasty \/ \E v \in Worker : held[v] = j)
  /\ UNCHANGED <<stage, held, performed, run>>

\* recover_stale_jobs, first call of the loop.  Nothing refreshes a heartbeat
\* after the claim, so any claimed job may be older than the cutoff, that of
\* a dead worker or of a busy one.
RecoverStale(w) ==
  /\ stage[w] = "poll"
  /\ \E j \in Job :
       /\ job[j] # None /\ job[j].status = "claimed"
       /\ SetJob(j, "queued")
       /\ hasty' = (hasty \/ \E v \in Worker : held[v] = j)
  /\ UNCHANGED <<stage, held, performed, run>>

\* Mutation: the claim selects by status and does not lock: a claimed row is taken too.
ClaimUnlocked(w) ==
  /\ stage[w] = "poll"
  /\ \E j \in ActiveJobs :
       /\ SetJob(j, "claimed")
       /\ held' = [held EXCEPT ![w] = j]
  /\ SetStage(w, "execute")
  /\ UNCHANGED <<performed, hasty, run>>

\* claim_next_job: select for update, then mark as claimed.
Claim(w) ==
  /\ stage[w] = "poll"
  /\ \E j \in Job :
       /\ job[j] # None /\ job[j].status = "queued"
       /\ SetJob(j, "claimed")
       /\ held' = [held EXCEPT ![w] = j]
  /\ SetStage(w, "execute")
  /\ UNCHANGED <<performed, hasty, run>>

\* execute_job: the operation of the run begins, or its policy refuses it
\* (PermissionError), which fails the job.
Execute(w) ==
  LET o == job[held[w]].op IN
  /\ stage[w] = "execute"
  /\ IF Run!Allowed(o)
     THEN /\ Run!Accept(w, o)
          /\ SetStage(w, "run")
          /\ performed' = [performed EXCEPT ![held[w]] = @ + 1]
     ELSE /\ SetStage(w, "save_failed")
          /\ UNCHANGED <<performed, run>>
  /\ UNCHANGED <<job, held, hasty>>

\* The operation proceeds.  A run that fails is a job that succeeds: only an
\* exception out of the operation fails the job.
Perform(w) ==
  /\ stage[w] = "run"
  /\ \/ Run!Progress(w) /\ UNCHANGED stage
     \/ Run!Return(w) /\ SetStage(w, "save_succeeded")
  /\ UNCHANGED <<job, held, performed, hasty>>

PerformRaises(w) ==
  /\ stage[w] = "run"
  /\ Run!Raise(w)
  /\ SetStage(w, "save_failed")
  /\ UNCHANGED <<job, held, performed, hasty>>

\* Mutation: a job that fails is taken to have failed its run.
SaveFailsRun(w) ==
  /\ stage[w] \in {"save_succeeded", "save_failed"}
  /\ SetJob(held[w], IF stage[w] = "save_succeeded" THEN "succeeded" ELSE "failed")
  /\ status' = IF stage[w] = "save_failed" THEN "failed" ELSE status
  /\ SetStage(w, "poll")
  /\ held' = [held EXCEPT ![w] = None]
  /\ UNCHANGED <<performed, hasty, active, cancelled, pc, result, faults, overlapped, interfered>>

\* job.save at the end of execute_job, from the worker's own copy of the row:
\* nothing checks that the row is still claimed, or by whom.
Save(w) ==
  /\ stage[w] \in {"save_succeeded", "save_failed"}
  /\ SetJob(held[w], IF stage[w] = "save_succeeded" THEN "succeeded" ELSE "failed")
  /\ SetStage(w, "poll")
  /\ held' = [held EXCEPT ![w] = None]
  /\ UNCHANGED <<performed, hasty, run>>

\* The save of a success fails, and the handler records a failure instead.
SaveRaises(w) ==
  /\ stage[w] = "save_succeeded"
  /\ Run!Fault
  /\ SetStage(w, "save_failed")
  /\ UNCHANGED <<job, held, performed, hasty>>
  /\ UNCHANGED <<status, active, cancelled, pc, result, overlapped, interfered>>

\* A worker process dies and is started again.
Crash(w) ==
  /\ Run!Crash(w)
  /\ SetStage(w, "poll")
  /\ held' = [held EXCEPT ![w] = None]
  /\ UNCHANGED <<job, performed, hasty>>

\* dispatch_cancel is not queued: the process that serves the user cancels.
Cancel(p) ==
  /\ Run!Cancel(p) \/ Run!CancelRolledBack(p)
  /\ UNCHANGED table

Work(w) == Claim(w) \/ Execute(w) \/ Perform(w) \/ Save(w)

Next ==
  \/ \E o \in Run!Operation : Enqueue(o)
  \/ \E w \in Worker : Work(w) \/ RecoverStale(w) \/ PerformRaises(w) \/ SaveRaises(w) \/ Crash(w)
  \/ \E p \in Web : Cancel(p)

Spec == Init /\ [][Next]_vars

\* Workers keep looping and their workflows come to an end.
FairSpec == /\ Spec
            /\ \A w \in Worker : WF_vars(Work(w)) /\ WF_vars(RecoverStale(w))
-----------------------------------------------------------------------------
(* Properties *)

TypeOK ==
  /\ Run!TypeOK
  /\ job \in [Job -> [op : Run!Operation, status : JobStatus] \cup {None}]
  /\ stage \in [Worker -> {"poll", "execute", "run", "save_succeeded", "save_failed"}]
  /\ held \in [Worker -> Job \cup {None}]
  /\ performed \in [Job -> Nat]
  /\ hasty \in BOOLEAN

\* The operation of a job is performed at most once, unless a worker failed
\* or the job was put back while its worker was alive.
PerformedOnce == ~hasty /\ faults = 0 => \A j \in Job : performed[j] <= 1

\* A finished job keeps its outcome, unless some job was put back while its
\* worker was alive.
OutcomeIsFinal ==
  [][\A j \in Job :
       /\ ~hasty
       /\ job[j] # None /\ job[j].status \in {"succeeded", "failed"}
       => job'[j] = job[j]]_vars

\* Worker mode is a way to run the lifecycle of RunLifecycle: workers, queue
\* and requeues add no step to it.
ImplementsLifecycle == Run!Spec

\* Every queued job is finished at last, whatever workers crash on the way.
JobsFinish ==
  \A j \in Job : (job[j] # None /\ job[j].status = "queued")
                 ~> (job[j] # None /\ job[j].status \in {"succeeded", "failed"})

\* Without faults, a run that is executed does not stay running.
RunningEnds == (status = "running" /\ faults = 0) ~> (status # "running" \/ faults > 0)

\* docs/runtime/EXECUTION_WORKER.md: "Cancellation remains an immediate
\* control-plane operation so an active cooperative execution can observe the
\* cancellation token".  An execution of a cancelled run has its token set.
CancellationObservable ==
  status = "cancelled" => \A w \in Worker : pc[w] = "invoke" => cancelled[w]
=============================================================================
