---------------------------- MODULE RunLifecycle ----------------------------
(***************************************************************************)
(* The life of one Run of the Django control plane: the operations of      *)
(* services/runs.py (start, resume, retry, cancel), the dispatch of        *)
(* services/execution.py and the process-local cancellation tokens of      *)
(* services/execution_control.py.                                          *)
(*                                                                         *)
(* An operation is three separate pieces of work: a transaction that       *)
(* checks the policy and sets the status to running, the execution of the  *)
(* workflow with no lock held, and a second transaction that writes the    *)
(* result.  Each transaction locks the row of the run and is one step;     *)
(* everything else of this run may happen between two steps.               *)
(***************************************************************************)
EXTENDS Naturals, FiniteSets

CONSTANTS
  Thread,       \* threads that execute operations on the run
  Process,      \* operating-system processes; each has its own token registry
  Home,         \* the process of each thread
  None,         \* no token, no result
  MaxFaults     \* bound on the crashes and unexpected errors of a behaviour

ASSUME HomeAssumption == Home \in [Thread -> Process]
ASSUME FaultAssumption == MaxFaults \in Nat
ASSUME NoneAssumption == None \notin Thread

VARIABLES
  status,       \* Run.status
  active,       \* execution_control._active[run] of each process: the thread whose token is registered
  cancelled,    \* the Event of each thread's token
  pc,           \* where each thread is
  result,       \* the status its execution ended with, or None
  faults,       \* crashes and unexpected errors so far
  overlapped,   \* history: two threads have executed the run at the same time
  interfered    \* history: a cancellation was accepted during an execution

vars == <<status, active, cancelled, pc, result, faults, overlapped, interfered>>
history == <<overlapped, interfered>>

Operation == {"start", "resume", "retry"}
Result == {"waiting", "succeeded", "failed", "timed_out", "cancelled"}
RunStatus == {"pending", "running"} \cup Result

\* Threads between the two transactions of an operation.
Working == {t \in Thread : pc[t] # "idle"}

-----------------------------------------------------------------------------
(* Steps *)

Init ==
  /\ status = "pending"
  /\ active = [p \in Process |-> None]
  /\ cancelled = [t \in Thread |-> FALSE]
  /\ pc = [t \in Thread |-> "idle"]
  /\ result = [t \in Thread |-> None]
  /\ faults = 0
  /\ overlapped = FALSE /\ interfered = FALSE

Goto(t, stage) == pc' = [pc EXCEPT ![t] = stage]

\* The operation is over for the threads T, and their locals are gone.
Leave(T) ==
  /\ pc' = [t \in Thread |-> IF t \in T THEN "idle" ELSE pc[t]]
  /\ result' = [t \in Thread |-> IF t \in T THEN None ELSE result[t]]
  /\ cancelled' = [t \in Thread |-> cancelled[t] /\ t \notin T]

Fault == faults < MaxFaults /\ faults' = faults + 1

\* Mutation: only a run that is being executed is refused.
UnlessRunning(o) == o \in Operation /\ status # "running"

\* policies/runs.py: can_start_run, can_resume_run, can_retry_run.
Allowed(o) ==
  \/ o = "start" /\ status = "pending"
  \/ o = "resume" /\ status = "waiting"
  \/ o = "retry" /\ status \in {"failed", "timed_out", "cancelled"}

\* Mutation: the policy is not checked again on the locked row.
AcceptUnchecked(t, o) ==
  /\ pc[t] = "idle"
  /\ o \in Operation
  /\ status' = "running"
  /\ overlapped' = (overlapped \/ Working # {})
  /\ Goto(t, "prepare")
  /\ UNCHANGED <<active, cancelled, result, faults, interfered>>

\* The first transaction of start_run, resume_run or retry_run.
Accept(t, o) ==
  /\ pc[t] = "idle"
  /\ Allowed(o)
  /\ status' = "running"
  /\ overlapped' = (overlapped \/ Working # {})
  /\ Goto(t, "prepare")
  /\ UNCHANGED <<active, cancelled, result, faults, interfered>>

Prepare(t) ==
  /\ pc[t] = "prepare"
  /\ Goto(t, "begin")
  /\ UNCHANGED <<status, active, cancelled, result, faults, history>>

\* Mutation: a workflow that cannot be built is reported to the caller only.
BuildFailureUnrecorded(t) ==
  /\ pc[t] = "prepare"
  /\ Leave({t})
  /\ UNCHANGED <<status, active, faults, history>>

\* _handle_runtime_build_failure: the workflow cannot be prepared; the run
\* has failed, whatever its status is by now.
BuildFailure(t) ==
  /\ pc[t] = "prepare"
  /\ status' = "failed"
  /\ Leave({t})
  /\ UNCHANGED <<active, faults, history>>

\* Mutation: the token is handed to the workflow and not registered.
BeginUnregistered(t) ==
  /\ pc[t] = "begin"
  /\ cancelled' = [cancelled EXCEPT ![t] = FALSE]
  /\ Goto(t, "invoke")
  /\ UNCHANGED <<status, active, result, faults, history>>

\* begin_execution_control: a new token, which replaces whatever this process
\* had registered for the run.
BeginControl(t) ==
  /\ pc[t] = "begin"
  /\ active' = [active EXCEPT ![Home[t]] = t]
  /\ cancelled' = [cancelled EXCEPT ![t] = FALSE]
  /\ Goto(t, "invoke")
  /\ UNCHANGED <<status, result, faults, history>>

\* Mutation: an execution result without a status is passed on as it is.
InvokeWithoutStatus(t) ==
  /\ pc[t] = "invoke"
  /\ Goto(t, "finish")
  /\ UNCHANGED <<status, active, cancelled, result, faults, history>>

\* The workflow returns or raises; it ends as cancelled only when it looks at
\* its token after a cancellation reached it.
Invoke(t) ==
  /\ pc[t] = "invoke"
  /\ \E r \in Result :
       /\ r = "cancelled" => cancelled[t]
       /\ result' = [result EXCEPT ![t] = r]
  /\ Goto(t, "finish")
  /\ UNCHANGED <<status, active, cancelled, faults, history>>

\* finish_execution_control: drop the registration of the run, whosever it is.
FinishControl(t) ==
  /\ pc[t] = "finish"
  /\ active' = [active EXCEPT ![Home[t]] = None]
  /\ Goto(t, "complete")
  /\ UNCHANGED <<status, cancelled, result, faults, history>>

\* _complete_action, the second transaction: write the result, whatever the
\* status is by now.
Complete(t) ==
  /\ pc[t] = "complete"
  /\ status' = result[t]
  /\ Leave({t})
  /\ UNCHANGED <<active, faults, history>>

\* request_cancellation, in the process that serves the request: set the
\* Event of the token registered there, if any.
RequestCancellation(p) ==
  cancelled' = [t \in Thread |-> cancelled[t] \/ active[p] = t]

\* cancel_run, one transaction.
Cancel(p) ==
  /\ status \in {"pending", "running", "waiting"}
  /\ RequestCancellation(p)
  /\ status' = "cancelled"
  /\ interfered' = (interfered \/ Working # {})
  /\ UNCHANGED <<active, pc, result, faults, overlapped>>

\* The transaction of cancel_run is rolled back after the token was set.
CancelRolledBack(p) ==
  /\ status \in {"pending", "running", "waiting"}
  /\ Fault
  /\ RequestCancellation(p)
  /\ UNCHANGED <<status, active, pc, result, history>>

\* An error nothing expects: in the preparation of the workflow, one that is
\* neither a configuration nor a framework error; in a second transaction, an
\* error of the database.  The caller gets the exception, the run keeps its
\* status.
Raise(t) ==
  /\ pc[t] \in {"prepare", "complete"}
  /\ Fault
  /\ Leave({t})
  /\ UNCHANGED <<status, active, history>>

\* A process dies, with its threads and its tokens.
Crash(p) ==
  /\ Fault
  /\ Leave({t \in Thread : Home[t] = p})
  /\ active' = [active EXCEPT ![p] = None]
  /\ UNCHANGED <<status, history>>

\* The steps of an accepted operation.
Progress(t) == Prepare(t) \/ BeginControl(t) \/ Invoke(t) \/ FinishControl(t)
Return(t) == BuildFailure(t) \/ Complete(t)

Next ==
  \/ \E t \in Thread : \/ \E o \in Operation : Accept(t, o)
                       \/ Progress(t) \/ Return(t) \/ Raise(t)
  \/ \E p \in Process : Cancel(p) \/ CancelRolledBack(p) \/ Crash(p)

Spec == Init /\ [][Next]_vars
-----------------------------------------------------------------------------
(* Properties *)

TypeOK ==
  /\ status \in RunStatus
  /\ active \in [Process -> Thread \cup {None}]
  /\ cancelled \in [Thread -> BOOLEAN]
  /\ pc \in [Thread -> {"idle", "prepare", "begin", "invoke", "finish", "complete"}]
  /\ result \in [Thread -> Result \cup {None}]
  /\ faults \in Nat
  /\ overlapped \in BOOLEAN /\ interfered \in BOOLEAN

\* The row lock and the policies keep a run to one execution at a time,
\* through pauses, failures, retries and crashes: only a cancellation
\* accepted while the run was being executed lets a second one in.
OverlapNeedsCancel == overlapped => interfered

\* A run that has succeeded keeps its result, unless two executions of it
\* overlapped.
SucceededIsFinal ==
  [][status = "succeeded" /\ ~overlapped => status' = "succeeded"]_vars

\* A cancellation served by the process that executes the run reaches the
\* token of the execution, as long as executions have not overlapped: no
\* earlier operation has left a token behind or taken this one away.
CancelHeardAtHome ==
  [][\A p \in Process, t \in Thread :
       Cancel(p) /\ Home[t] = p /\ pc[t] = "invoke" /\ ~overlapped
       => cancelled'[t]]_vars

\* A run is left running with nobody executing it only by a crash or an
\* unexpected error.
OrphanOnlyByFault == status = "running" /\ Working = {} => faults > 0
=============================================================================
