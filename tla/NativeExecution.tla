--------------------------- MODULE NativeExecution --------------------------
(***************************************************************************)
(* One execution of a Native workflow (native/__init__.py): the author's   *)
(* coroutine calls steps, one after the other or several at once, on an    *)
(* event loop; the functions of synchronous steps run in worker threads;   *)
(* a cancellation and the deadline come from outside at any moment.  What  *)
(* the steps do is recorded in a buffer, which is replayed into the event  *)
(* sink when the coroutine has ended.                                      *)
(*                                                                         *)
(* The event loop runs one coroutine at a time, up to its next await; turn *)
(* names the call that is between two awaits, and only the other threads   *)
(* take steps meanwhile.                                                   *)
(***************************************************************************)
EXTENDS Naturals, FiniteSets, Sequences

CONSTANTS
  Call,         \* the calls of ctx.step the author's coroutine may make
  Occurrence,   \* the subject_id of each call
  Sync,         \* the calls whose function is a synchronous one
  Timed,        \* the calls with a timeout_seconds of their own
  MaxAttempts,  \* RetryPolicy.max_attempts of each call
  MaxOccurrences, \* _MAX_STEP_OCCURRENCES
  None,
  MaxFaults     \* bound on the failures of the event sink

Subject == {Occurrence[c] : c \in Call}

ASSUME CallAssumption == /\ Occurrence \in [Call -> Subject]
                         /\ Sync \subseteq Call /\ Timed \subseteq Call
                         /\ MaxAttempts \in [Call -> Nat \ {0}] /\ MaxOccurrences \in Nat /\ MaxFaults \in Nat
                         /\ None \notin Call

VARIABLES
  cancelled,    \* the cancellation token
  expired,      \* the deadline has passed
  turn,         \* the call that runs on the event loop, or None
  subjects,     \* _subjects: the occurrences in use
  stage,        \* where each call is
  attempt,      \* its attempt
  outcome,      \* how its function has ended, until the call has looked at it
  running,      \* the function calls in progress: <<call, attempt>>
  buffer,       \* _observations.operations: [occ, attempt, of, status]
  main,         \* where the execution is
  open,         \* the spans of the event sink that are open: <<occurrence, attempt>>
  shown,        \* the step projection of each occurrence in the event sink, or None
  replayed,     \* how much of the buffer has been replayed
  faults,       \* failures of the event sink so far
  heard,        \* history: a check has raised
  late          \* history: those of running that nobody awaits, having been given up

steps == <<turn, subjects, stage, attempt, outcome, running, buffer, heard, late>>
sink == <<open, shown, replayed, faults>>
vars == <<cancelled, expired, steps, main, sink>>

Outcome == {"ok", "error", "cancelled", "timeout"}
Stage == {"new", "attempt", "call", "await", "resumed", "delay", "over", "abandoned"}
Status == {"running", "retrying", "failed", "succeeded"}

InProgress == {c \in Call : stage[c] \notin {"new", "over", "abandoned"}}

-----------------------------------------------------------------------------
(* The control token: WorkflowExecutionControl.check *)

\* Mutation: the check that raises clears the token.
StoppedOnce == cancelled /\ ~heard

Stopped == cancelled \/ expired
StopError == IF cancelled THEN "cancelled" ELSE "timeout"

\* Once the coroutine has ended nothing looks at the token any more.
Cancel ==
  /\ main = "running" /\ cancelled' = TRUE
  /\ UNCHANGED <<expired, steps, main, sink>>

Expire ==
  /\ main = "running" /\ expired' = TRUE
  /\ UNCHANGED <<cancelled, steps, main, sink>>

-----------------------------------------------------------------------------
(* A step, from its call to its end *)

Init ==
  /\ cancelled = FALSE /\ expired = FALSE
  /\ turn = None
  /\ subjects = {}
  /\ stage = [c \in Call |-> "new"]
  /\ attempt = [c \in Call |-> 0]
  /\ outcome = [c \in Call |-> None]
  /\ running = {}
  /\ buffer = <<>>
  /\ main = "running"
  /\ open = {}
  /\ shown = [o \in Subject |-> None]
  /\ replayed = 0
  /\ faults = 0
  /\ heard = FALSE /\ late = {}

Goto(c, s) == stage' = [stage EXCEPT ![c] = s]

\* The call returns or raises to the author's coroutine.
GoBack(c) ==
  /\ Goto(c, "over")
  /\ attempt' = [attempt EXCEPT ![c] = 0]
  /\ outcome' = [outcome EXCEPT ![c] = None]
  /\ turn' = None

\* A check of the token raises out of the call: nothing is recorded.
StopCall(c) ==
  /\ Stopped
  /\ GoBack(c)
  /\ heard' = TRUE

Observe(c, status) ==
  buffer' = Append(buffer, [occ |-> Occurrence[c], attempt |-> attempt[c],
                              of |-> MaxAttempts[c], status |-> status])

\* The loop is free, and the author's coroutine goes on.
Free == main = "running" /\ turn = None

\* Mutation: an occurrence may be used again.
Unused(c) == Cardinality(subjects) < MaxOccurrences

\* The occurrence of the call is not in use, and there is room for it.
Admissible(c) == Occurrence[c] \notin subjects /\ Cardinality(subjects) < MaxOccurrences

\* The author's coroutine calls step.
Enter(c) ==
  /\ Free /\ stage[c] = "new"
  /\ \/ /\ ~Admissible(c)
        /\ GoBack(c)
        /\ UNCHANGED <<subjects, heard>>
     \/ /\ Admissible(c)
        /\ StopCall(c)
        /\ UNCHANGED subjects
     \/ /\ Admissible(c) /\ ~Stopped
        /\ subjects' = subjects \cup {Occurrence[c]}
        /\ attempt' = [attempt EXCEPT ![c] = 1]
        /\ Goto(c, "attempt")
        /\ turn' = c
        /\ UNCHANGED <<outcome, heard>>
  /\ UNCHANGED <<cancelled, expired, running, buffer, late, main, sink>>

\* The head of the retry loop: check, and record the start of the attempt.
Attempt(c) ==
  /\ turn = c /\ stage[c] = "attempt"
  /\ \/ StopCall(c) /\ UNCHANGED buffer
     \/ /\ ~Stopped
        /\ Goto(c, "call")
        /\ Observe(c, "running")
        /\ UNCHANGED <<turn, attempt, outcome, heard>>
  /\ UNCHANGED <<cancelled, expired, subjects, running, late, main, sink>>

\* _effective_timeout raises when the deadline has passed; otherwise
\* _invoke_step calls the function, and the loop is free.
Invoke(c) ==
  /\ turn = c /\ stage[c] = "call"
  /\ \/ /\ expired
        /\ Goto(c, "resumed")
        /\ outcome' = [outcome EXCEPT ![c] = StopError]
        /\ heard' = TRUE
        /\ UNCHANGED <<turn, running>>
     \/ /\ ~expired
        /\ Goto(c, "await")
        /\ running' = running \cup {<<c, attempt[c]>>}
        /\ turn' = None
        /\ UNCHANGED <<outcome, heard>>
  /\ UNCHANGED <<cancelled, expired, subjects, attempt, buffer, late, main, sink>>

\* The function returns or raises.  One that nobody awaits any more, in its
\* worker thread, just ends.
FunctionEnds(r) ==
  LET c == r[1] IN
  /\ c \in Sync \/ turn = None
  /\ running' = running \ {r}
  /\ late' = late \ {r}
  /\ IF stage[c] = "await" /\ attempt[c] = r[2]
     THEN /\ Goto(c, "resumed")
          /\ \E e \in {"ok", "error"} : outcome' = [outcome EXCEPT ![c] = e]
     ELSE UNCHANGED <<stage, outcome>>
  /\ UNCHANGED <<cancelled, expired, turn, subjects, attempt, buffer, heard, main, sink>>

\* What is given up: the coroutine of an asynchronous function is cancelled,
\* the thread of a synchronous one runs on.
GiveUp(C) ==
  /\ running' = {r \in running : r[1] \in C => r[1] \in Sync}
  /\ late' = late \cup {r \in running : r[1] \in C \cap Sync}

\* Mutation: only the timeout a call asks for bounds it, not the deadline.
DueByRequest(c) == c \in Timed

\* The effective timeout of a call has passed: the one it asks for, or what
\* was left until the deadline.
Due(c) == c \in Timed \/ expired

\* asyncio.wait_for gives up.
TimeOut(c) ==
  /\ Free /\ stage[c] = "await"
  /\ Due(c)
  /\ GiveUp({c})
  /\ Goto(c, "resumed")
  /\ outcome' = [outcome EXCEPT ![c] = "timeout"]
  /\ UNCHANGED <<cancelled, expired, turn, subjects, attempt, buffer, heard, main, sink>>

\* Mutation: one attempt too many.
RetriesOnceMore(c, e) == e # "cancelled" /\ attempt[c] <= MaxAttempts[c]

\* RetryPolicy.should_retry; whether the exception is in retry_on is the
\* author's choice.
MayRetry(c, e) == e # "cancelled" /\ attempt[c] < MaxAttempts[c]

\* The call resumes after its function: check, record, and return, raise or
\* go on to the next attempt.
Resume(c) ==
  LET e == IF outcome[c] = "ok" /\ Stopped THEN StopError ELSE outcome[c] IN
  /\ main = "running" /\ turn \in {None, c} /\ stage[c] = "resumed"
  /\ heard' = (heard \/ e # outcome[c])
  /\ \/ /\ Observe(c, IF e = "ok" THEN "succeeded" ELSE "failed")
        /\ GoBack(c)
     \/ /\ e # "ok" /\ MayRetry(c, e)
        /\ Observe(c, "retrying")
        /\ Goto(c, "delay")
        /\ outcome' = [outcome EXCEPT ![c] = None]
        /\ turn' \in {None, c}          \* with or without a delay
        /\ UNCHANGED attempt
  /\ UNCHANGED <<cancelled, expired, subjects, running, late, main, sink>>

\* _retry_delay looks at the token now and then, and at its end.
Delay(c) ==
  /\ main = "running" /\ turn \in {None, c} /\ stage[c] = "delay"
  /\ \/ StopCall(c)
     \/ /\ ~Stopped
        /\ attempt' = [attempt EXCEPT ![c] = @ + 1]
        /\ Goto(c, "attempt")
        /\ turn' = c
        /\ UNCHANGED <<outcome, heard>>
  /\ UNCHANGED <<cancelled, expired, subjects, running, buffer, late, main, sink>>

\* The calls in C are cancelled by asyncio.  CancelledError is not an
\* Exception: the call ends without a record.
Abandoned(C) ==
  /\ GiveUp(C)
  /\ stage' = [c \in Call |-> IF c \in C THEN "abandoned" ELSE stage[c]]
  /\ attempt' = [c \in Call |-> IF c \in C THEN 0 ELSE attempt[c]]
  /\ outcome' = [c \in Call |-> IF c \in C THEN None ELSE outcome[c]]

\* The author gives up a call: a task group of which another call has failed,
\* or a timeout of the author's own.
Abandon(c) ==
  /\ Free /\ c \in InProgress
  /\ Abandoned({c})
  /\ UNCHANGED <<cancelled, expired, turn, subjects, buffer, heard, main, sink>>

\* The coroutine of the workflow returns or raises, and asyncio.run cancels
\* the calls it has left behind.
End ==
  /\ Free
  /\ Abandoned(InProgress)
  /\ main' = "draining"
  /\ UNCHANGED <<cancelled, expired, turn, subjects, buffer, heard, sink>>

\* asyncio.run waits for the worker threads, but not for ever
\* (THREAD_JOIN_TIMEOUT of the event loop).
Drain ==
  /\ main = "draining"
  /\ main' = "replaying"
  /\ UNCHANGED <<cancelled, expired, steps, sink>>

-----------------------------------------------------------------------------
(* The replay of the buffer *)

SinkMay(fails) == faults' = faults + fails /\ faults' <= MaxFaults

\* One operation: open or close the span of the attempt, then write the
\* projection of the step.  A failure of the sink is suppressed; a span that
\* did not open is not closed.
Replay ==
  LET o == buffer[replayed + 1]
      span == <<o.occ, o.attempt>> IN
  /\ main = "replaying" /\ replayed < Len(buffer)
  /\ replayed' = replayed + 1
  /\ \E spanFails, projectionFails \in {0, 1} :
       /\ SinkMay(spanFails + projectionFails)
       /\ spanFails = 1 => o.status = "running" \/ span \in open
       /\ open' = IF spanFails = 1 THEN open
                  ELSE IF o.status = "running" THEN open \cup {span} ELSE open \ {span}
       /\ shown' = IF projectionFails = 1 THEN shown ELSE [shown EXCEPT ![o.occ] = o.status]
  /\ UNCHANGED <<cancelled, expired, steps, main>>

\* Mutation: the buffer is replayed for a result, and not for an error.
ReturnUnreplayed ==
  /\ main = "replaying"
  /\ main' = "returned"
  /\ UNCHANGED <<cancelled, expired, steps, sink>>

\* execute returns the result or raises the error.
Return ==
  /\ main = "replaying" /\ replayed = Len(buffer)
  /\ main' = "returned"
  /\ UNCHANGED <<cancelled, expired, steps, sink>>

\* What the event loop does by itself with a call.
Proceed(c) == Attempt(c) \/ Invoke(c) \/ TimeOut(c) \/ Resume(c) \/ Delay(c)

Next ==
  \/ Cancel \/ Expire
  \/ \E c \in Call : Enter(c) \/ Proceed(c) \/ Abandon(c)
  \/ \E r \in running : FunctionEnds(r)
  \/ End \/ Drain \/ Replay \/ Return

Spec == Init /\ [][Next]_vars

\* The event loop, its timers and the replay go on; the author's coroutine
\* ends when its calls have.  No function of a step is assumed to end.
FairSpec ==
  /\ Spec
  /\ \A c \in Call : WF_vars(Proceed(c))
  /\ WF_vars(InProgress = {} /\ End) /\ WF_vars(Drain) /\ WF_vars(Replay) /\ WF_vars(Return)
-----------------------------------------------------------------------------
(* Properties *)

TypeOK ==
  /\ cancelled \in BOOLEAN /\ expired \in BOOLEAN
  /\ turn \in Call \cup {None}
  /\ subjects \subseteq Subject
  /\ stage \in [Call -> Stage]
  /\ attempt \in [Call -> Nat] /\ \A c \in Call : attempt[c] <= MaxAttempts[c]
  /\ outcome \in [Call -> Outcome \cup {None}]
  /\ running \subseteq Call \X Nat
  /\ buffer \in Seq([occ : Subject, attempt : Nat, of : Nat, status : Status])
  /\ main \in {"running", "draining", "replaying", "returned"}
  /\ open \subseteq Subject \X Nat
  /\ shown \in [Subject -> Status \cup {None}]
  /\ replayed \in 0..Len(buffer)
  /\ faults \in 0..MaxFaults
  /\ heard \in BOOLEAN /\ late \subseteq running

\* What the buffer has of one step.
Entries(o) == {i \in DOMAIN buffer : buffer[i].occ = o}

\* What is recorded next of a step: the end of the attempt that was opened, or
\* the opening of the one after an attempt that is retried.
Follows(p, e) ==
  \/ p.status = "running" /\ e.status # "running" /\ e.attempt = p.attempt
  \/ p.status = "retrying" /\ e.status = "running" /\ e.attempt = p.attempt + 1

\* The record of every step is that of one call: attempts numbered from 1, one
\* after the other and at most as many as the policy allows, each opened before it is
\* closed, and only the last one closed with a final status, however calls
\* interleave, time out, fail and are stopped.
HistoryIsOrderly ==
  \A o \in Subject : \A i \in Entries(o) :
    LET e == buffer[i] IN
    /\ e.attempt <= e.of /\ (e.status = "retrying" => e.attempt < e.of)
    /\ (\A j \in Entries(o) : i <= j) => e.status = "running" /\ e.attempt = 1
    /\ \A j \in Entries(o) :
         j < i /\ (\A k \in Entries(o) : k <= j \/ i <= k) => Follows(buffer[j], e)

\* A function that runs is awaited, by the one call of its occurrence, and no
\* other attempt of that occurrence runs beside it; the exceptions are the
\* threads of synchronous functions that were given up, by a timeout or with
\* their call.
FunctionsAreAwaited ==
  \A r \in running \ late :
    /\ stage[r[1]] = "await" /\ attempt[r[1]] = r[2]
    /\ \A q \in running \ late : Occurrence[q[1]] = Occurrence[r[1]] => q = r

\* Once a check has stopped one step, no function of any step is called.
StopIsHeeded == [][heard => running' \subseteq running]_vars

\* What the event sink shows in the end is what was recorded, also when the
\* execution has failed: the last status of every step, and the spans of
\* those attempts open that were never closed.
ShownIsRecorded ==
  LET Latest == {i \in DOMAIN buffer : \A j \in Entries(buffer[i].occ) : j <= i} IN
  main = "returned" /\ faults = 0 =>
    /\ \A i \in Latest : shown[buffer[i].occ] = buffer[i].status
    /\ \A o \in Subject : Entries(o) = {} => shown[o] = None
    /\ open = {<<buffer[i].occ, buffer[i].attempt>> : i \in {i \in Latest : buffer[i].status = "running"}}

\* The deadline ends an execution, even if no function of a step ever returns.
DeadlineEnds == expired ~> main = "returned"

\* docs/workflows/authoring/NATIVE_AUTHORING_USE_CASE_DESIGN.md: "Every Native
\* step automatically emits: ... started and terminal snapshots".  A step that
\* was started, and has returned or raised, is shown as succeeded or failed.
EndedStepsAreTerminal ==
  main = "returned" /\ faults = 0 =>
    \A o \in Subject :
      shown[o] \in {"running", "retrying"} =>
        \E c \in Call : Occurrence[c] = o /\ stage[c] = "abandoned"
=============================================================================
