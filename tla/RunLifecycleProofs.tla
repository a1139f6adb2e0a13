------------------------- MODULE RunLifecycleProofs -------------------------
(***************************************************************************)
(* Proofs about RunLifecycle, for every set of threads and processes and   *)
(* any number of faults.                                                   *)
(***************************************************************************)
EXTENDS RunLifecycle, TLAPS

-----------------------------------------------------------------------------
(* The inductive invariant *)

\* An execution that has ended has a result.
HasResult == \A t \in Thread : pc[t] \in {"finish", "complete"} => result[t] \in Result

\* Without an overlap one thread executes the run, and the status is what
\* its acceptance or a cancellation has made it.
Alone ==
  ~overlapped =>
    /\ \A t, u \in Working : t = u
    /\ \A t \in Working : status \in {"running", "cancelled"}

\* Without a cancellation on the way a run that is executed is running, which
\* no policy accepts.
Undisturbed == ~interfered => ~overlapped /\ \A t \in Working : status = "running"

\* The token of the only execution is the one its process has registered.
Registered ==
  ~overlapped =>
    \A t \in Thread : pc[t] \in {"invoke", "finish"} => active[Home[t]] = t

IInv == TypeOK /\ HasResult /\ Alone /\ Undisturbed /\ Registered /\ OrphanOnlyByFault

-----------------------------------------------------------------------------
(* Every action keeps the invariant *)

LEMMA InitEstablishes == Init => IInv
<1>1. SUFFICES ASSUME Init PROVE IInv
  OBVIOUS
<1>2. TypeOK
  BY <1>1 DEF Init, TypeOK, RunStatus
<1>3. HasResult /\ Alone /\ Undisturbed /\ Registered /\ OrphanOnlyByFault
  BY <1>1 DEF Init, HasResult, Alone, Undisturbed, Registered, OrphanOnlyByFault, Working
<1>4. QED BY <1>2, <1>3 DEF IInv

\* Every step keeps the types and the results of ended executions.
LEMMA NextTyped ==
  ASSUME TypeOK, HasResult, [Next]_vars
  PROVE  TypeOK' /\ HasResult'
<1>1. ASSUME NEW t \in Thread, NEW o \in Operation, Accept(t, o)
      PROVE  TypeOK' /\ HasResult'
  BY <1>1 DEF TypeOK, HasResult, Accept, Goto, RunStatus
<1>2. ASSUME NEW t \in Thread, Progress(t)
      PROVE  TypeOK' /\ HasResult'
  <2>1. CASE Prepare(t) \/ FinishControl(t)
    BY <2>1 DEF TypeOK, HasResult, Prepare, FinishControl, Goto, history
  <2>2. CASE BeginControl(t)
    BY <2>2, HomeAssumption DEF TypeOK, HasResult, BeginControl, Goto, history
  <2>3. CASE Invoke(t)
    BY <2>3 DEF TypeOK, HasResult, Invoke, Goto, history
  <2>4. QED BY <1>2, <2>1, <2>2, <2>3 DEF Progress
<1>3. ASSUME NEW t \in Thread, Return(t) \/ Raise(t)
      PROVE  TypeOK' /\ HasResult'
  <2>1. status' \in RunStatus
    BY <1>3 DEF TypeOK, HasResult, Return, BuildFailure, Complete, Raise, history, RunStatus, Result
  <2>2. Leave({t}) /\ faults' \in Nat /\ UNCHANGED <<active, history>>
    BY <1>3 DEF TypeOK, Return, BuildFailure, Complete, Raise, Fault, history
  <2>3. pc' \in [Thread -> {"idle", "prepare", "begin", "invoke", "finish", "complete"}]
    BY <2>2 DEF TypeOK, Leave
  <2>4. result' \in [Thread -> Result \cup {None}] /\ cancelled' \in [Thread -> BOOLEAN]
    BY <2>2 DEF TypeOK, Leave
  <2>5. HasResult'
    BY <2>2 DEF HasResult, Leave
  <2>6. QED BY <2>1, <2>2, <2>3, <2>4, <2>5 DEF TypeOK, history
<1>4. ASSUME NEW p \in Process, Cancel(p) \/ CancelRolledBack(p)
      PROVE  TypeOK' /\ HasResult'
  <2>1. status' \in RunStatus /\ faults' \in Nat
    BY <1>4 DEF TypeOK, Cancel, CancelRolledBack, Fault, history, RunStatus, Result
  <2>2. interfered' \in BOOLEAN
    BY <1>4 DEF TypeOK, Cancel, CancelRolledBack, history
  <2>3. cancelled' \in [Thread -> BOOLEAN]
    BY <1>4 DEF Cancel, CancelRolledBack, RequestCancellation
  <2>4. UNCHANGED <<active, pc, result, overlapped>>
    BY <1>4 DEF Cancel, CancelRolledBack, history
  <2>5. QED BY <2>1, <2>2, <2>3, <2>4 DEF TypeOK, HasResult
<1>5. ASSUME NEW p \in Process, Crash(p)
      PROVE  TypeOK' /\ HasResult'
  BY <1>5 DEF TypeOK, HasResult, Crash, Fault, Leave, history
<1>6. QED
  BY <1>1, <1>2, <1>3, <1>4, <1>5 DEF Next, vars, TypeOK, HasResult

\* A new operation is accepted only of a run that nobody executes or that was
\* cancelled in the meantime.
LEMMA AcceptKeeps ==
  ASSUME IInv, NEW t \in Thread, NEW o \in Operation, Accept(t, o)
  PROVE  Alone' /\ Undisturbed' /\ Registered' /\ OrphanOnlyByFault'
<1>1. /\ pc[t] = "idle" /\ status # "running" /\ status' = "running"
      /\ overlapped' = (overlapped \/ Working # {})
      /\ pc' = [pc EXCEPT ![t] = "prepare"]
      /\ UNCHANGED <<active, interfered>>
  BY DEF Accept, Allowed, Goto
<1>2. Working' = Working \cup {t}
  BY <1>1 DEF IInv, TypeOK, Working
<1>3. ~overlapped' => Working' = {t}
  BY <1>1, <1>2
<1>4. Alone' /\ OrphanOnlyByFault'
  BY <1>1, <1>2, <1>3 DEF Alone, OrphanOnlyByFault
<1>5. Undisturbed'
  BY <1>1, <1>2 DEF IInv, Undisturbed
<1>6. Registered'
  BY <1>1, <1>3 DEF IInv, TypeOK, Registered, Working
<1>7. QED BY <1>4, <1>5, <1>6

\* The steps of an execution change neither who executes nor the status.
LEMMA ProgressKeeps ==
  ASSUME IInv, NEW t \in Thread, Progress(t)
  PROVE  Alone' /\ Undisturbed' /\ Registered' /\ OrphanOnlyByFault'
<1>1. /\ Working' = Working /\ t \in Working
      /\ UNCHANGED <<status, faults, overlapped, interfered>>
  BY DEF IInv, TypeOK, Progress, Prepare, BeginControl, Invoke, FinishControl, Goto,
         Working, history
<1>2. Alone' /\ Undisturbed' /\ OrphanOnlyByFault'
  BY <1>1 DEF IInv, Alone, Undisturbed, OrphanOnlyByFault
<1>3. Registered'
  <2>1. SUFFICES ASSUME ~overlapped, NEW u \in Thread, pc'[u] \in {"invoke", "finish"}
                 PROVE  active'[Home[u]] = u
    BY <1>1 DEF Registered
  <2>2. u = t
    BY <1>1, <2>1 DEF IInv, Alone, Working
  <2>3. CASE BeginControl(t)
    BY <2>2, <2>3, HomeAssumption DEF BeginControl, IInv, TypeOK
  <2>4. CASE Invoke(t)
    BY <2>1, <2>2, <2>4 DEF Invoke, IInv, Registered
  <2>5. CASE Prepare(t) \/ FinishControl(t)
    BY <2>1, <2>2, <2>5 DEF Prepare, FinishControl, Goto, IInv, TypeOK
  <2>6. QED BY <2>3, <2>4, <2>5 DEF Progress
<1>4. QED BY <1>2, <1>3

\* Threads that leave without writing a result do so by a fault.
LEMMA LeaveKeeps ==
  ASSUME IInv, NEW T \in SUBSET Thread, Leave(T), faults' > 0,
         UNCHANGED <<status, overlapped, interfered>>,
         \A t \in Thread \ T : active'[Home[t]] = active[Home[t]]
  PROVE  Alone' /\ Undisturbed' /\ Registered' /\ OrphanOnlyByFault'
<1>1. Working' = Working \ T
  BY DEF Leave, Working
<1>2. Alone' /\ Undisturbed' /\ OrphanOnlyByFault'
  BY <1>1 DEF IInv, Alone, Undisturbed, OrphanOnlyByFault
<1>3. Registered'
  BY DEF IInv, Registered, Leave
<1>4. QED BY <1>2, <1>3

\* A thread that writes its result leaves, and the run is not running.
LEMMA ReturnKeeps ==
  ASSUME IInv, NEW t \in Thread, Return(t)
  PROVE  Alone' /\ Undisturbed' /\ Registered' /\ OrphanOnlyByFault'
<1>1. /\ t \in Working /\ Working' = Working \ {t} /\ Leave({t})
      /\ UNCHANGED <<active, faults, overlapped, interfered>>
  BY DEF Return, BuildFailure, Complete, Leave, Working, history
<1>2. status' # "running"
  BY DEF IInv, HasResult, Return, BuildFailure, Complete, Result
<1>3. ~overlapped => Working' = {}
  BY <1>1 DEF IInv, Alone
<1>4. Alone' /\ Undisturbed' /\ OrphanOnlyByFault'
  BY <1>1, <1>2, <1>3 DEF IInv, Alone, Undisturbed, OrphanOnlyByFault
<1>5. Registered'
  BY <1>1 DEF IInv, Registered, Leave
<1>6. QED BY <1>4, <1>5

LEMMA CancelKeeps ==
  ASSUME IInv, NEW p \in Process, Cancel(p) \/ CancelRolledBack(p)
  PROVE  Alone' /\ Undisturbed' /\ Registered' /\ OrphanOnlyByFault'
<1>1. Working' = Working /\ UNCHANGED <<active, pc, overlapped>>
  BY DEF Cancel, CancelRolledBack, Working, history
<1>2. CASE Cancel(p)
  <2>1. status' = "cancelled" /\ interfered' = (interfered \/ Working # {})
    BY <1>2 DEF Cancel
  <2>2. Alone' /\ OrphanOnlyByFault'
    BY <1>1, <2>1 DEF IInv, Alone, OrphanOnlyByFault
  <2>3. Undisturbed'
    BY <1>1, <2>1 DEF IInv, Undisturbed
  <2>4. Registered'
    BY <1>1 DEF IInv, Registered
  <2>5. QED BY <2>2, <2>3, <2>4
<1>3. CASE CancelRolledBack(p)
  BY <1>1, <1>3, FaultAssumption
  DEF IInv, TypeOK, CancelRolledBack, Fault, Alone, Undisturbed, Registered, OrphanOnlyByFault, history
<1>4. QED BY <1>2, <1>3

LEMMA NextKeeps == IInv /\ [Next]_vars => IInv'
<1>1. SUFFICES ASSUME IInv, [Next]_vars PROVE IInv'
  OBVIOUS
<1>2. TypeOK' /\ HasResult'
  BY <1>1, NextTyped DEF IInv
<1>3. ASSUME NEW t \in Thread, Raise(t)
      PROVE  Alone' /\ Undisturbed' /\ Registered' /\ OrphanOnlyByFault'
  <2>1. /\ Leave({t}) /\ faults' > 0
        /\ UNCHANGED <<status, active, overlapped, interfered>>
    BY <1>1, <1>3 DEF Raise, Fault, history, IInv, TypeOK
  <2>2. QED BY <1>1, <2>1, LeaveKeeps
<1>4. ASSUME NEW p \in Process, Crash(p)
      PROVE  Alone' /\ Undisturbed' /\ Registered' /\ OrphanOnlyByFault'
  <2>1. /\ Leave({t \in Thread : Home[t] = p}) /\ faults' > 0
        /\ UNCHANGED <<status, overlapped, interfered>>
        /\ active' = [active EXCEPT ![p] = None]
    BY <1>1, <1>4 DEF Crash, Fault, history, IInv, TypeOK
  <2>2. \A t \in Thread : Home[t] # p => active'[Home[t]] = active[Home[t]]
    BY <1>1, <2>1, HomeAssumption DEF IInv, TypeOK
  <2>3. QED BY <1>1, <2>1, <2>2, LeaveKeeps
<1>5. CASE UNCHANGED vars
  <2>1. Working' = Working
    BY <1>5 DEF vars, Working
  <2>2. Alone' /\ Undisturbed' /\ OrphanOnlyByFault'
    BY <1>1, <1>5, <2>1 DEF IInv, vars, Alone, Undisturbed, OrphanOnlyByFault
  <2>3. Registered'
    BY <1>1, <1>5 DEF IInv, vars, Registered
  <2>4. QED BY <1>2, <2>2, <2>3 DEF IInv
<1>6. QED
  BY <1>1, <1>2, <1>3, <1>4, <1>5, AcceptKeeps, ProgressKeeps, ReturnKeeps, CancelKeeps
  DEF Next, IInv

-----------------------------------------------------------------------------
(* The theorems *)

\* The inductive invariant holds of every reachable state.
THEOREM Invariance == Spec => []IInv
<1>1. QED BY InitEstablishes, NextKeeps, PTL DEF Spec

\* Every variable keeps to its type: in particular a run's status is always
\* one of the seven.
THEOREM TypeCorrect == Spec => []TypeOK
<1>1. QED BY Invariance, PTL DEF IInv

\* However many threads and processes operate on a run, two executions
\* overlap only after a cancellation was accepted during one of them.
THEOREM Exclusion == Spec => []OverlapNeedsCancel
<1>1. IInv => OverlapNeedsCancel
  BY DEF IInv, Undisturbed, OverlapNeedsCancel
<1>2. QED BY <1>1, Invariance, PTL

\* A run that is left running with nobody executing it has met a fault.
THEOREM NoOrphan == Spec => []OrphanOnlyByFault
<1>1. QED BY Invariance, PTL DEF IInv

\* A success is not overwritten while executions do not overlap.
THEOREM SuccessIsFinal == Spec => SucceededIsFinal
<1>1. ASSUME IInv, [Next]_vars, status = "succeeded", ~overlapped
      PROVE  status' = "succeeded"
  <2>1. \A t \in Thread : pc[t] = "idle"
    BY <1>1 DEF IInv, Alone, Working
  <2>2. QED
    BY <1>1, <2>1 DEF Next, vars, Accept, Allowed, Progress, Prepare, BeginControl, Invoke,
       FinishControl, Return, BuildFailure, Complete, Raise, Cancel, CancelRolledBack, Crash
<1>2. QED BY <1>1, Invariance, PTL DEF Spec, SucceededIsFinal

\* A cancellation in the process of the only execution sets its token.
THEOREM CancelIsHeard == Spec => CancelHeardAtHome
<1>1. ASSUME IInv, NEW p \in Process, NEW t \in Thread,
             Cancel(p), Home[t] = p, pc[t] = "invoke", ~overlapped
      PROVE  cancelled'[t]
  BY <1>1 DEF IInv, Registered, Cancel, RequestCancellation
<1>2. IInv /\ [Next]_vars =>
        [\A p \in Process, t \in Thread :
           Cancel(p) /\ Home[t] = p /\ pc[t] = "invoke" /\ ~overlapped
           => cancelled'[t]]_vars
  BY <1>1
<1>3. QED BY <1>2, Invariance, PTL DEF Spec, CancelHeardAtHome
=============================================================================
