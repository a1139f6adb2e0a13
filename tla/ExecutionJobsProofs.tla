------------------------- MODULE ExecutionJobsProofs ------------------------
(***************************************************************************)
(* Proofs about ExecutionJobs, for every set of workers, web processes and *)
(* jobs and any number of faults: worker mode adds no step to the life of  *)
(* a run, so what RunLifecycleProofs shows holds of it; and what the queue *)
(* guarantees about a job.                                                 *)
(***************************************************************************)
EXTENDS ExecutionJobs, TLAPS

\* The theorems about the lifecycle, of the threads and processes of Run.
Life == INSTANCE RunLifecycleProofs WITH
          Thread <- Worker, Process <- Worker \cup Web, Home <- [w \in Worker |-> w]

-----------------------------------------------------------------------------
(* The inductive invariant *)

\* No execution is registered in a process that only serves users.
NoTokenInWeb == \A p \in Web : active[p] = None

TableTyped ==
  /\ job \in [Job -> [op : Run!Operation, status : JobStatus] \cup {None}]
  /\ stage \in [Worker -> {"poll", "execute", "run", "save_succeeded", "save_failed"}]
  /\ held \in [Worker -> Job \cup {None}]
  /\ performed \in [Job -> Nat]
  /\ hasty \in BOOLEAN

\* A worker that is not polling has a job in hand, and its row exists.
Holding ==
  \A w \in Worker :
    /\ stage[w] = "poll" <=> held[w] = None
    /\ held[w] # None => job[held[w]] # None

\* Until a job is put back while its worker is alive, a job in hand is
\* claimed and in no other hand.
Exclusive ==
  ~hasty =>
    /\ \A w \in Worker : held[w] # None => job[held[w]].status = "claimed"
    /\ \A v, w \in Worker : held[v] # None /\ held[v] = held[w] => v = w

\* Until then, and without faults, a claimed job is in some hand; and only a
\* job that has left the queue, and whose worker has got past the acceptance,
\* has been performed.
Fresh(j) ==
  \/ job[j] = None
  \/ job[j] # None /\ job[j].status = "queued"
  \/ \E w \in Worker : held[w] = j /\ stage[w] = "execute"

Accounted ==
  ~hasty /\ faults = 0 =>
    \A j \in Job :
      /\ job[j] # None /\ job[j].status = "claimed" => \E w \in Worker : held[w] = j
      /\ Fresh(j) => performed[j] = 0
      /\ performed[j] <= 1

IInv == Life!IInv /\ NoTokenInWeb /\ TableTyped /\ Holding /\ Exclusive /\ Accounted

-----------------------------------------------------------------------------
(* The steps of the run *)

\* Both instances say the same of the run.
LEMMA SameLifecycle ==
  /\ Run!Init <=> Life!Init
  /\ [Run!Next]_(Run!vars) <=> [Life!Next]_(Life!vars)
  /\ Run!TypeOK <=> Life!TypeOK
<1>1. Run!Init <=> Life!Init
  BY DEF Run!Init, Life!Init
<1>2. Run!TypeOK <=> Life!TypeOK
  BY DEF Run!TypeOK, Life!TypeOK, Run!RunStatus, Life!RunStatus, Run!Result, Life!Result
<1>3. ASSUME NEW t \in Worker
      PROVE  /\ \A o : Run!Accept(t, o) <=> Life!Accept(t, o)
             /\ Run!Progress(t) <=> Life!Progress(t)
             /\ Run!Return(t) <=> Life!Return(t)
             /\ Run!Raise(t) <=> Life!Raise(t)
  <2>1. \A o : Run!Accept(t, o) <=> Life!Accept(t, o)
    BY DEF Run!Accept, Life!Accept, Run!Allowed, Life!Allowed, Run!Goto, Life!Goto,
           Run!Working, Life!Working
  <2>2. Run!Progress(t) <=> Life!Progress(t)
    BY DEF Run!Progress, Life!Progress, Run!Prepare, Life!Prepare, Run!BeginControl,
           Life!BeginControl, Run!Invoke, Life!Invoke, Run!FinishControl, Life!FinishControl,
           Run!Goto, Life!Goto, Run!history, Life!history, Run!Result, Life!Result
  <2>3. (Run!Return(t) <=> Life!Return(t)) /\ (Run!Raise(t) <=> Life!Raise(t))
    BY DEF Run!Return, Life!Return, Run!BuildFailure, Life!BuildFailure, Run!Complete,
           Life!Complete, Run!Raise, Life!Raise, Run!Fault, Life!Fault, Run!Leave, Life!Leave,
           Run!history, Life!history
  <2>4. QED BY <2>1, <2>2, <2>3
<1>4. ASSUME NEW p \in Worker \cup Web
      PROVE  (Run!Cancel(p) \/ Run!CancelRolledBack(p) \/ Run!Crash(p))
             <=> (Life!Cancel(p) \/ Life!CancelRolledBack(p) \/ Life!Crash(p))
  BY DEF Run!Cancel, Life!Cancel, Run!CancelRolledBack, Life!CancelRolledBack, Run!Crash,
         Life!Crash, Run!RequestCancellation, Life!RequestCancellation, Run!Fault, Life!Fault,
         Run!Leave, Life!Leave, Run!history, Life!history, Run!Working, Life!Working
<1>5. Run!vars = Life!vars /\ Run!Operation = Life!Operation
  BY DEF Run!vars, Life!vars, Run!Operation, Life!Operation
<1>6. [Run!Next]_(Run!vars) <=> [Life!Next]_(Life!vars)
  BY <1>3, <1>4, <1>5 DEF Run!Next, Life!Next, Run!vars, Life!vars
<1>7. QED BY <1>1, <1>2, <1>6

LEMMA LifeAssumptions == Life!HomeAssumption /\ Life!FaultAssumption /\ Life!NoneAssumption
<1>1. Life!HomeAssumption
  BY DEF Life!HomeAssumption
<1>2. Life!FaultAssumption
  BY FaultAssumption DEF Life!FaultAssumption
<1>3. Life!NoneAssumption
  BY NoneAssumption DEF Life!NoneAssumption
<1>4. QED BY <1>1, <1>2, <1>3

\* An error of saving a job is to the run what the crash of a process is that
\* executes nothing.
LEMMA SaveRaisesMaps ==
  ASSUME Life!TypeOK, NoTokenInWeb, NEW w \in Worker, SaveRaises(w)
  PROVE  Run!Next
<1>1. PICK p \in Web : TRUE
  BY WorkerAssumption
<1>2. {t \in Worker : [v \in Worker |-> v][t] = p} = {}
  BY WorkerAssumption
<1>3. Run!Leave({})
  <2>1. UNCHANGED <<pc, result, cancelled>>
    BY DEF SaveRaises
  <2>2. pc = [t \in Worker |-> pc[t]] /\ result = [t \in Worker |-> result[t]]
    BY DEF Life!TypeOK
  <2>3. cancelled = [t \in Worker |-> cancelled[t] /\ t \notin {}]
    BY DEF Life!TypeOK
  <2>4. QED BY <2>1, <2>2, <2>3 DEF Run!Leave
<1>4. active' = [active EXCEPT ![p] = None]
  BY DEF SaveRaises, NoTokenInWeb, Life!TypeOK
<1>5. Run!Crash(p)
  BY <1>2, <1>3, <1>4 DEF SaveRaises, Run!Crash, Run!history
<1>6. QED BY <1>5 DEF Run!Next

\* Every step of the workers and of the queue is a step of the run, or none.
LEMMA StepMaps ==
  ASSUME Life!TypeOK, NoTokenInWeb, [Next]_vars
  PROVE  [Run!Next]_(Run!vars)
<1>1. ASSUME UNCHANGED run PROVE UNCHANGED Run!vars
  BY <1>1 DEF run, Run!vars
<1>2. ASSUME NEW w \in Worker, Execute(w)
      PROVE  [Run!Next]_(Run!vars)
  <2>1. CASE UNCHANGED run
    BY <1>1, <2>1
  <2>2. CASE Run!Allowed(job[held[w]].op)
    <3>1. Run!Accept(w, job[held[w]].op) /\ job[held[w]].op \in Run!Operation
      BY <1>2, <2>2 DEF Execute, Run!Allowed, Run!Operation
    <3>2. QED BY <3>1 DEF Run!Next
  <2>3. QED BY <1>2, <2>1, <2>2 DEF Execute
<1>3. ASSUME NEW w \in Worker, Perform(w) \/ PerformRaises(w) \/ Crash(w)
      PROVE  Run!Next
  BY <1>3 DEF Perform, PerformRaises, Crash, Run!Next
<1>4. ASSUME NEW p \in Web, Cancel(p)
      PROVE  Run!Next
  BY <1>4 DEF Cancel, Run!Next
<1>5. ASSUME (\E o \in Run!Operation : Enqueue(o)) \/ (\E w \in Worker : Claim(w) \/ Save(w) \/ RecoverStale(w)) \/ UNCHANGED vars
      PROVE  UNCHANGED run
  BY <1>5 DEF Enqueue, Claim, Save, RecoverStale, vars
<1>6. QED
  BY <1>1, <1>2, <1>3, <1>4, <1>5, SaveRaisesMaps DEF Next, Work

-----------------------------------------------------------------------------
(* Every step keeps the invariant *)

LEMMA InitEstablishes == Init => IInv
<1>1. SUFFICES ASSUME Init PROVE IInv
  OBVIOUS
<1>2. Life!IInv
  <2>1. Life!Init
    BY <1>1, SameLifecycle DEF Init
  <2>2. QED BY <2>1, LifeAssumptions, Life!InitEstablishes DEF Life!InitEstablishes
<1>3. NoTokenInWeb
  BY <1>1 DEF Init, Run!Init, NoTokenInWeb
<1>4. TableTyped /\ Holding /\ Exclusive /\ Accounted
  <2>1. /\ \A j \in Job : job[j] = None /\ performed[j] = 0
        /\ \A w \in Worker : stage[w] = "poll" /\ held[w] = None
    BY <1>1 DEF Init
  <2>2. TableTyped
    BY <1>1 DEF Init, TableTyped
  <2>3. Holding /\ Exclusive /\ Accounted
    BY <2>1 DEF Holding, Exclusive, Accounted
  <2>4. QED BY <2>2, <2>3
<1>5. QED BY <1>2, <1>3, <1>4 DEF IInv

\* The run keeps its own invariant, and tokens are registered by workers.
LEMMA RunKeeps ==
  ASSUME IInv, [Next]_vars
  PROVE  Life!IInv' /\ NoTokenInWeb'
<1>1. Life!TypeOK
  BY DEF IInv, Life!IInv
<1>2. Life!IInv'
  <2>1. [Life!Next]_(Life!vars)
    BY <1>1, StepMaps, SameLifecycle DEF IInv
  <2>2. QED BY <2>1, LifeAssumptions, Life!NextKeeps DEF Life!NextKeeps, IInv
<1>3. NoTokenInWeb'
  <2>1. SUFFICES ASSUME NEW p \in Web PROVE active'[p] = None
    BY DEF NoTokenInWeb
  <2>2. active[p] = None /\ p \notin Worker /\ active \in [Worker \cup Web -> Worker \cup {None}]
    BY <1>1, WorkerAssumption DEF IInv, NoTokenInWeb, Life!TypeOK
  <2>3. ASSUME NEW w \in Worker, Run!Progress(w)
        PROVE  active'[p] = None
    BY <2>2, <2>3 DEF Run!Progress, Run!Prepare, Run!BeginControl, Run!Invoke, Run!FinishControl
  <2>4. ASSUME NEW w \in Worker, Run!Crash(w)
        PROVE  active'[p] = None
    BY <2>2, <2>4 DEF Run!Crash
  <2>5. ASSUME UNCHANGED active
        PROVE  active'[p] = None
    BY <2>2, <2>5
  <2>6. ASSUME NEW w \in Worker, Execute(w) \/ Claim(w) \/ Save(w) \/ RecoverStale(w) \/ SaveRaises(w)
        PROVE  UNCHANGED active
    BY <2>6 DEF Execute, Claim, Save, RecoverStale, SaveRaises, Run!Accept, run
  <2>7. ASSUME NEW w \in Worker, Run!Return(w) \/ Run!Raise(w)
        PROVE  UNCHANGED active
    BY <2>7 DEF Run!Return, Run!BuildFailure, Run!Complete, Run!Raise
  <2>8. ASSUME (\E o \in Run!Operation : Enqueue(o)) \/ (\E q \in Web : Cancel(q)) \/ UNCHANGED vars
        PROVE  UNCHANGED active
    BY <2>8 DEF Enqueue, Cancel, Run!Cancel, Run!CancelRolledBack, run, vars
  <2>9. QED
    BY <2>3, <2>4, <2>5, <2>6, <2>7, <2>8 DEF Next, Work, Perform, PerformRaises, Crash
<1>4. QED BY <1>2, <1>3

\* The bound of the faults is the only thing that changes their number.
LEMMA FaultsGrow ==
  ASSUME Life!TypeOK, NoTokenInWeb, [Next]_vars
  PROVE  faults \in Nat /\ (faults' = faults \/ faults' = faults + 1)
<1>1. [Life!Next]_(Life!vars)
  BY StepMaps, SameLifecycle
<1>2. ASSUME NEW t \in Worker,
             (\E o \in Life!Operation : Life!Accept(t, o)) \/ Life!Progress(t) \/ Life!Return(t) \/ Life!Raise(t)
      PROVE  faults' = faults \/ faults' = faults + 1
  BY <1>2 DEF Life!Accept, Life!Progress, Life!Prepare, Life!BeginControl, Life!Invoke,
     Life!FinishControl, Life!Return, Life!BuildFailure, Life!Complete, Life!Raise, Life!Fault
<1>3. ASSUME NEW p \in Worker \cup Web, Life!Cancel(p) \/ Life!CancelRolledBack(p) \/ Life!Crash(p)
      PROVE  faults' = faults \/ faults' = faults + 1
  BY <1>3 DEF Life!Cancel, Life!CancelRolledBack, Life!Crash, Life!Fault
<1>4. QED
  BY <1>1, <1>2, <1>3 DEF Life!TypeOK, Life!Next, Life!vars

TableInv == TableTyped /\ Holding /\ Exclusive /\ Accounted

\* Steps that move no job keep what the table says.
LEMMA EnqueueKeeps ==
  ASSUME IInv, NEW o \in Run!Operation, Enqueue(o)
  PROVE  TableInv'
<1>1. PICK j \in Job :
        /\ job[j] = None
        /\ job' = [job EXCEPT ![j] = [op |-> o, status |-> "queued"]]
        /\ UNCHANGED <<stage, held, performed, hasty, faults>>
  BY DEF Enqueue, run
<1>2. \A w \in Worker : held[w] # j
  BY <1>1, NoneAssumption DEF IInv, Holding
<1>3. job'[j] = [op |-> o, status |-> "queued"] /\ \A k \in Job : k # j => job'[k] = job[k]
  BY <1>1 DEF IInv, TableTyped
<1>4. [op |-> o, status |-> "queued"] \in [op : Run!Operation, status : JobStatus]
  BY DEF JobStatus
<1>5. TableTyped'
  BY <1>1, <1>4 DEF IInv, TableTyped
<1>6. Holding' /\ Exclusive'
  BY <1>1, <1>2, <1>3, <1>4 DEF IInv, TableTyped, Holding, Exclusive
<1>7. Accounted'
  BY <1>1, <1>2, <1>3, <1>4 DEF IInv, TableTyped, Accounted, Fresh
<1>8. QED BY <1>5, <1>6, <1>7 DEF TableInv

LEMMA RecoverKeeps ==
  ASSUME IInv, NEW w \in Worker, RecoverStale(w)
  PROVE  TableInv'
<1>1. PICK j \in Job :
        /\ job[j] # None /\ job[j].status = "claimed"
        /\ job' = [job EXCEPT ![j].status = "queued"]
        /\ hasty' = (hasty \/ \E v \in Worker : held[v] = j)
        /\ UNCHANGED <<stage, held, performed, faults>>
  BY DEF RecoverStale, SetJob, run
<1>2. /\ job[j] \in [op : Run!Operation, status : JobStatus]
      /\ job'[j] = [job[j] EXCEPT !.status = "queued"]
      /\ \A k \in Job : k # j => job'[k] = job[k]
  BY <1>1 DEF IInv, TableTyped
<1>3. job'[j] \in [op : Run!Operation, status : JobStatus] /\ job'[j] # None
  BY <1>2, RowAssumption DEF JobStatus
<1>4. TableTyped'
  BY <1>1, <1>2, <1>3 DEF IInv, TableTyped
<1>5. Holding'
  BY <1>1, <1>2, <1>3 DEF IInv, Holding, TableTyped
<1>6. Exclusive'
  BY <1>1, <1>2 DEF IInv, Exclusive, TableTyped
<1>7. Accounted'
  BY <1>1 DEF IInv, Accounted
<1>8. QED BY <1>4, <1>5, <1>6, <1>7 DEF TableInv

LEMMA ClaimKeeps ==
  ASSUME IInv, NEW w \in Worker, Claim(w)
  PROVE  TableInv'
<1>1. PICK j \in Job :
        /\ job[j] # None /\ job[j].status = "queued"
        /\ job' = [job EXCEPT ![j].status = "claimed"]
        /\ held' = [held EXCEPT ![w] = j]
        /\ stage[w] = "poll" /\ stage' = [stage EXCEPT ![w] = "execute"]
        /\ UNCHANGED <<performed, hasty, faults>>
  BY DEF Claim, SetJob, SetStage, run
<1>2. /\ job[j] \in [op : Run!Operation, status : JobStatus]
      /\ job'[j] = [job[j] EXCEPT !.status = "claimed"]
      /\ \A k \in Job : k # j => job'[k] = job[k]
  BY <1>1 DEF IInv, TableTyped
<1>3. job'[j] \in [op : Run!Operation, status : JobStatus] /\ job'[j] # None
  BY <1>2, RowAssumption DEF JobStatus
<1>4. /\ held[w] = None /\ held'[w] = j /\ stage'[w] = "execute"
      /\ \A v \in Worker : v # w => held'[v] = held[v] /\ stage'[v] = stage[v]
  BY <1>1 DEF IInv, Holding, TableTyped
<1>5. ~hasty => \A v \in Worker : held[v] # j
  BY <1>1, NoneAssumption DEF IInv, Exclusive
<1>6. TableTyped'
  BY <1>1, <1>2, <1>3 DEF IInv, TableTyped
<1>7. Holding'
  BY <1>1, <1>2, <1>3, <1>4, NoneAssumption DEF IInv, Holding, TableTyped
<1>8. Exclusive'
  BY <1>1, <1>2, <1>4, <1>5 DEF IInv, Exclusive, TableTyped
<1>9. Accounted'
  <2>1. SUFFICES ASSUME ~hasty, faults = 0, NEW k \in Job
                 PROVE  /\ job'[k] # None /\ job'[k].status = "claimed" => \E v \in Worker : held'[v] = k
                        /\ Fresh(k)' => performed[k] = 0
                        /\ performed[k] <= 1
    BY <1>1 DEF Accounted
  <2>2. Fresh(j) /\ performed[j] = 0 /\ held'[w] = j
    BY <1>1, <1>4, <2>1 DEF IInv, Accounted, Fresh
  <2>3. k # j => (Fresh(k)' => Fresh(k))
    BY <1>2, <1>4 DEF Fresh
  <2>4. k # j /\ job[k] # None /\ job[k].status = "claimed" => \E v \in Worker : held[v] = k /\ held'[v] = k
    BY <1>4, <2>1, NoneAssumption DEF IInv, Accounted
  <2>5. QED BY <1>2, <2>1, <2>2, <2>3, <2>4 DEF IInv, Accounted
<1>10. QED BY <1>6, <1>7, <1>8, <1>9 DEF TableInv

\* A worker that goes on with the job it has in hand leaves the table alone.
LEMMA AdvanceKeeps ==
  ASSUME IInv, NEW w \in Worker, stage[w] # "poll",
         NEW s \in {"run", "save_succeeded", "save_failed"},
         stage' \in {stage, [stage EXCEPT ![w] = s]},
         UNCHANGED <<job, held, performed, hasty>>,
         faults' = faults \/ faults' = faults + 1, faults \in Nat
  PROVE  TableInv'
<1>1. TableTyped'
  BY DEF IInv, TableTyped
<1>2. Holding' /\ Exclusive'
  BY DEF IInv, TableTyped, Holding, Exclusive
<1>3. ASSUME NEW j \in Job PROVE Fresh(j)' => Fresh(j)
  BY DEF Fresh, IInv, TableTyped
<1>4. Accounted'
  BY <1>3 DEF IInv, Accounted
<1>5. QED BY <1>1, <1>2, <1>4 DEF TableInv

\* The operation of a job begins when it has never begun before.
LEMMA ExecuteKeeps ==
  ASSUME IInv, NEW w \in Worker, Execute(w)
  PROVE  TableInv'
<1>1. CASE UNCHANGED performed
  <2>1. stage[w] = "execute" /\ \E s \in {"run", "save_failed"} : stage' = [stage EXCEPT ![w] = s]
    BY DEF Execute, SetStage
  <2>2. UNCHANGED <<job, held, hasty, faults>>
    BY DEF Execute, run, Run!Accept
  <2>3. faults \in Nat
    BY DEF IInv, Life!IInv, Life!TypeOK
  <2>4. QED BY <1>1, <2>1, <2>2, <2>3, AdvanceKeeps
<1>2. CASE performed' = [performed EXCEPT ![held[w]] = @ + 1] /\ stage' = [stage EXCEPT ![w] = "run"]
  <2>1. /\ stage[w] = "execute" /\ stage'[w] = "run"
        /\ \A v \in Worker : v # w => stage'[v] = stage[v]
        /\ UNCHANGED <<job, held, hasty, faults>>
    BY <1>2 DEF Execute, Run!Accept, IInv, TableTyped, run
  <2>2. held[w] \in Job
    BY <2>1 DEF IInv, Holding, TableTyped
  <2>3. TableTyped'
    BY <1>2, <2>1, <2>2 DEF IInv, TableTyped
  <2>4. Holding' /\ Exclusive'
    BY <2>1 DEF IInv, Holding, Exclusive
  <2>5. Accounted'
    <3>1. SUFFICES ASSUME ~hasty, faults = 0, NEW j \in Job
                   PROVE  /\ job[j] # None /\ job[j].status = "claimed" => \E v \in Worker : held[v] = j
                          /\ Fresh(j)' => performed'[j] = 0
                          /\ performed'[j] <= 1
      BY <2>1 DEF Accounted
    <3>2. CASE j = held[w]
      <4>1. Fresh(j) /\ performed[j] = 0 /\ performed'[j] = 1
        BY <1>2, <2>1, <2>2, <3>1, <3>2 DEF IInv, Accounted, Fresh, TableTyped
      <4>2. job[j] # None /\ job[j].status = "claimed" /\ \A v \in Worker : held[v] = j => v = w
        BY <2>2, <3>1, <3>2, NoneAssumption DEF IInv, Holding, Exclusive
      <4>3. ~Fresh(j)'
        BY <2>1, <4>2 DEF Fresh
      <4>4. QED BY <3>1, <4>1, <4>3 DEF IInv, Accounted
    <3>3. CASE j # held[w]
      <4>1. performed'[j] = performed[j] /\ (Fresh(j)' => Fresh(j))
        BY <1>2, <2>1, <3>3 DEF Fresh, IInv, TableTyped
      <4>2. QED BY <3>1, <4>1 DEF IInv, Accounted
    <3>4. QED BY <3>2, <3>3
  <2>6. QED BY <2>3, <2>4, <2>5 DEF TableInv
<1>3. QED BY <1>1, <1>2 DEF Execute, SetStage

LEMMA SaveKeeps ==
  ASSUME IInv, NEW w \in Worker, Save(w)
  PROVE  TableInv'
<1>1. PICK s \in {"succeeded", "failed"} :
        /\ stage[w] \in {"save_succeeded", "save_failed"}
        /\ job' = [job EXCEPT ![held[w]].status = s]
        /\ stage' = [stage EXCEPT ![w] = "poll"]
        /\ held' = [held EXCEPT ![w] = None]
        /\ UNCHANGED <<performed, hasty, faults>>
  BY DEF Save, SetJob, SetStage, run
<1>2. held[w] \in Job /\ held[w] # None /\ job[held[w]] \in [op : Run!Operation, status : JobStatus]
  BY <1>1, NoneAssumption DEF IInv, Holding, TableTyped
<1>3. /\ job'[held[w]] = [job[held[w]] EXCEPT !.status = s]
      /\ \A k \in Job : k # held[w] => job'[k] = job[k]
  BY <1>1, <1>2 DEF IInv, TableTyped
<1>4. job'[held[w]] \in [op : Run!Operation, status : JobStatus] /\ job'[held[w]] # None
      /\ job'[held[w]].status = s
  BY <1>2, <1>3, RowAssumption DEF JobStatus
<1>5. /\ held'[w] = None /\ stage'[w] = "poll"
      /\ \A v \in Worker : v # w => held'[v] = held[v] /\ stage'[v] = stage[v]
  BY <1>1 DEF IInv, TableTyped
<1>6. TableTyped'
  BY <1>1, <1>2, <1>3, <1>4 DEF IInv, TableTyped
<1>7. Holding'
  BY <1>2, <1>3, <1>4, <1>5, NoneAssumption DEF IInv, Holding, TableTyped
<1>8. ~hasty => \A v \in Worker : v # w => held[v] # held[w]
  BY <1>2 DEF IInv, Exclusive
<1>9. Exclusive'
  BY <1>1, <1>3, <1>5, <1>8 DEF IInv, Exclusive, TableTyped
<1>10. Accounted'
  <2>1. SUFFICES ASSUME ~hasty, faults = 0, NEW k \in Job
                 PROVE  /\ job'[k] # None /\ job'[k].status = "claimed" => \E v \in Worker : held'[v] = k
                        /\ Fresh(k)' => performed[k] = 0
                        /\ performed[k] <= 1
    BY <1>1 DEF Accounted
  <2>2. k = held[w] => job'[k] # None /\ job'[k].status # "claimed" /\ ~Fresh(k)'
    BY <1>4, <1>5, <1>8, <2>1 DEF Fresh
  <2>3. k # held[w] => (Fresh(k)' => Fresh(k))
    BY <1>3, <1>5 DEF Fresh
  <2>4. k # held[w] /\ job[k] # None /\ job[k].status = "claimed" => \E v \in Worker : held'[v] = k
    BY <1>5, <2>1 DEF IInv, Accounted
  <2>5. QED BY <1>3, <2>1, <2>2, <2>3, <2>4 DEF IInv, Accounted
<1>11. QED BY <1>6, <1>7, <1>9, <1>10 DEF TableInv

LEMMA CrashKeeps ==
  ASSUME IInv, NEW w \in Worker, Crash(w)
  PROVE  TableInv'
<1>1. /\ stage' = [stage EXCEPT ![w] = "poll"] /\ held' = [held EXCEPT ![w] = None]
      /\ UNCHANGED <<job, performed, hasty>>
      /\ faults' = faults + 1 /\ faults \in Nat
  BY DEF Crash, SetStage, Run!Crash, Run!Fault, IInv, Life!IInv, Life!TypeOK
<1>2. /\ held'[w] = None /\ stage'[w] = "poll"
      /\ \A v \in Worker : v # w => held'[v] = held[v] /\ stage'[v] = stage[v]
  BY <1>1 DEF IInv, TableTyped
<1>3. TableTyped'
  BY <1>1 DEF IInv, TableTyped
<1>4. Holding' /\ Exclusive'
  BY <1>1, <1>2 DEF IInv, Holding, Exclusive
<1>5. Accounted'
  BY <1>1 DEF Accounted
<1>6. QED BY <1>3, <1>4, <1>5 DEF TableInv

LEMMA NextKeeps == IInv /\ [Next]_vars => IInv'
<1>1. SUFFICES ASSUME IInv, [Next]_vars PROVE IInv'
  OBVIOUS
<1>2. Life!IInv' /\ NoTokenInWeb'
  BY <1>1, RunKeeps
<1>3. faults \in Nat /\ (faults' = faults \/ faults' = faults + 1)
  BY <1>1, FaultsGrow DEF IInv, Life!IInv
<1>4. ASSUME NEW w \in Worker, Perform(w) \/ PerformRaises(w) \/ SaveRaises(w)
      PROVE  TableInv'
  <2>1. /\ stage[w] # "poll" /\ UNCHANGED <<job, held, performed, hasty>>
        /\ \E s \in {"run", "save_succeeded", "save_failed"} : stage' \in {stage, [stage EXCEPT ![w] = s]}
    BY <1>4 DEF Perform, PerformRaises, SaveRaises, SetStage
  <2>2. QED BY <1>1, <1>3, <2>1, AdvanceKeeps
<1>5. ASSUME (\E p \in Web : Cancel(p)) \/ UNCHANGED vars
      PROVE  TableInv'
  <2>1. UNCHANGED <<job, stage, held, performed, hasty>>
    BY <1>5 DEF Cancel, vars, table
  <2>2. TableTyped' /\ Holding' /\ Exclusive'
    BY <1>1, <2>1 DEF IInv, TableTyped, Holding, Exclusive
  <2>3. \A j \in Job : Fresh(j)' <=> Fresh(j)
    BY <2>1 DEF Fresh
  <2>4. Accounted'
    BY <1>1, <1>3, <2>1, <2>3 DEF IInv, Accounted
  <2>5. QED BY <2>2, <2>4 DEF TableInv
<1>6. TableInv'
  BY <1>1, <1>4, <1>5, EnqueueKeeps, RecoverKeeps, ClaimKeeps, ExecuteKeeps, SaveKeeps, CrashKeeps
  DEF Next, Work
<1>7. QED BY <1>2, <1>6 DEF IInv, TableInv

-----------------------------------------------------------------------------
(* The theorems *)

\* The inductive invariant holds of every reachable state.
THEOREM Invariance == Spec => []IInv
<1>1. QED BY InitEstablishes, NextKeeps, PTL DEF Spec

\* Every variable of the queue, the workers and the run keeps to its type.
THEOREM TypeCorrect == Spec => []TypeOK
<1>1. IInv => TypeOK
  BY SameLifecycle DEF IInv, Life!IInv, TableTyped, TypeOK
<1>2. QED BY <1>1, Invariance, PTL

\* A job is performed at most once as long as no worker fails and no job is
\* put back while its worker is alive.
THEOREM AtMostOnce == Spec => []PerformedOnce
<1>1. IInv => PerformedOnce
  BY DEF IInv, Accounted, PerformedOnce
<1>2. QED BY <1>1, Invariance, PTL

\* The outcome of a finished job is overwritten only by a worker whose job was
\* put back while it was alive; crashes do not lead there.
THEOREM FinishedJobsStay == Spec => OutcomeIsFinal
<1>1. ASSUME IInv, [Next]_vars, NEW j \in Job, ~hasty,
             job[j] # None, job[j].status \in {"succeeded", "failed"}
      PROVE  job'[j] = job[j]
  <2>1. \A w \in Worker : held[w] # j
    BY <1>1, NoneAssumption DEF IInv, Exclusive
  <2>2. ASSUME NEW w \in Worker, Save(w) PROVE job'[j] = job[j]
    BY <1>1, <2>1, <2>2 DEF Save, SetJob, IInv, TableTyped
  <2>3. ASSUME NEW w \in Worker, Claim(w) \/ RecoverStale(w) PROVE job'[j] = job[j]
    BY <1>1, <2>3 DEF Claim, RecoverStale, SetJob, IInv, TableTyped
  <2>4. ASSUME NEW o \in Run!Operation, Enqueue(o) PROVE job'[j] = job[j]
    BY <1>1, <2>4 DEF Enqueue, IInv, TableTyped
  <2>5. ASSUME NEW w \in Worker,
               Execute(w) \/ Perform(w) \/ PerformRaises(w) \/ SaveRaises(w) \/ Crash(w)
        PROVE  job' = job
    BY <2>5 DEF Execute, Perform, PerformRaises, SaveRaises, Crash
  <2>6. ASSUME (\E p \in Web : Cancel(p)) \/ UNCHANGED vars
        PROVE  job' = job
    BY <2>6 DEF Cancel, vars, table
  <2>7. QED
    BY <1>1, <2>2, <2>3, <2>4, <2>5, <2>6 DEF Next, Work
<1>2. IInv /\ [Next]_vars =>
        [\A j \in Job :
           /\ ~hasty
           /\ job[j] # None /\ job[j].status \in {"succeeded", "failed"}
           => job'[j] = job[j]]_vars
  <2>1. ASSUME IInv, [Next]_vars
        PROVE  \A j \in Job :
                 /\ ~hasty
                 /\ job[j] # None /\ job[j].status \in {"succeeded", "failed"}
                 => job'[j] = job[j]
    BY <1>1, <2>1, Zenon
  <2>2. QED BY <2>1, Zenon
<1>3. QED BY <1>2, Invariance, PTL DEF Spec, OutcomeIsFinal

\* Worker mode is one more way to run the lifecycle: the queue, its requeues
\* and the late saves add no step to it.
THEOREM LifecycleRefinement == Spec => ImplementsLifecycle
<1>1. Init => Run!Init
  BY DEF Init
<1>2. IInv /\ [Next]_vars => [Run!Next]_(Run!vars)
  BY StepMaps DEF IInv, Life!IInv
<1>3. QED BY <1>1, <1>2, Invariance, PTL DEF Spec, ImplementsLifecycle, Run!Spec

\* What is proved of the lifecycle therefore holds of workers: the queue and
\* its requeues cannot make two executions of a run overlap, and leave it
\* running with nobody executing it only after a fault.
THEOREM WorkersExclude == Spec => [](Run!OverlapNeedsCancel /\ Run!OrphanOnlyByFault)
<1>1. Life!OverlapNeedsCancel <=> Run!OverlapNeedsCancel
  BY DEF Life!OverlapNeedsCancel, Run!OverlapNeedsCancel
<1>2. Life!OrphanOnlyByFault <=> Run!OrphanOnlyByFault
  BY DEF Life!OrphanOnlyByFault, Run!OrphanOnlyByFault, Life!Working, Run!Working
<1>3. IInv => Run!OverlapNeedsCancel /\ Run!OrphanOnlyByFault
  BY <1>1, <1>2 DEF IInv, Life!IInv, Life!Undisturbed, Life!OverlapNeedsCancel
<1>4. QED BY <1>3, Invariance, PTL
=============================================================================
