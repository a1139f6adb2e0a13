----------------------------- MODULE Deployment -----------------------------
(***************************************************************************)
(* One process that executes one run of a pausing workflow: each execution *)
(* is prepared on the engine the owner has at the time, and works on the   *)
(* stores of that engine: its checkpoints are in a table of PostgreSQL or  *)
(* in memory, its artifacts in a durable store or in memory.  The table    *)
(* and the durable artifact store are shared by the engines configured     *)
(* with them; a memory store is lost with its engine.  The status of the   *)
(* run is written before and after an execution, in transactions of their  *)
(* own (RunLifecycle has them in detail).                                  *)
(***************************************************************************)
EXTENDS PgCheckpointStore, EngineOwner, DurableWorkflows

CONSTANTS
  MaxCalls,     \* bound on the executions
  MaxFaults     \* bound on lost connections, restarts and reconfigurations

ASSUME BoundAssumption == MaxCalls \in Nat /\ MaxFaults \in Nat

\* The absence of an engine or of a version is told from each of them.
ASSUME NoneAssumption == None \notin Nat \cup [req : Saves, rev : Nat]

VARIABLES
  workflow,     \* the kind of the workflow
  plan,         \* the failure plan in the input of the run
  status,       \* of the run
  output,       \* of the run: what its page shows, or None
  pages,        \* history: the outputs of pauses that pages have shown
  artifacts,    \* reconciliation.json or decision.json in each store, or None
  decided,      \* history: the answer that decided each of them, or None
  memory,       \* the versions in the memory store of each engine
  job,          \* what each thread executes, or None
  at,           \* where it is
  todo,         \* the outcome it works off, or None
  calls,        \* executions so far
  faults

run == <<workflow, plan, status, output, pages>>
stores == <<artifacts, decided, memory>>
execution == <<job, at, todo>>
bounds == <<calls, faults>>
vars == <<pg, owner, run, stores, execution, bounds>>

Init ==
  /\ PgInit /\ OwnerInit
  /\ \/ workflow = "saga" /\ plan \in [Operation -> Failure]
     \/ workflow = "approval" /\ plan = [o \in Operation |-> "none"]
  /\ status = "pending" /\ output = None /\ pages = {}
  /\ artifacts = [s \in 0..MaxEngines |-> None]
  /\ decided = [s \in 0..MaxEngines |-> None]
  /\ memory = [e \in 1..MaxEngines |-> {}]
  /\ job = [t \in Thread |-> None]
  /\ at = [t \in Thread |-> "idle"]
  /\ todo = [t \in Thread |-> None]
  /\ calls = 0 /\ faults = 0

-----------------------------------------------------------------------------
(* The operations on the run *)

Accept(t, operation) ==
  /\ at[t] = "idle" /\ calls < MaxCalls
  /\ status' = "running"
  /\ calls' = calls + 1
  /\ job' = [job EXCEPT ![t] = operation]
  /\ at' = [at EXCEPT ![t] = "prepare"]
  /\ Prepare(t)
  /\ UNCHANGED <<pg, workflow, plan, output, pages, stores, todo, faults>>

\* The approval makes proposals, known by the number of the call.
Number == IF workflow = "approval" THEN calls + 1 ELSE 0

Start(t) ==
  /\ status = "pending" \/ status \in {"failed", "cancelled"}
  /\ Accept(t, [op |-> "execute", call |-> Number])

Actions == IF workflow = "saga" THEN {"retry_failed", "compensate"}
           ELSE {"approve", "reject", "revise"}

\* dispatch_resume_action: the page carries the checkpoint it was built for,
\* which need not be the one the run waits at by now.
Resume(t) ==
  /\ status = "waiting"
  /\ \E page \in pages, action \in Actions :
       Accept(t, [op |-> "resume", call |-> Number, page |-> page, action |-> action])

\* Neither workflow looks at the control: its execution goes on.
Cancel ==
  /\ status \in {"pending", "running", "waiting"}
  /\ status' = "cancelled"
  /\ UNCHANGED <<pg, owner, workflow, plan, output, pages, stores, execution, bounds>>

-----------------------------------------------------------------------------
(* The stores of an engine *)

\* The checkpoints of an engine: its own memory, or the table, which is 0.
CheckpointsOf(e) == IF Settings[built[e]].store = "postgres" THEN 0 ELSE e

\* Its artifacts: its own memory, or the durable store, which is 0.
ArtifactsOf(e) == IF Settings[built[e]].artifacts = "memory" THEN e ELSE 0

VersionsIn(store) == IF store = 0 THEN table ELSE memory[store]

\* Those of the engine an execution was prepared on.
StoreOf(t) == CheckpointsOf(handle[t].engine)

Artifact(t) == artifacts[ArtifactsOf(handle[t].engine)]

Postgres(t) == StoreOf(t) = 0

Versions(t) == VersionsIn(StoreOf(t))

LatestId(t) ==
  LET newest == Newest(Versions(t)) IN IF newest = None THEN None ELSE newest.req.id

Reads(t, rows) ==
  IF Postgres(t) THEN Loads(rows) ELSE UNCHANGED pg

-----------------------------------------------------------------------------
(* An execution *)

Enters(t, stage) == at' = [at EXCEPT ![t] = stage]

Kinds == [config \in Config |-> Workflows(Settings[config])]

\* prepare_workflow: the engine knows the kind and gives its stores.
Prepared(t) ==
  /\ at[t] = "prepare" /\ step[t] \in {"prepared", "failed"}
  /\ Enters(t, IF step[t] = "prepared" /\ workflow \in Kinds[built[handle[t].engine]]
               THEN "invoke" ELSE "fail")
  /\ UNCHANGED <<pg, owner, run, stores, job, todo, bounds>>

\* Mutation: the latest pause is answered, whatever the page was built for.
WantedLatest(t) == {Newest(Versions(t))} \ {None}

\* The version a resume loads: the latest one, or that of the page.
Wanted(t) ==
  IF workflow = "saga" THEN {Newest(Versions(t))} \ {None}
  ELSE WithId(Versions(t), job[t].page.id)

Computed(t, version) ==
  CASE job[t].op = "execute" ->
         IF workflow = "saga" THEN SagaExecute(plan) ELSE ApprovalExecute(job[t].call)
    [] OTHER ->
         IF workflow = "saga" THEN SagaResume(version, job[t].action)
         ELSE ApprovalResume(version, job[t].action, job[t].call)

\* Mutation: the final version is saved before the artifact is stored.
SavedFirst(outcome, stage) ==
  IF outcome = None THEN "fail"
  ELSE IF stage = "invoke" /\ outcome.save # None THEN "save"
  ELSE IF stage # "put" /\ outcome.put # None THEN "put"
  ELSE "finish"

\* The artifact is stored first, then the version is saved.
After(outcome, stage) ==
  IF outcome = None THEN "fail"
  ELSE IF stage = "invoke" /\ outcome.put # None THEN "put"
  ELSE IF stage # "save" /\ outcome.save # None THEN "save"
  ELSE "finish"

Execute(t) ==
  /\ at[t] = "invoke" /\ job[t].op = "execute"
  /\ todo' = [todo EXCEPT ![t] = Computed(t, None)]
  /\ Enters(t, After(todo'[t], "invoke"))
  /\ UNCHANGED <<pg, owner, run, stores, job, bounds>>

\* No version: LookupError.
Load(t) ==
  /\ at[t] = "invoke" /\ job[t].op = "resume"
  /\ Reads(t, Wanted(t))
  /\ IF Wanted(t) = {} THEN UNCHANGED todo
     ELSE \E version \in Wanted(t) : todo' = [todo EXCEPT ![t] = Computed(t, version)]
  /\ Enters(t, After(todo'[t], "invoke"))
  /\ UNCHANGED <<owner, run, stores, job, bounds>>

\* The artifact is written; the answer that decides on a proposal is remembered.
Writes(t) ==
  LET s == ArtifactsOf(handle[t].engine) IN
  /\ artifacts' = [artifacts EXCEPT ![s] = todo[t].put]
  /\ decided' = IF workflow = "approval"
                THEN [decided EXCEPT ![s] = [page |-> job[t].page, store |-> StoreOf(t)]]
                ELSE decided
  /\ Enters(t, After(todo[t], "put"))

\* put: an equal artifact is the answer, another one a conflict.  A durable
\* store writes once; the memory store looks, and then writes.
Put(t) ==
  /\ at[t] = "put"
  /\ \/ /\ Artifact(t) = None /\ ArtifactsOf(handle[t].engine) = 0
        /\ Writes(t)
     \/ /\ Artifact(t) = None /\ ArtifactsOf(handle[t].engine) # 0
        /\ Enters(t, "insert")
        /\ UNCHANGED <<artifacts, decided>>
     \/ /\ Artifact(t) # None
        /\ Enters(t, IF Artifact(t) = todo[t].put THEN After(todo[t], "put") ELSE "fail")
        /\ UNCHANGED <<artifacts, decided>>
  /\ UNCHANGED <<pg, owner, run, memory, job, todo, bounds>>

\* Whatever has been written in between is replaced.
PutInMemory(t) ==
  /\ at[t] = "insert"
  /\ Writes(t)
  /\ UNCHANGED <<pg, owner, run, memory, job, todo, bounds>>

\* The approval looks for the version its pause is to follow.
Look(t) ==
  /\ at[t] = "save" /\ todo[t].save.parent = Latest
  /\ todo' = [todo EXCEPT ![t].save.parent = LatestId(t)]
  /\ Reads(t, {Newest(Versions(t))} \ {None})
  /\ UNCHANGED <<owner, run, stores, job, at, bounds>>

\* The memory store saves in one critical section.
SaveInMemory(t) ==
  LET request == todo[t].save
      e == handle[t].engine
      newest == Newest(memory[e])
      found == WithId(memory[e], request.id)
      appends == found = {} /\ request.parent = LatestId(t)
  IN  /\ at[t] = "save" /\ ~Postgres(t) /\ request.parent # Latest
      /\ memory' = IF appends
                   THEN [memory EXCEPT ![e] = @ \cup
                           {[req |-> request, rev |-> IF newest = None THEN 1 ELSE newest.rev + 1]}]
                   ELSE memory
      /\ Enters(t, IF appends \/ \E v \in found : v.req = request
                   THEN After(todo[t], "save") ELSE "fail")
      /\ UNCHANGED <<pg, owner, run, artifacts, decided, job, todo, bounds>>

SaveInTable(t) ==
  /\ at[t] = "save" /\ Postgres(t) /\ todo[t].save.parent # Latest
  /\ BeginSave(t, todo[t].save)
  /\ Enters(t, "table")
  /\ UNCHANGED <<owner, run, stores, job, todo, bounds>>

Saved(t) ==
  /\ at[t] = "table"
  /\ EndSave(t)
  /\ Enters(t, IF txn[t] = "saved" THEN After(todo[t], "save") ELSE "fail")
  /\ UNCHANGED <<owner, run, stores, job, todo, bounds>>

\* What the page of the run shows: the result, or the checkpoint of a pause
\* and what it asks about, which only the approval comes back to.
Shown(t) ==
  CASE todo[t].status = "succeeded" -> todo[t].put
    [] OTHER ->
         IF workflow = "saga" THEN [id |-> None, proposal |-> 0, store |-> 0]
         ELSE [id |-> todo[t].save.id, proposal |-> todo[t].save.body.proposal,
               store |-> StoreOf(t)]

\* _complete_action writes the result, whatever the status is by now.
Finish(t) ==
  /\ at[t] \in {"finish", "fail"}
  /\ status' = IF at[t] = "fail" THEN "failed" ELSE todo[t].status
  /\ output' = IF at[t] = "fail" THEN None ELSE Shown(t)
  /\ pages' = IF status' = "waiting" THEN pages \cup {output'} ELSE pages
  /\ Enters(t, "idle")
  /\ job' = [job EXCEPT ![t] = None]
  /\ todo' = [todo EXCEPT ![t] = None]
  /\ UNCHANGED <<pg, owner, workflow, plan, stores, bounds>>

-----------------------------------------------------------------------------
(* What may go wrong *)

LoseConnection(t) ==
  /\ faults < MaxFaults /\ faults' = faults + 1
  /\ Disconnect(t)
  /\ UNCHANGED <<owner, run, stores, execution, calls>>

\* The settings may have been changed when the process starts again.
Restart ==
  /\ faults < MaxFaults /\ faults' = faults + 1
  /\ PgRestart
  /\ \E settings \in Config : OwnerStarts(settings)
  /\ job' = [t \in Thread |-> None]
  /\ at' = [t \in Thread |-> "idle"]
  /\ todo' = [t \in Thread |-> None]
  /\ UNCHANGED <<built, run, stores, calls>>

Owner(A) == A /\ UNCHANGED <<pg, run, stores, execution, bounds>>

Configure ==
  /\ \/ /\ faults < MaxFaults /\ faults' = faults + 1
        /\ \E config \in Config, force \in BOOLEAN : Reconfigure(config, force)
     \/ (Swap \/ CandidateFails) /\ UNCHANGED faults
  /\ UNCHANGED <<pg, run, stores, execution, calls>>

Table(t) == PgStep(t) /\ UNCHANGED <<owner, run, stores, execution, bounds>>

Next ==
  \/ \E t \in Thread :
       \/ Start(t) \/ Resume(t) \/ Owner(OwnerStep(t)) \/ Prepared(t)
       \/ Execute(t) \/ Load(t) \/ Put(t) \/ PutInMemory(t) \/ Look(t)
       \/ SaveInMemory(t) \/ SaveInTable(t) \/ Table(t) \/ Saved(t) \/ Finish(t)
       \/ LoseConnection(t)
  \/ Cancel \/ Configure \/ Restart

Spec == Init /\ [][Next]_vars

-----------------------------------------------------------------------------
(* Properties *)

\* The store of PostgreSQL implements CheckpointStream, for all engines and
\* whatever connections are lost: a save appends one version on top of the
\* tip, and only versions that are there are returned.
ImplementsStream ==
  /\ Stream!Init
  /\ [][\/ \E t \in Thread : asked[t] # None /\ Stream!Commit(asked[t])
        \/ Stream!Return(returned')]_(Stream!vars)

\* Within a process a generation is one engine, of one configuration, for all
\* the workflows prepared with its number: so they share its stores.  The
\* engine in place is of the settings in place, whatever candidates failed.
GenerationIsOneEngine ==
  /\ engine # None => built[engine] = raw /\ signature = SignatureOf[raw]
  /\ \A t, u \in Thread :
       handle[t] # None =>
         /\ handle[t].signature = SignatureOf[built[handle[t].engine]]
         /\ handle[t].generation = generation => handle[t].engine = engine
         /\ handle[u] # None /\ handle[u].generation = handle[t].generation
            => handle[u].engine = handle[t].engine

\* The version that ends a saga.
Final(v) == workflow = "saga" /\ v.req.body.done # "open"

\* A checkpoint store has one final version at most, and nothing on top of it.
OneEnd ==
  \A store \in 0..MaxEngines : \A v \in VersionsIn(store) :
    Final(v) => \A w \in VersionsIn(store) : w.rev <= v.rev

\* Every engine that has the checkpoint store keeps its artifacts.
Keeps(store) ==
  \A e \in DOMAIN built : CheckpointsOf(e) = store => ArtifactsOf(e) = 0

\* The final version is what the durable reconciliation says.
EndIsReconciled ==
  \A store \in 0..MaxEngines : \A v \in VersionsIn(store) :
    Final(v) /\ Keeps(store) => artifacts[0] = v.req.body

\* A result is that of a final version in some store, also where the artifact
\* has been lost, and the durable artifact where all engines keep it there.
ResultIsEnd ==
  status = "succeeded" =>
    /\ workflow = "saga" =>
         \E store \in 0..MaxEngines : \E v \in VersionsIn(store) :
           Final(v) /\ v.req.body = output
    /\ (\A e \in DOMAIN built : ArtifactsOf(e) = 0) =>
         artifacts[0] # None /\ artifacts[0] = output

\* A saga has one outcome in each checkpoint store, whatever executions
\* overlap or stop half way and wherever they keep the artifact, and a run
\* succeeds with such an outcome only; a durable artifact says the same.
OneOutcome == OneEnd /\ EndIsReconciled /\ ResultIsEnd

\* A decision is about the proposal the page has shown to the one who took
\* it, also when the page was out of date, as long as the answer goes to the
\* store the page was built from.
DecidedAsSeen ==
  workflow = "approval" =>
    \A s \in 0..MaxEngines :
      artifacts[s] # None /\ decided[s].page.store = decided[s].store
      => artifacts[s].proposal = decided[s].page.proposal
=============================================================================
