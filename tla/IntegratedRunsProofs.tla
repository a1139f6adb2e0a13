------------------------ MODULE IntegratedRunsProofs ------------------------
(***************************************************************************)
(* Proofs about IntegratedRuns, for any units, tasks, workers and users,   *)
(* and any number of pauses, step runs and reports that fail: every pause  *)
(* is answered once, no span stays running that need not, and a failed     *)
(* unit is shown as failed.                                                *)
(***************************************************************************)
EXTENDS IntegratedRuns, FiniteSetTheorems, SequenceTheorems, WellFoundedInduction,
        TLAPS

-----------------------------------------------------------------------------
(* The inductive invariant: the run and its pauses *)

\* An execution takes place exactly while the run is running, and goes the
\* way of its integration; a workflow of LlamaIndex has no graph and no pauses.
Controlled ==
  /\ kind \in {"langgraph", "llamaindex"}
  /\ status \in Statuses \cup {"pending"}
  /\ phase \in {"idle", "stream", "ended", "replay"}
  /\ phase = "idle" <=> status # "running"
  /\ phase = "ended" => kind = "langgraph"
  /\ phase = "replay" => kind = "llamaindex"
  /\ raised \in BOOLEAN
  /\ kind = "llamaindex" => todo = {} /\ interrupted = {} /\ status # "waiting"

\* A run waits, or is about to, for the answer to its last pause.
Paused ==
  /\ pauses \in Nat /\ answers \in Nat /\ answers <= pauses
  /\ status = "waiting" => answers < pauses
  /\ phase = "ended" /\ interrupted # {} => answers < pauses

-----------------------------------------------------------------------------
(* The inductive invariant: spans of LangGraph *)

Spans == [status: Statuses, lost: BOOLEAN]
Opened(row) == row.status = "running" /\ ~row.lost

Recorded ==
  /\ rows \in Seq(Spans)
  /\ current \in [Unit -> Snapshots \cup {None}]
  /\ unknown \in SUBSET Unit
  /\ failed \in SUBSET Unit

\* A span that runs is that of a task that runs, and tasks run only while the
\* graph does.
GraphSpans ==
  /\ todo \cap Running = {}
  /\ kind = "llamaindex" \/ phase # "stream" => Running = {}
  /\ kind = "langgraph" =>
       \A i \in DOMAIN rows : Opened(rows[i]) => \E t \in Running : open[t] = i

\* The snapshot of a failure is never outnumbered: the unit reports again, or
\* stays failed.
GraphFailure ==
  kind = "langgraph" =>
    /\ \A u \in Unit : current[u] # None => current[u].sequence <= 1
    /\ \A u \in failed :
         \/ u \in unknown
         \/ current[u] # None /\ current[u].status = "failed"

-----------------------------------------------------------------------------
(* The inductive invariant: spans of LlamaIndex *)

Starts == [do: {"start"}, ref: Nat]
Ends == [do: {"end"}, ref: Nat, status: Statuses \ {"running"}]
Projections == [do: {"snapshot"}, unit: Unit, status: Statuses, sequence: Nat]
Ops == Starts \cup Ends \cup Projections

\* With a worker that runs, its step has a span to take for its own.
StepsTyped ==
  /\ busy \in [Unit -> SUBSET Worker]
  /\ stack \in [Unit -> Seq(Nat)]
  /\ pending \in Seq([step: Unit, ref: Nat])
  /\ buffer \in Seq(Ops)
  /\ started \in Nat
  /\ refs \in Seq(Nat \cup {None})
  /\ Len(refs) <= started
  /\ stopped \in SUBSET Unit
  /\ \A s \in Unit : \A i \in DOMAIN stack[s] : stack[s][i] \in 1 .. started
  /\ \A i \in DOMAIN pending : pending[i].ref \in 1 .. started
  /\ \A s \in Unit : IsFiniteSet(busy[s])
  /\ kind = "llamaindex" /\ failed = {} =>
       \A s \in Unit : Len(stack[s]) = Cardinality(busy[s])

\* The buffer b starts the spans that the n of the replay are short of total,
\* one after the other, and ends none that has not been started before.
Numbered(b, total, n) ==
  /\ \A i, j \in DOMAIN b :
       i < j /\ b[i].do = "start" /\ b[j].do = "start" => b[i].ref < b[j].ref
  /\ \A i \in DOMAIN b : b[i].do = "start" => b[i].ref \in n + 1 .. total
  /\ \A id \in n + 1 .. total : \E i \in DOMAIN b : b[i].do = "start" /\ b[i].ref = id
  /\ \A i \in DOMAIN b : b[i].do = "end" =>
       /\ b[i].ref \in 1 .. total
       /\ \/ b[i].ref <= n
          \/ \E j \in 1 .. i - 1 : b[j].do = "start" /\ b[j].ref = b[i].ref

Stacked(id) == \E s \in Unit : \E i \in DOMAIN stack[s] : stack[s][i] = id
Pended(id) == \E i \in DOMAIN pending : pending[i].ref = id
EndsIn(b, id) == \E i \in DOMAIN b : b[i].do = "end" /\ b[i].ref = id
Due(id) == EndsIn(buffer, id)

\* The spans that are left open, once the loop has ended.
Leaves(id) == IF raised THEN Pended(id) ELSE Stacked(id)

\* Before the loop has ended, every span is known to the loop or about to be
\* ended; afterwards every one is left open, ended or about to be.
StepSpans ==
  kind = "llamaindex" =>
    /\ status = "pending" \/ phase = "stream" =>
         /\ rows = <<>> /\ refs = <<>> /\ raised = FALSE
         /\ \A id \in 1 .. started : Stacked(id) \/ Pended(id) \/ Due(id)
    /\ status # "pending" /\ phase # "stream" =>
         \A id \in Len(refs) + 1 .. started : Leaves(id) \/ Due(id)
    /\ phase = "idle" => buffer = <<>>
    /\ \A i \in DOMAIN rows : Opened(rows[i]) =>
         \E id \in DOMAIN refs : refs[id] = i /\ (Leaves(id) \/ Due(id))

\* A step has failed: its failed snapshot is the last one that is buffered,
\* or has been shown, or was lost.  No number is higher than its number.
Quiet(b) == \A i \in DOMAIN b : b[i].do # "snapshot"
Bounded(b) == \A i \in DOMAIN b : b[i].do = "snapshot" => b[i].sequence <= FailedSequence
Projected(b, u) ==
  \E i \in DOMAIN b :
    /\ b[i] = Projection(u, "failed", FailedSequence)
    /\ \A j \in DOMAIN b : j > i => b[j].do # "snapshot"

StepFailure ==
  kind = "llamaindex" =>
    /\ \A u \in Unit : current[u] # None => current[u].sequence <= FailedSequence
    /\ Bounded(buffer)
    /\ \A u \in failed :
         \/ u \in unknown
         \/ Projected(buffer, u)
         \/ current[u] # None /\ current[u].status = "failed" /\ Quiet(buffer)

IInv ==
  /\ Controlled /\ Paused /\ Recorded /\ GraphSpans /\ GraphFailure
  /\ StepsTyped /\ Numbered(buffer, started, Len(refs)) /\ StepSpans

\* The numbers of worker snapshots do not pass the one of a failed snapshot:
\* the provider numbers workers in tens, so a step has a thousand at most.
FewWorkers == \A w \in Worker : WorkerSequence(w, 1) <= FailedSequence

-----------------------------------------------------------------------------
(* Initially *)

LEMMA InitEstablishes == Init => IInv
<1> SUFFICES ASSUME Init PROVE IInv
  OBVIOUS
<1> USE DEF Init, RecordsInit, GraphInit, StepsInit
<1>1. Controlled
  BY Zenon DEF Controlled, Statuses
<1> HIDE DEF RecordsInit
<1>6. Paused
  BY DEF Paused
<1> USE DEF RecordsInit
<1>2. Recorded /\ GraphFailure
  BY DEF Recorded, GraphFailure
<1>3. GraphSpans
  BY DEF GraphSpans, Running
<1>4. StepsTyped
  BY FS_EmptySet DEF StepsTyped
<1>5. Numbered(buffer, started, Len(refs)) /\ StepSpans
  BY DEF Numbered, StepSpans
<1> QED
  BY <1>1, <1>2, <1>3, <1>4, <1>5, <1>6 DEF IInv

-----------------------------------------------------------------------------
(* The run and its pauses *)

\* Whatever happens, executions and pauses stay in step with the status.
LEMMA ControlKeeps ==
  ASSUME Controlled, Paused, [Next]_vars
  PROVE  Controlled' /\ Paused'
<1> USE DEF Controlled, Paused, Statuses
<1>1. CASE Run
  BY <1>1 DEF Run, GraphStarts
<1>2. CASE GraphEvent
  <2>1. UNCHANGED <<kind, status, phase, raised, pauses, answers>> /\ phase = "stream" /\ kind = "langgraph"
    BY <1>2 DEF GraphEvent, Streaming
  <2> QED
    BY <2>1
<1>3. CASE GraphFails
  BY <1>3 DEF GraphFails, Streaming, GraphRaises
<1>4. CASE GraphEnds
  BY <1>4 DEF GraphEnds, Streaming, GraphReturns, graph
<1>5. CASE StepEvent
  BY <1>5 DEF StepEvent, graph
<1>6. CASE LoopEnds
  BY <1>6 DEF LoopEnds, Streaming, graph
<1>7. CASE ReplayNext
  BY <1>7 DEF ReplayNext, control, graph
<1>8. CASE Finish
  BY <1>8 DEF Finish, graph
<1>9. CASE Expire
  BY <1>9 DEF Expire, graph
<1>10. ASSUME NEW u \in User, OpenForm(u) \/ Submit(u)
       PROVE  Controlled' /\ Paused'
  BY <1>10 DEF OpenForm, Submit, graph
<1>11. ASSUME NEW u \in User, Answer(u)
       PROVE  Controlled' /\ Paused'
  <2>1. CASE status = "waiting"
    BY <1>11, <2>1 DEF Answer, GraphStarts
  <2>2. CASE status # "waiting"
    BY <1>11, <2>2 DEF Answer, graph
  <2> QED
    BY <2>1, <2>2
<1>12. CASE UNCHANGED vars
  BY <1>12 DEF vars, control, graph
<1> QED
  BY <1>1, <1>2, <1>3, <1>4, <1>5, <1>6, <1>7, <1>8, <1>9, <1>10, <1>11, <1>12 DEF Next

-----------------------------------------------------------------------------
(* Reports *)

\* Ending the spans refs leaves none of them open, unless that report fails,
\* and the others as they are.
Closes(table, ids, after) ==
  /\ after \in Seq(Spans) /\ DOMAIN after = DOMAIN table
  /\ \A i \in DOMAIN table : Opened(after[i]) => Opened(table[i]) /\ i \notin ids

LEMMA EndedCloses ==
  ASSUME NEW table \in Seq(Spans), NEW ids, NEW as \in Statuses \ {"running"},
         NEW works \in BOOLEAN
  PROVE  Closes(table, ids, Ended(table, ids, as, works))
<1> DEFINE after == Ended(table, ids, as, works)
<1> DOMAIN table = 1 .. Len(table)
  OBVIOUS
<1>0. after = [i \in 1 .. Len(table) |->
                IF i \notin ids THEN table[i]
                ELSE IF works THEN [table[i] EXCEPT !.status = as]
                ELSE [table[i] EXCEPT !.lost = TRUE]]
  BY DEF Ended
<1> HIDE DEF after
<1>1. /\ DOMAIN after = 1 .. Len(table)
      /\ \A i \in 1 .. Len(table) :
           /\ table[i] \in Spans
           /\ after[i] = IF i \notin ids THEN table[i]
                         ELSE IF works THEN [table[i] EXCEPT !.status = as]
                         ELSE [table[i] EXCEPT !.lost = TRUE]
  BY <1>0
<1>2. \A i \in 1 .. Len(table) : after[i] \in Spans
  BY <1>1 DEF Spans
<1>3. after = [i \in 1 .. Len(table) |-> after[i]]
  BY <1>0
<1>4. after \in Seq(Spans)
  BY <1>2, <1>3
<1>5. \A i \in 1 .. Len(table) : Opened(after[i]) => Opened(table[i]) /\ i \notin ids
  <2> SUFFICES ASSUME NEW i \in 1 .. Len(table), Opened(after[i])
               PROVE  Opened(table[i]) /\ i \notin ids
    OBVIOUS
  <2>1. table[i] \in Spans
    BY <1>1
  <2>2. CASE i \notin ids
    BY <1>1, <2>2
  <2>3. CASE i \in ids /\ works
    <3>1. after[i] = [table[i] EXCEPT !.status = as]
      BY <1>1, <2>3
    <3>2. after[i].status = as
      BY <2>1, <3>1 DEF Spans
    <3> QED
      BY <3>2 DEF Opened
  <2>4. CASE i \in ids /\ ~works
    <3>1. after[i] = [table[i] EXCEPT !.lost = TRUE]
      BY <1>1, <2>4
    <3>2. after[i].lost
      BY <2>1, <3>1 DEF Spans
    <3> QED
      BY <3>2 DEF Opened
  <2> QED
    BY <2>2, <2>3, <2>4
<1> QED
  BY <1>1, <1>4, <1>5 DEF after, Closes

\* A span that is started is open, and the last one.
LEMMA StartedOpens ==
  ASSUME rows \in Seq(Spans), NEW works \in BOOLEAN
  PROVE  /\ Started(works) \in Seq(Spans)
         /\ works => Len(Started(works)) = Len(rows) + 1 /\ RefIf(works) = Len(rows) + 1
         /\ ~works => Started(works) = rows /\ RefIf(works) = None
         /\ \A i \in DOMAIN Started(works) :
              \/ i \in DOMAIN rows /\ Started(works)[i] = rows[i]
              \/ works /\ i = RefIf(works)
<1> DEFINE new == [status |-> "running", lost |-> FALSE]
<1>1. new \in Spans
  BY DEF Spans, Statuses
<1> HIDE DEF new
<1>2. CASE works
  <2>1. Started(works) = Append(rows, new) /\ RefIf(works) = Len(rows) + 1
    BY <1>2 DEF Started, RefIf, new
  <2>2. \A i \in DOMAIN Append(rows, new) :
          \/ i \in DOMAIN rows /\ Append(rows, new)[i] = rows[i]
          \/ i = Len(rows) + 1
    BY <1>1
  <2>3. Append(rows, new) \in Seq(Spans) /\ Len(Append(rows, new)) = Len(rows) + 1
    BY <1>1
  <2> QED
    BY <1>2, <2>1, <2>2, <2>3, Zenon
<1>3. CASE ~works
  BY <1>3 DEF Started, RefIf
<1> QED
  BY <1>2, <1>3

\* A snapshot changes the current state of its own unit only; it is shown
\* unless its report fails or a higher number stands against it.
SnapshotShown(unit, as, number, works) ==
  /\ current' \in [Unit -> Snapshots \cup {None}]
  /\ unknown' \in SUBSET Unit
  /\ unknown \subseteq unknown'
  /\ ~works => unit \in unknown'
  /\ \A u \in Unit : u # unit /\ current[u] # None =>
       current'[u] # None /\ current'[u].status = current[u].status
  /\ \A u \in Unit : current'[u] # None =>
       \/ current[u] # None /\ current'[u].sequence = current[u].sequence
       \/ current'[u].sequence = number
  /\ works /\ (current[unit] = None \/ current[unit].sequence <= number) =>
       current'[unit] # None /\ current'[unit].status = as

LEMMA SnapshotShows ==
  ASSUME Recorded,
         NEW unit \in Unit, NEW as \in Statuses, NEW number \in Nat, NEW works \in BOOLEAN,
         Snapshot(unit, as, number, works)
  PROVE  SnapshotShown(unit, as, number, works)
<1> USE DEF SnapshotShown
<1> current \in [Unit -> Snapshots \cup {None}] /\ unknown \in SUBSET Unit
  BY DEF Recorded
<1>1. CASE ~works
  BY <1>1 DEF Snapshot
<1>2. CASE works
  <2>1. PICK tick \in BOOLEAN : current' = Shown(current, unit, as, number, tick)
    BY <1>2 DEF Snapshot
  <2>2. unknown' = unknown
    BY <1>2 DEF Snapshot
  <2> DEFINE wins == \/ current[unit] = None \/ tick \/ ~current[unit].fresh
                     \/ number >= current[unit].sequence
  <2>3. current' = [u \in Unit |->
          IF u = unit /\ wins
          THEN [status |-> as, sequence |-> number, fresh |-> TRUE]
          ELSE IF current[u] = None THEN None
          ELSE [current[u] EXCEPT !.fresh = @ /\ ~tick]]
    BY <2>1 DEF Shown
  <2> HIDE DEF wins
  <2>4. \A u \in Unit : current[u] \in Snapshots \cup {None}
    OBVIOUS
  <2>5. [status |-> as, sequence |-> number, fresh |-> TRUE] \in Snapshots
    BY DEF Snapshots
  <2>6. \A c \in Snapshots :
          /\ [c EXCEPT !.fresh = @ /\ ~tick] \in Snapshots
          /\ [c EXCEPT !.fresh = @ /\ ~tick].status = c.status
          /\ [c EXCEPT !.fresh = @ /\ ~tick].sequence = c.sequence
    BY DEF Snapshots
  <2>7. None \notin Snapshots
    BY NoneAssumption
  <2>8. current[unit] = None \/ current[unit].sequence <= number => wins
    BY <2>4 DEF wins, Snapshots
  <2>9. \A u \in Unit :
          /\ u = unit /\ wins =>
               current'[u] = [status |-> as, sequence |-> number, fresh |-> TRUE]
          /\ ~(u = unit /\ wins) /\ current[u] = None => current'[u] = None
          /\ ~(u = unit /\ wins) /\ current[u] # None =>
               /\ current'[u] \in Snapshots
               /\ current'[u].status = current[u].status
               /\ current'[u].sequence = current[u].sequence
    BY <2>3, <2>4, <2>6
  <2>10. current' \in [Unit -> Snapshots \cup {None}]
    BY <2>3, <2>4, <2>5, <2>6
  <2>11. [status |-> as, sequence |-> number, fresh |-> TRUE] # None
    BY <2>5, <2>7
  <2>12. \A u \in Unit : u # unit /\ current[u] # None =>
           current'[u] # None /\ current'[u].status = current[u].status
    BY <2>9, <2>7
  <2>13. \A u \in Unit : current'[u] # None =>
              \/ current[u] # None /\ current'[u].sequence = current[u].sequence
              \/ current'[u].sequence = number
    <3> TAKE u \in Unit
    <3>1. CASE u = unit /\ wins
      BY <3>1, <2>9
    <3>2. CASE ~(u = unit /\ wins)
      BY <3>2, <2>9
    <3> QED
      BY <3>1, <3>2
  <2>14. wins => current'[unit] # None /\ current'[unit].status = as
    <3> SUFFICES ASSUME wins
                 PROVE  current'[unit] # None /\ current'[unit].status = as
      OBVIOUS
    <3>1. current'[unit] = [status |-> as, sequence |-> number, fresh |-> TRUE]
      BY <2>9
    <3>2. current'[unit] # None
      BY <3>1, <2>11
    <3>3. [status |-> as, sequence |-> number, fresh |-> TRUE].status = as
      OBVIOUS
    <3> QED
      BY <3>1, <3>2, <3>3, Zenon
  <2> QED
    BY <1>2, <2>2, <2>8, <2>10, <2>12, <2>13, <2>14
<1> QED
  BY <1>1, <1>2

-----------------------------------------------------------------------------
(* LangGraph *)

GraphInv == Recorded /\ GraphSpans /\ GraphFailure

\* The node of a task has reported a failure last, or something else.
Reported(t, as) ==
  failed' = IF as = "failed" THEN failed \cup {NodeOf[t]} ELSE failed \ {NodeOf[t]}

\* What a task reports changes the current state of its node only.
LEMMA ProjectShows ==
  ASSUME GraphInv, kind = "langgraph", kind' = kind,
         NEW t \in Task, NEW as \in Statuses, NEW number \in 0 .. 1, NEW works \in BOOLEAN,
         Project(t, as, number, works), Reported(t, as),
         as = "failed" => number = 1
  PROVE  /\ current' \in [Unit -> Snapshots \cup {None}]
         /\ unknown' \in SUBSET Unit
         /\ failed' \in SUBSET Unit
         /\ GraphFailure'
<1> DEFINE unit == NodeOf[t]
<1>1. unit \in Unit /\ number \in Nat /\ number <= 1
  BY TaskAssumption
<1>2. /\ Snapshot(unit, as, number, works)
      /\ failed' = IF as = "failed" THEN failed \cup {unit} ELSE failed \ {unit}
  BY DEF Project, Reported
<1> HIDE DEF unit
<1>3. /\ current \in [Unit -> Snapshots \cup {None}] /\ unknown \in SUBSET Unit
      /\ failed \in SUBSET Unit
      /\ \A u \in Unit : current[u] # None => current[u].sequence <= 1
      /\ \A u \in failed :
           u \in unknown \/ (current[u] # None /\ current[u].status = "failed")
  BY DEF GraphInv, Recorded, GraphFailure
<1>0. SnapshotShown(unit, as, number, works)
  <2>1. Recorded
    BY DEF GraphInv
  <2> QED
    BY <1>1, <1>2, <2>1, SnapshotShows, Zenon
<1>4. /\ current' \in [Unit -> Snapshots \cup {None}]
      /\ unknown' \in SUBSET Unit /\ unknown \subseteq unknown'
      /\ ~works => unit \in unknown'
      /\ \A u \in Unit : u # unit /\ current[u] # None =>
           current'[u] # None /\ current'[u].status = current[u].status
      /\ \A u \in Unit : current'[u] # None =>
           \/ current[u] # None /\ current'[u].sequence = current[u].sequence
           \/ current'[u].sequence = number
      /\ works /\ (current[unit] = None \/ current[unit].sequence <= number) =>
           current'[unit] # None /\ current'[unit].status = as
  BY <1>0 DEF SnapshotShown
<1>5. failed' \in SUBSET Unit
  BY <1>1, <1>2, <1>3
<1>6. \A u \in Unit : current'[u] # None => current'[u].sequence <= 1
  BY <1>1, <1>3, <1>4
<1>7. ASSUME NEW u \in failed'
      PROVE  u \in unknown' \/ (current'[u] # None /\ current'[u].status = "failed")
  <2>1. CASE u = unit
    <3>1. as = "failed" /\ number = 1
      BY <1>2, <2>1
    <3>2. works => current'[unit] # None /\ current'[unit].status = as
      BY <1>1, <1>3, <1>4, <3>1
    <3> QED
      BY <1>4, <2>1, <3>1, <3>2
  <2>2. CASE u # unit
    <3>1. u \in failed /\ u \in Unit
      BY <1>2, <1>3, <2>2
    <3> QED
      BY <1>3, <1>4, <2>2, <3>1
  <2> QED
    BY <2>1, <2>2
<1> QED
  BY <1>1, <1>4, <1>5, <1>6, <1>7 DEF GraphFailure

LEMMA TaskStartsKeeps ==
  ASSUME GraphInv, Streaming("langgraph"), NEW t \in Task, TaskStarts(t),
         Reported(t, "running"), UNCHANGED <<kind, phase>>
  PROVE  GraphInv'
<1>1. PICK span \in BOOLEAN, snap \in BOOLEAN :
        /\ rows' = Started(span)
        /\ open' = [x \in Running \cup {t} |-> IF x = t THEN RefIf(span) ELSE open[x]]
        /\ Project(t, "running", 0, snap)
  BY DEF TaskStarts, Works
<1>2. kind = "langgraph" /\ kind' = kind /\ phase = "stream" /\ phase' = phase
  BY DEF Streaming
<1>3. /\ current' \in [Unit -> Snapshots \cup {None}]
      /\ unknown' \in SUBSET Unit
      /\ failed' \in SUBSET Unit
      /\ GraphFailure'
  BY <1>1, <1>2, ProjectShows DEF Statuses
<1>4. rows \in Seq(Spans)
  BY DEF GraphInv, Recorded
<1>5. /\ Started(span) \in Seq(Spans)
      /\ \A i \in DOMAIN Started(span) :
           \/ i \in DOMAIN rows /\ Started(span)[i] = rows[i]
           \/ span /\ i = RefIf(span)
  BY <1>4, StartedOpens
<1>6. /\ Running' = Running \cup {t}
      /\ todo \cap Running = {} /\ t \in todo /\ todo' = todo \ {t}
  BY <1>1 DEF Running, TaskStarts, GraphInv, GraphSpans
<1>7. \A i \in DOMAIN rows : Opened(rows[i]) => \E x \in Running : open[x] = i
  BY <1>2 DEF GraphInv, GraphSpans
<1>8. \A i \in DOMAIN rows' : Opened(rows'[i]) => \E x \in Running' : open'[x] = i
  <2> TAKE i \in DOMAIN rows'
  <2> HAVE Opened(rows'[i])
  <2>1. CASE i \in DOMAIN rows /\ rows'[i] = rows[i]
    <3>1. PICK x \in Running : open[x] = i
      BY <1>7, <2>1
    <3>2. x # t
      BY <1>6
    <3> QED
      BY <1>1, <1>6, <3>1, <3>2
  <2>2. CASE span /\ i = RefIf(span)
    BY <1>1, <1>6, <2>2
  <2> QED
    BY <1>1, <1>5, <2>1, <2>2
<1>9. GraphSpans'
  BY <1>2, <1>6, <1>8 DEF GraphSpans
<1> QED
  BY <1>1, <1>3, <1>5, <1>9 DEF GraphInv, Recorded

LEMMA TaskEndsKeeps ==
  ASSUME GraphInv, Streaming("langgraph"), NEW t \in Task,
         NEW how \in {"succeeded", "waiting", "failed"}, TaskEnds(t, how),
         Reported(t, how), UNCHANGED <<kind, phase>>
  PROVE  GraphInv'
<1> DEFINE as == IF how = "failed" THEN how ELSE "succeeded"
<1>1. PICK span \in BOOLEAN, snap \in BOOLEAN :
        /\ rows' = Ended(rows, {open[t]}, as, span)
        /\ Project(t, how, 1, snap)
  BY DEF TaskEnds, Works
<1>2. kind = "langgraph" /\ kind' = kind /\ phase = "stream" /\ phase' = phase
  BY DEF Streaming
<1>3. /\ current' \in [Unit -> Snapshots \cup {None}]
      /\ unknown' \in SUBSET Unit
      /\ failed' \in SUBSET Unit
      /\ GraphFailure'
  BY <1>1, <1>2, ProjectShows DEF Statuses
<1>4. rows \in Seq(Spans) /\ as \in Statuses \ {"running"}
  BY DEF GraphInv, Recorded, Statuses
<1> HIDE DEF as
<1>0. Closes(rows, {open[t]}, Ended(rows, {open[t]}, as, span))
  BY <1>4, EndedCloses
<1>5. /\ rows' \in Seq(Spans) /\ DOMAIN rows' = DOMAIN rows
      /\ \A i \in DOMAIN rows : Opened(rows'[i]) => Opened(rows[i]) /\ i \notin {open[t]}
  BY <1>0, <1>1 DEF Closes
<1>6. /\ open' = [x \in Running \ {t} |-> open[x]]
      /\ todo \cap Running = {} /\ todo' = todo
  BY DEF TaskEnds, GraphInv, GraphSpans
<1>7. Running' = Running \ {t}
  BY <1>6 DEF Running
<1>8. \A i \in DOMAIN rows : Opened(rows[i]) => \E x \in Running : open[x] = i
  BY <1>2 DEF GraphInv, GraphSpans
<1>9. \A i \in DOMAIN rows' : Opened(rows'[i]) => \E x \in Running' : open'[x] = i
  BY <1>5, <1>6, <1>7, <1>8
<1>10. GraphSpans'
  BY <1>2, <1>6, <1>7, <1>9 DEF GraphSpans
<1> QED
  BY <1>3, <1>5, <1>10 DEF GraphInv, Recorded

\* The replay reports what the loop has buffered, each operation of its kind.
LEMMA ReplayRecords ==
  ASSUME Recorded, StepsTyped, Replay, failed' = failed
  PROVE  Recorded'
<1> DEFINE op == Head(buffer)
<1>1. op \in Ops
  BY DEF StepsTyped, Replay
<1>2. rows \in Seq(Spans)
  BY DEF Recorded
<1>3. CASE op.do = "start"
  <2>1. PICK works \in BOOLEAN : rows' = Started(works) /\ UNCHANGED <<current, unknown>>
    BY <1>3 DEF Replay, Works
  <2>2. Started(works) \in Seq(Spans)
    BY <1>2, StartedOpens
  <2> QED
    BY <2>1, <2>2 DEF Recorded
<1>4. CASE op.do = "end"
  <2>1. op.status \in Statuses \ {"running"}
    BY <1>1, <1>4 DEF Ops, Starts, Ends, Projections
  <2>2. PICK works \in BOOLEAN :
          rows' = Ended(rows, {refs[op.ref]}, op.status, works) /\ UNCHANGED <<current, unknown>>
    BY <1>4 DEF Replay, Works
  <2> HIDE DEF op
  <2>3. Closes(rows, {refs[op.ref]}, Ended(rows, {refs[op.ref]}, op.status, works))
    BY <1>2, <2>1, EndedCloses
  <2> QED
    BY <2>2, <2>3 DEF Recorded, Closes
<1>5. CASE op.do = "snapshot"
  <2>1. op.unit \in Unit /\ op.status \in Statuses /\ op.sequence \in Nat
    BY <1>1, <1>5 DEF Ops, Starts, Ends, Projections
  <2>2. PICK works \in BOOLEAN :
          Snapshot(op.unit, op.status, op.sequence, works) /\ UNCHANGED rows
    BY <1>5 DEF Replay, Works
  <2> HIDE DEF op
  <2>3. SnapshotShown(op.unit, op.status, op.sequence, works)
    BY <2>1, <2>2, SnapshotShows, Zenon
  <2> QED
    BY <2>2, <2>3 DEF Recorded, SnapshotShown
<1> QED
  BY <1>1, <1>3, <1>4, <1>5 DEF Ops, Starts, Ends, Projections

LEMMA GraphKeeps ==
  ASSUME Controlled, GraphInv, StepsTyped, [Next]_vars
  PROVE  GraphInv'
<1>1. CASE Run \/ \E u \in User : Answer(u) /\ status = "waiting"
  <2>1. /\ UNCHANGED <<records, kind, failed>>
        /\ open' = <<>>
        /\ phase = "idle"
    BY <1>1 DEF Run, Answer, GraphStarts, Controlled
  <2>2. Running = {} /\ Running' = {}
    BY <2>1 DEF Running, GraphInv, GraphSpans
  <2> QED
    BY <2>1, <2>2 DEF GraphInv, Recorded, GraphSpans, GraphFailure, records
<1>2. CASE GraphEvent
  <2> /\ Streaming("langgraph") /\ UNCHANGED <<kind, phase>>
    BY <1>2 DEF GraphEvent
  <2>1. PICK t \in Task :
          \/ TaskStarts(t) /\ Reported(t, "running")
          \/ \E how \in {"succeeded", "waiting", "failed"} :
               TaskEnds(t, how) /\ Reported(t, how)
    BY <1>2 DEF GraphEvent, Reported
  <2>2. CASE TaskStarts(t) /\ Reported(t, "running")
    BY <2>2, TaskStartsKeeps
  <2>3. ASSUME NEW how \in {"succeeded", "waiting", "failed"},
               TaskEnds(t, how), Reported(t, how)
        PROVE  GraphInv'
    BY <2>3, TaskEndsKeeps
  <2> QED
    BY <2>1, <2>2, <2>3
<1>3. CASE GraphFails
  <2>1. PICK works \in BOOLEAN : rows' = Ended(rows, {open[t] : t \in Running}, "failed", works)
    BY <1>3 DEF GraphFails, GraphRaises, Works
  <2>2. /\ open' = <<>> /\ todo' = {} /\ UNCHANGED <<current, unknown, failed, kind>>
        /\ kind = "langgraph"
    BY <1>3 DEF GraphFails, GraphRaises, Streaming
  <2>3. rows \in Seq(Spans)
    BY DEF GraphInv, Recorded
  <2>4. Closes(rows, {open[t] : t \in Running},
               Ended(rows, {open[t] : t \in Running}, "failed", works))
    BY <2>3, EndedCloses DEF Statuses
  <2>5. /\ rows' \in Seq(Spans) /\ DOMAIN rows' = DOMAIN rows
        /\ \A i \in DOMAIN rows :
             Opened(rows'[i]) => Opened(rows[i]) /\ i \notin {open[t] : t \in Running}
    BY <2>1, <2>4 DEF Closes
  <2>6. \A i \in DOMAIN rows : ~Opened(rows'[i])
    BY <2>2, <2>5 DEF GraphInv, GraphSpans
  <2>7. Running' = {}
    BY <2>2 DEF Running
  <2> QED
    BY <2>2, <2>5, <2>6, <2>7 DEF GraphInv, Recorded, GraphSpans, GraphFailure
<1>4. CASE GraphEnds
  <2>1. Running = {} /\ UNCHANGED <<records, graph, kind, failed>>
    BY <1>4 DEF GraphEnds, GraphReturns
  <2> QED
    BY <2>1 DEF GraphInv, Recorded, GraphSpans, GraphFailure, records, graph, Running
<1>5. CASE StepEvent \/ LoopEnds
  <2>1. /\ UNCHANGED <<records, graph, kind>> /\ kind = "llamaindex"
        /\ failed' = failed \/ \E u \in Unit : failed' = {u}
    BY <1>5 DEF StepEvent, LoopEnds, Streaming, StepRuns, StepStops, StepFails, StepsRaise,
                StepsReturn
  <2> QED
    BY <2>1 DEF GraphInv, Recorded, GraphSpans, GraphFailure, records, graph, Running
<1>6. CASE ReplayNext
  <2>1. UNCHANGED <<graph, control>> /\ Replay /\ kind = "llamaindex"
    BY <1>6 DEF ReplayNext, Controlled
  <2>2. Recorded'
    BY <2>1, ReplayRecords DEF GraphInv, control
  <2> QED
    BY <2>1, <2>2 DEF GraphInv, GraphSpans, GraphFailure, graph, control, Running
<1>7. CASE \/ Finish \/ Expire \/ UNCHANGED vars
           \/ \E u \in User : OpenForm(u) \/ Submit(u)
           \/ \E u \in User : Answer(u) /\ status # "waiting"
  <2>1. /\ UNCHANGED <<records, graph, kind, failed>>
        /\ \/ phase' = phase
           \/ phase # "stream" /\ phase' = "idle"
    BY <1>7 DEF Finish, Expire, OpenForm, Submit, Answer, vars, control
  <2> QED
    BY <2>1 DEF GraphInv, Recorded, GraphSpans, GraphFailure, records, graph, Running
<1> QED
  BY <1>1, <1>2, <1>3, <1>4, <1>5, <1>6, <1>7 DEF Next

-----------------------------------------------------------------------------
(* Sequences *)

\* The position of the last pending entry of a step, or 0, is one of pending.
LEMMA LastPendingIs ==
  ASSUME NEW s, pending \in Seq([step: Unit, ref: Nat])
  PROVE  LastPending(s) \in 0 .. Len(pending)
<1> DEFINE n == Len(pending)
           I == {i \in 1 .. n : pending[i].step = s}
           Down == {n - i : i \in I}
<1>1. n \in Nat /\ I \subseteq 1 .. n
  OBVIOUS
<1>2. LastPending(s) = IF I # {} THEN Max(I) ELSE 0
  BY DEF LastPending, SelectLastInSeq
<1>3. ASSUME I # {}
      PROVE  \E x \in I : \A y \in I : x >= y
  <2>1. Down \subseteq Nat /\ Down # {}
    BY <1>1, <1>3
  <2>2. PICK d \in Down : \A e \in Down : ~(<<e, d>> \in OpToRel(<, Nat))
    BY <2>1, NatLessThanWellFounded, WFMin
  <2>3. \A e \in Down : ~(e < d)
    BY <2>1, <2>2 DEF OpToRel
  <2>4. PICK x \in I : d = n - x
    BY <2>2
  <2>5. \A y \in I : n - y \in Down
    OBVIOUS
  <2> HIDE DEF I, Down
  <2>6. \A y \in I : x >= y
    BY <1>1, <2>3, <2>4, <2>5
  <2> QED
    BY <2>4, <2>6
<1>4. ASSUME I # {}
      PROVE  Max(I) \in I
  BY <1>3, <1>4 DEF Max
<1> HIDE DEF I
<1>5. CASE I = {}
  BY <1>1, <1>2, <1>5
<1>6. CASE I # {}
  <2>1. LastPending(s) \in 1 .. n
    BY <1>1, <1>2, <1>4, <1>6
  <2> QED
    BY <1>1, <2>1
<1> QED
  BY <1>5, <1>6

\* SetToSeq lists a finite set.
LEMMA SetToSeqLists ==
  ASSUME NEW S, IsFiniteSet(S)
  PROVE  /\ SetToSeq(S) \in Seq(S)
         /\ \A x \in S : \E i \in DOMAIN SetToSeq(S) : SetToSeq(S)[i] = x
<1> DEFINE n == Cardinality(S)
<1>1. n \in Nat /\ ExistsBijection(1 .. n, S)
  BY FS_CardinalityType
<1>2. \E f \in [1 .. n -> S] : IsInjective(f)
  BY <1>1 DEF ExistsBijection, Bijection, Injection
<1>3. SetToSeq(S) \in [1 .. n -> S] /\ IsInjective(SetToSeq(S))
  BY <1>2 DEF SetToSeq
<1>4. SetToSeq(S) \in Injection(1 .. n, S)
  BY <1>3 DEF Injection
<1>5. Cardinality(1 .. n) = n
  BY <1>1, FS_Interval
<1>6. SetToSeq(S) \in Surjection(1 .. n, S)
  BY <1>4, <1>5, FS_Injection
<1>7. \A x \in S : \E i \in 1 .. n : SetToSeq(S)[i] = x
  BY <1>6 DEF Surjection
<1> HIDE DEF n
<1>8. SetToSeq(S) \in Seq(S) /\ DOMAIN SetToSeq(S) = 1 .. n
  BY <1>1, <1>3
<1> QED
  BY <1>7, <1>8

\* Taking the last element off a sequence.
LEMMA FrontAndLast ==
  ASSUME NEW T, NEW q \in Seq(T), q # <<>>
  PROVE  /\ Len(q) \in DOMAIN q /\ Last(q) = q[Len(q)] /\ Last(q) \in T
         /\ Front(q) \in Seq(T) /\ Len(Front(q)) = Len(q) - 1
         /\ \A i \in DOMAIN Front(q) : i \in DOMAIN q /\ Front(q)[i] = q[i]
         /\ \A i \in DOMAIN q : i = Len(q) \/ (i \in DOMAIN Front(q) /\ Front(q)[i] = q[i])
<1>1. Len(q) \in Nat \ {0} /\ DOMAIN q = 1 .. Len(q)
  OBVIOUS
<1>2. /\ Front(q) \in Seq(T) /\ Len(Front(q)) = Len(q) - 1
      /\ \A i \in 1 .. Len(q) - 1 : Front(q)[i] = q[i]
  BY <1>1 DEF Front
<1>3. DOMAIN Front(q) = 1 .. Len(q) - 1
  BY <1>2
<1>4. Last(q) = q[Len(q)] /\ Last(q) \in T
  BY <1>1 DEF Last
<1> QED
  BY <1>1, <1>2, <1>3, <1>4

\* Taking an element out of a sequence.
LEMMA RemovedAt ==
  ASSUME NEW T, NEW q \in Seq(T), NEW p \in 1 .. Len(q)
  PROVE  /\ RemoveAt(q, p) \in Seq(T)
         /\ \A i \in DOMAIN RemoveAt(q, p) : \E j \in DOMAIN q : RemoveAt(q, p)[i] = q[j]
         /\ \A j \in DOMAIN q : j = p \/ \E i \in DOMAIN RemoveAt(q, p) : RemoveAt(q, p)[i] = q[j]
<1> DEFINE a == SubSeq(q, 1, p - 1)
           b == SubSeq(q, p + 1, Len(q))
<1>1. /\ a \in Seq(T) /\ Len(a) = p - 1 /\ \A i \in 1 .. p - 1 : a[i] = q[i]
      /\ b \in Seq(T) /\ Len(b) = Len(q) - p /\ \A i \in 1 .. Len(q) - p : b[i] = q[p + i]
  OBVIOUS
<1> HIDE DEF a, b
<1>0. a \o b \in Seq(T) /\ Len(a \o b) = Len(q) - 1
  <2>0. a \in Seq(T) /\ b \in Seq(T)
    BY <1>1
  <2>1. a \o b \in Seq(T) /\ Len(a \o b) = Len(a) + Len(b)
    BY <2>0, ConcatProperties
  <2>2. Len(q) \in Nat /\ (p - 1) + (Len(q) - p) = Len(q) - 1
    OBVIOUS
  <2> QED
    BY <1>1, <2>1, <2>2
<1>8. \A i \in 1 .. p - 1 : (a \o b)[i] = q[i]
  BY <1>1
<1>9. \A i \in p .. Len(q) - 1 : (a \o b)[i] = q[i + 1]
  <2> TAKE i \in p .. Len(q) - 1
  <2>1. (a \o b)[i] = b[i - (p - 1)]
    BY <1>1
  <2>2. i - (p - 1) \in 1 .. Len(q) - p /\ p + (i - (p - 1)) = i + 1
    OBVIOUS
  <2> QED
    BY <1>1, <2>1, <2>2
<1>2. /\ a \o b \in Seq(T) /\ Len(a \o b) = Len(q) - 1
      /\ \A i \in 1 .. p - 1 : (a \o b)[i] = q[i]
      /\ \A i \in p .. Len(q) - 1 : (a \o b)[i] = q[i + 1]
  BY <1>0, <1>8, <1>9
<1>3. RemoveAt(q, p) = a \o b
  BY DEF RemoveAt, a, b
<1> DEFINE r == a \o b
<1>4. r \in Seq(T) /\ DOMAIN r = 1 .. Len(q) - 1 /\ DOMAIN q = 1 .. Len(q)
  BY <1>2
<1>5. /\ \A i \in 1 .. p - 1 : r[i] = q[i]
      /\ \A i \in p .. Len(q) - 1 : r[i] = q[i + 1]
  BY <1>2
<1> HIDE DEF r
<1>6. \A i \in DOMAIN r : \E j \in DOMAIN q : r[i] = q[j]
  <2> TAKE i \in DOMAIN r
  <2>1. CASE i < p
    BY <1>4, <1>5, <2>1
  <2>2. CASE i >= p
    <3>1. i + 1 \in DOMAIN q /\ r[i] = q[i + 1]
      BY <1>4, <1>5, <2>2
    <3> QED
      BY <3>1
  <2> QED
    BY <1>4, <2>1, <2>2
<1>7. \A j \in DOMAIN q : j = p \/ \E i \in DOMAIN r : r[i] = q[j]
  <2> TAKE j \in DOMAIN q
  <2>1. CASE j < p
    BY <1>4, <1>5, <2>1
  <2>2. CASE j > p
    <3>1. j - 1 \in p .. Len(q) - 1 /\ (j - 1) + 1 = j
      BY <1>4, <2>2
    <3>2. j - 1 \in DOMAIN r /\ r[j - 1] = q[j]
      BY <1>4, <1>5, <3>1
    <3> QED
      BY <3>2
  <2> QED
    BY <1>4, <2>1, <2>2
<1> QED
  BY <1>3, <1>4, <1>6, <1>7 DEF r

-----------------------------------------------------------------------------
(* The buffer *)

\* What concatenation does to a buffer.
LEMMA Joined ==
  ASSUME NEW b \in Seq(Ops), NEW e \in Seq(Ops)
  PROVE  /\ b \o e \in Seq(Ops)
         /\ Len(b) \in Nat /\ Len(e) \in Nat
         /\ DOMAIN b = 1 .. Len(b) /\ DOMAIN e = 1 .. Len(e)
         /\ DOMAIN (b \o e) = 1 .. Len(b) + Len(e)
         /\ \A i \in 1 .. Len(b) : (b \o e)[i] = b[i]
         /\ \A i \in 1 .. Len(e) : (b \o e)[Len(b) + i] = e[i]
         /\ \A i \in 1 .. Len(b) + Len(e) :
              \/ i \in 1 .. Len(b) /\ (b \o e)[i] = b[i]
              \/ i - Len(b) \in 1 .. Len(e) /\ (b \o e)[i] = e[i - Len(b)]
<1>1. Len(b) \in Nat /\ Len(e) \in Nat /\ DOMAIN b = 1 .. Len(b) /\ DOMAIN e = 1 .. Len(e)
  OBVIOUS
<1>2. /\ b \o e \in Seq(Ops)
      /\ Len(b \o e) = Len(b) + Len(e)
      /\ \A i \in 1 .. Len(b) + Len(e) :
           (b \o e)[i] = IF i <= Len(b) THEN b[i] ELSE e[i - Len(b)]
  BY ConcatProperties
<1> DEFINE j == b \o e
<1>3. j \in Seq(Ops) /\ DOMAIN j = 1 .. Len(b) + Len(e)
  BY <1>2
<1>4. \A i \in 1 .. Len(b) + Len(e) : j[i] = IF i <= Len(b) THEN b[i] ELSE e[i - Len(b)]
  BY <1>2
<1> HIDE DEF j
<1>5. \A i \in 1 .. Len(b) : j[i] = b[i]
  BY <1>1, <1>4
<1>6. \A i \in 1 .. Len(e) : j[Len(b) + i] = e[i]
  <2> TAKE i \in 1 .. Len(e)
  <2>1. /\ Len(b) + i \in 1 .. Len(b) + Len(e)
        /\ ~(Len(b) + i <= Len(b)) /\ (Len(b) + i) - Len(b) = i
    BY <1>1
  <2> QED
    BY <1>4, <2>1
<1>7. \A i \in 1 .. Len(b) + Len(e) :
        \/ i \in 1 .. Len(b) /\ j[i] = b[i]
        \/ i - Len(b) \in 1 .. Len(e) /\ j[i] = e[i - Len(b)]
  BY <1>1, <1>4
<1> QED
  BY <1>1, <1>3, <1>5, <1>6, <1>7 DEF j

\* A buffer ends what its parts end.
LEMMA EndsInJoined ==
  ASSUME NEW b \in Seq(Ops), NEW e \in Seq(Ops), NEW id, EndsIn(b, id) \/ EndsIn(e, id)
  PROVE  EndsIn(b \o e, id)
<1> DEFINE j == b \o e
<1>1. /\ Len(b) \in Nat /\ Len(e) \in Nat
      /\ DOMAIN b = 1 .. Len(b) /\ DOMAIN e = 1 .. Len(e)
      /\ DOMAIN j = 1 .. Len(b) + Len(e)
      /\ \A i \in 1 .. Len(b) : j[i] = b[i]
      /\ \A i \in 1 .. Len(e) : j[Len(b) + i] = e[i]
  BY Joined
<1> HIDE DEF j
<1>2. ASSUME EndsIn(b, id) PROVE EndsIn(j, id)
  BY <1>1, <1>2 DEF EndsIn
<1>3. ASSUME EndsIn(e, id) PROVE EndsIn(j, id)
  <2>1. PICK i \in 1 .. Len(e) : e[i].do = "end" /\ e[i].ref = id
    BY <1>1, <1>3 DEF EndsIn
  <2>2. Len(b) + i \in DOMAIN j /\ j[Len(b) + i] = e[i]
    BY <1>1
  <2> QED
    BY <2>1, <2>2 DEF EndsIn
<1>4. EndsIn(j, id)
  BY <1>2, <1>3
<1> QED
  BY <1>4 DEF j

\* Operations that start no span may follow, once all starts are buffered.
LEMMA NumberedEnds ==
  ASSUME NEW b \in Seq(Ops), NEW e \in Seq(Ops), NEW total \in Nat, Numbered(b, total, 0),
         \A i \in DOMAIN e : e[i].do = "snapshot" \/ (e[i].do = "end" /\ e[i].ref \in 1 .. total)
  PROVE  Numbered(b \o e, total, 0)
<1> DEFINE j == b \o e
           n == Len(b)
           m == Len(e)
<1>1. /\ n \in Nat /\ m \in Nat /\ DOMAIN b = 1 .. n /\ DOMAIN e = 1 .. m
      /\ DOMAIN j = 1 .. n + m
      /\ \A i \in 1 .. n : j[i] = b[i]
      /\ \A i \in 1 .. n + m :
              \/ i \in 1 .. n /\ j[i] = b[i]
              \/ i - n \in 1 .. m /\ j[i] = e[i - n]
  BY Joined
<1> HIDE DEF j, n, m
<1>2. \A i \in 1 .. n + m : j[i].do = "start" => i \in 1 .. n
  BY <1>1
<1>3. \A i, k \in DOMAIN j :
        i < k /\ j[i].do = "start" /\ j[k].do = "start" => j[i].ref < j[k].ref
  BY <1>1, <1>2 DEF Numbered
<1>4. \A i \in DOMAIN j : j[i].do = "start" => j[i].ref \in 0 + 1 .. total
  BY <1>1, <1>2 DEF Numbered
<1>5. \A id \in 0 + 1 .. total : \E i \in DOMAIN j : i \in 1 .. n /\ j[i].do = "start" /\ j[i].ref = id
  <2> TAKE id \in 0 + 1 .. total
  <2>1. PICK i \in 1 .. n : b[i].do = "start" /\ b[i].ref = id
    BY <1>1 DEF Numbered
  <2> QED
    BY <1>1, <2>1
<1>6. ASSUME NEW i \in DOMAIN j, j[i].do = "end"
      PROVE  /\ j[i].ref \in 1 .. total
             /\ \/ j[i].ref <= 0
                \/ \E k \in 1 .. i - 1 : j[k].do = "start" /\ j[k].ref = j[i].ref
  <2>1. CASE i \in 1 .. n
    <3>1. j[i] = b[i] /\ b[i].ref \in 1 .. total
      BY <1>1, <1>6, <2>1 DEF Numbered
    <3>2. PICK k \in 1 .. i - 1 : b[k].do = "start" /\ b[k].ref = b[i].ref
      BY <1>1, <1>6, <2>1, <3>1 DEF Numbered
    <3>3. k \in 1 .. n /\ j[k] = b[k]
      BY <1>1, <2>1
    <3> QED
      BY <3>1, <3>2, <3>3
  <2>2. CASE i \notin 1 .. n
    <3>1. j[i] = e[i - n] /\ i - n \in 1 .. m
      BY <1>1, <2>2
    <3>2. j[i].ref \in 1 .. total
      BY <1>1, <1>6, <3>1
    <3>3. PICK k \in 1 .. n : j[k].do = "start" /\ j[k].ref = j[i].ref
      BY <1>1, <1>5, <3>2, SMTT(30)
    <3>4. k \in 1 .. i - 1
      BY <1>1, <2>2
    <3> QED
      BY <3>2, <3>3, <3>4
  <2> QED
    BY <2>1, <2>2
<1>7. Numbered(j, total, 0)
  BY <1>3, <1>4, <1>5, <1>6 DEF Numbered
<1> QED
  BY <1>7 DEF j

\* A span is started in the buffer before anything else is said of it.
LEMMA NumberedStarts ==
  ASSUME NEW b \in Seq(Ops), NEW total \in Nat, NEW shown \in Projections, Numbered(b, total, 0)
  PROVE  LET e == <<Start(total + 1), shown>>
         IN  e \in Seq(Ops) /\ Numbered(b \o e, total + 1, 0)
<1> DEFINE e == <<Start(total + 1), shown>>
           j == b \o e
           n == Len(b)
<1>1. /\ Start(total + 1) \in Ops /\ Start(total + 1).do = "start"
      /\ Start(total + 1).ref = total + 1
  BY DEF Ops, Start, Starts
<1>2. shown \in Ops /\ shown.do = "snapshot"
  BY DEF Ops, Projections
<1>3. e \in Seq(Ops) /\ Len(e) = 2 /\ e[1] = Start(total + 1) /\ e[2] = shown
  BY <1>1, <1>2
<1> HIDE DEF e
<1>4. /\ n \in Nat /\ DOMAIN b = 1 .. n
      /\ DOMAIN j = 1 .. n + 2
      /\ \A i \in 1 .. n : j[i] = b[i]
      /\ j[n + 1] = e[1] /\ j[n + 2] = e[2]
  <2>1. /\ Len(b) \in Nat /\ DOMAIN b = 1 .. Len(b)
        /\ DOMAIN j = 1 .. Len(b) + Len(e)
        /\ \A i \in 1 .. Len(b) : j[i] = b[i]
        /\ \A i \in 1 .. Len(e) : j[Len(b) + i] = e[i]
    BY <1>3, Joined
  <2> HIDE DEF j
  <2>2. 1 \in 1 .. Len(e) /\ 2 \in 1 .. Len(e)
    BY <1>3
  <2> QED
    BY <1>3, <2>1, <2>2
<1> HIDE DEF j, n
<1>5. \A i \in 1 .. n + 2 : i \in 1 .. n \/ i = n + 1 \/ i = n + 2
  BY <1>4
<1>6. /\ j[n + 1].do = "start" /\ j[n + 1].ref = total + 1
      /\ j[n + 2].do = "snapshot"
  BY <1>1, <1>2, <1>3, <1>4
<1>7. \A i \in DOMAIN j :
        /\ j[i].do = "start" => i = n + 1 \/ (i \in 1 .. n /\ j[i] = b[i])
        /\ j[i].do = "end" => i \in 1 .. n /\ j[i] = b[i]
  BY <1>4, <1>5, <1>6
<1>8. \A i \in 1 .. n : b[i].do = "start" => b[i].ref \in 1 .. total
  BY <1>4, SMTT(30) DEF Numbered
<1>14. \A i, k \in DOMAIN b :
        i < k /\ b[i].do = "start" /\ b[k].do = "start" => b[i].ref < b[k].ref
  BY Zenon DEF Numbered
<1>9. \A i, k \in DOMAIN j :
        i < k /\ j[i].do = "start" /\ j[k].do = "start" => j[i].ref < j[k].ref
  <2> TAKE i, k \in DOMAIN j
  <2> HAVE i < k /\ j[i].do = "start" /\ j[k].do = "start"
  <2>1. CASE k \in 1 .. n
    <3>1. i \in 1 .. n
      BY <1>4, <2>1
    <3>2. i \in DOMAIN b /\ k \in DOMAIN b /\ j[i] = b[i] /\ j[k] = b[k]
      BY <1>4, <2>1, <3>1
    <3> QED
      BY <1>14, <3>2
  <2>2. CASE k = n + 1
    <3>1. i \in 1 .. n /\ j[i] = b[i]
      BY <1>4, <2>2
    <3> QED
      BY <1>6, <1>8, <2>2, <3>1
  <2> QED
    BY <1>4, <1>7, <2>1, <2>2
<1>10. \A i \in DOMAIN j : j[i].do = "start" => j[i].ref \in 0 + 1 .. total + 1
  BY <1>6, <1>7, <1>8
<1>11. \A id \in 0 + 1 .. total + 1 : \E i \in DOMAIN j : j[i].do = "start" /\ j[i].ref = id
  <2> TAKE id \in 0 + 1 .. total + 1
  <2>1. CASE id \in 0 + 1 .. total
    <3>1. PICK i \in 1 .. n : b[i].do = "start" /\ b[i].ref = id
      BY <1>4, <2>1 DEF Numbered
    <3> QED
      BY <1>4, <3>1
  <2>2. CASE id = total + 1
    BY <1>4, <1>6, <2>2
  <2> QED
    BY <2>1, <2>2
<1>12. ASSUME NEW i \in DOMAIN j, j[i].do = "end"
      PROVE  /\ j[i].ref \in 1 .. total + 1
             /\ \/ j[i].ref <= 0
                \/ \E k \in 1 .. i - 1 : j[k].do = "start" /\ j[k].ref = j[i].ref
  <2>1. i \in 1 .. n /\ j[i] = b[i] /\ b[i].do = "end"
    BY <1>7, <1>12
  <2>2. b[i].ref \in 1 .. total
    BY <1>4, <2>1 DEF Numbered
  <2>3. PICK k \in 1 .. i - 1 : b[k].do = "start" /\ b[k].ref = b[i].ref
    BY <1>4, <2>1, <2>2 DEF Numbered
  <2>4. k \in 1 .. n /\ j[k] = b[k]
    BY <1>4, <2>1
  <2> QED
    BY <2>1, <2>2, <2>3, <2>4
<1>13. Numbered(j, total + 1, 0)
  BY <1>9, <1>10, <1>11, <1>12 DEF Numbered
<1> QED
  BY <1>3, <1>13 DEF e, j

\* What comes next in the replay starts the next span, or ends one that has
\* been started.
LEMMA NumberedHead ==
  ASSUME NEW b \in Seq(Ops), b # <<>>, NEW total \in Nat, NEW n \in Nat, n <= total,
         Numbered(b, total, n)
  PROVE  /\ Head(b).do = "start" =>
              /\ Head(b).ref = n + 1 /\ n + 1 <= total
              /\ Numbered(Tail(b), total, n + 1)
         /\ Head(b).do = "end" => Head(b).ref \in 1 .. n
         /\ Head(b).do # "start" => Numbered(Tail(b), total, n)
<1> DEFINE z == Tail(b)
<1>1. /\ Len(b) \in Nat \ {0} /\ DOMAIN b = 1 .. Len(b) /\ Head(b) = b[1]
      /\ DOMAIN z = 1 .. Len(b) - 1
      /\ \A i \in 1 .. Len(b) - 1 : i + 1 \in DOMAIN b /\ z[i] = b[i + 1]
  OBVIOUS
<1> HIDE DEF z
<1>0. \A i, k \in DOMAIN b :
        i < k /\ b[i].do = "start" /\ b[k].do = "start" => b[i].ref < b[k].ref
  BY Zenon DEF Numbered
<1>2. \A i \in DOMAIN b : i = 1 \/ (i - 1 \in DOMAIN z /\ z[i - 1] = b[i])
  BY <1>1
<1>3. ASSUME b[1].do = "end"
      PROVE  b[1].ref \in 1 .. n
  BY <1>1, <1>3 DEF Numbered
<1>4. ASSUME b[1].do = "start"
      PROVE  b[1].ref = n + 1 /\ n + 1 <= total
  <2>1. b[1].ref \in n + 1 .. total
    BY <1>1, <1>4 DEF Numbered
  <2>2. n + 1 \in n + 1 .. total
    BY <2>1
  <2>3. PICK i \in DOMAIN b : b[i].do = "start" /\ b[i].ref = n + 1
    BY <2>2 DEF Numbered
  <2>4. i = 1 \/ b[1].ref < b[i].ref
    BY <1>0, <1>1, <1>4, <2>3
  <2> QED
    BY <2>1, <2>3, <2>4
<1>5. \A i, k \in DOMAIN z :
        i < k /\ z[i].do = "start" /\ z[k].do = "start" => z[i].ref < z[k].ref
  <2> TAKE i, k \in DOMAIN z
  <2>1. i + 1 \in DOMAIN b /\ k + 1 \in DOMAIN b /\ z[i] = b[i + 1] /\ z[k] = b[k + 1]
    BY <1>1
  <2>2. i < k => i + 1 < k + 1
    BY <1>1
  <2> QED
    BY <1>0, <2>1, <2>2
<1> DEFINE m == IF b[1].do = "start" THEN n + 1 ELSE n
<1>6. \A i \in DOMAIN z : z[i].do = "start" => z[i].ref \in m + 1 .. total
  <2> TAKE i \in DOMAIN z
  <2> HAVE z[i].do = "start"
  <2>1. i + 1 \in DOMAIN b /\ z[i] = b[i + 1] /\ 1 < i + 1
    BY <1>1
  <2>2. b[i + 1].ref \in n + 1 .. total
    BY <2>1 DEF Numbered
  <2>3. b[1].do = "start" => b[1].ref < b[i + 1].ref
    BY <1>0, <1>1, <2>1
  <2> QED
    BY <1>4, <2>1, <2>2, <2>3
<1>7. \A id \in m + 1 .. total : \E i \in DOMAIN z : z[i].do = "start" /\ z[i].ref = id
  <2> TAKE id \in m + 1 .. total
  <2>1. id \in n + 1 .. total
    OBVIOUS
  <2>2. PICK i \in DOMAIN b : b[i].do = "start" /\ b[i].ref = id
    BY <2>1 DEF Numbered
  <2>3. i # 1
    BY <1>4, <2>2
  <2> QED
    BY <1>2, <2>2, <2>3
<1>8. ASSUME NEW i \in DOMAIN z, z[i].do = "end"
      PROVE  /\ z[i].ref \in 1 .. total
             /\ \/ z[i].ref <= m
                \/ \E k \in 1 .. i - 1 : z[k].do = "start" /\ z[k].ref = z[i].ref
  <2>1. i + 1 \in DOMAIN b /\ z[i] = b[i + 1] /\ i \in 1 .. Len(b) - 1
    BY <1>1
  <2>2. /\ z[i].ref \in 1 .. total
        /\ \/ z[i].ref <= n
           \/ \E k \in 1 .. (i + 1) - 1 : b[k].do = "start" /\ b[k].ref = z[i].ref
    BY <1>8, <2>1 DEF Numbered
  <2>3. CASE z[i].ref <= n
    BY <2>2, <2>3
  <2>4. ASSUME NEW k \in 1 .. (i + 1) - 1, b[k].do = "start", b[k].ref = z[i].ref
        PROVE  \/ z[i].ref <= m
               \/ \E l \in 1 .. i - 1 : z[l].do = "start" /\ z[l].ref = z[i].ref
    <3>1. CASE k = 1
      BY <1>4, <2>2, <2>4, <3>1
    <3>2. CASE k # 1
      <4>1. k \in DOMAIN b /\ k - 1 \in 1 .. i - 1
        BY <1>1, <2>1, <3>2
      <4>2. z[k - 1] = b[k]
        BY <1>2, <3>2, <4>1
      <4> QED
        BY <2>4, <4>1, <4>2
    <3> QED
      BY <3>1, <3>2
  <2> QED
    BY <2>2, <2>3, <2>4
<1>9. Numbered(z, total, m)
  BY <1>5, <1>6, <1>7, <1>8 DEF Numbered
<1> QED
  BY <1>1, <1>3, <1>4, <1>9 DEF z

-----------------------------------------------------------------------------
(* The event loop of LlamaIndex *)

StepInv == StepsTyped /\ Numbered(buffer, started, Len(refs)) /\ StepSpans

Known(id) == Stacked(id) \/ Pended(id) \/ Due(id)

\* What holds while the loop runs.
Looping ==
  /\ kind = "llamaindex" /\ phase = "stream" /\ rows = <<>> /\ refs = <<>> /\ raised = FALSE
  /\ Numbered(buffer, started, 0)
  /\ \A id \in 1 .. started : Known(id)

LEMMA LoopIs ==
  ASSUME StepInv, Streaming("llamaindex")
  PROVE  StepsTyped /\ Looping
<1>1. kind = "llamaindex" /\ phase = "stream"
  BY DEF Streaming
<1>2. rows = <<>> /\ refs = <<>> /\ raised = FALSE /\ \A id \in 1 .. started : Known(id)
  BY <1>1 DEF StepInv, StepSpans, Known
<1>3. Len(refs) = 0
  BY <1>2
<1> QED
  BY <1>1, <1>2, <1>3 DEF StepInv, Looping

\* Until it has ended, this is all there is to show.
LEMMA LoopGoesOn ==
  ASSUME StepsTyped', Looping'
  PROVE  StepInv'
<1>1. Len(refs') = 0 /\ DOMAIN rows' = {}
  BY DEF Looping
<1>2. StepSpans'
  BY <1>1, Zenon DEF Looping, StepSpans, Known
<1>3. Numbered(buffer, started, Len(refs))'
  BY <1>1 DEF Looping
<1> QED
  BY <1>2, <1>3 DEF StepInv

LEMMA StepRunsKeeps ==
  ASSUME StepsTyped, Looping, failed = {}, NEW s \in Unit, NEW w \in Worker, StepRuns(s, w),
         UNCHANGED <<kind, phase, raised, failed>>
  PROVE  StepsTyped' /\ Looping'
<1> DEFINE shown == Projection(s, "running", WorkerSequence(w, 0))
           e == <<Start(started + 1), shown>>
<1>1. /\ w \notin busy[s]
      /\ busy' = [busy EXCEPT ![s] = busy[s] \cup {w}]
      /\ started' = started + 1
      /\ stack' = [stack EXCEPT ![s] = Append(stack[s], started + 1)]
      /\ buffer' = buffer \o e
      /\ rows' = rows /\ pending' = pending /\ refs' = refs /\ stopped' = stopped
  BY DEF StepRuns, records
<1>2. shown \in Projections
  BY StepAssumption DEF Projection, Projections, Statuses, WorkerSequence
<1>3. buffer \in Seq(Ops) /\ started \in Nat /\ Numbered(buffer, started, 0)
  BY DEF StepsTyped, Looping
<1> HIDE DEF shown
<1>4. e \in Seq(Ops) /\ Numbered(buffer \o e, started + 1, 0)
  BY <1>2, <1>3, NumberedStarts
<1> HIDE DEF e
<1>5. buffer' \in Seq(Ops)
  BY <1>1, <1>3, <1>4, Joined
<1>6. /\ stack' \in [Unit -> Seq(Nat)]
      /\ \A u \in Unit : \A i \in DOMAIN stack'[u] : stack'[u][i] \in 1 .. started'
  <2>1. \A u \in Unit : stack[u] \in Seq(Nat) /\ \A i \in DOMAIN stack[u] : stack[u][i] \in 1 .. started
    BY DEF StepsTyped
  <2>2. /\ Append(stack[s], started + 1) \in Seq(Nat)
        /\ \A i \in DOMAIN Append(stack[s], started + 1) :
             Append(stack[s], started + 1)[i] \in 1 .. started + 1
    BY <1>3, <2>1
  <2>3. stack \in [Unit -> Seq(Nat)]
    BY DEF StepsTyped
  <2> QED
    BY <1>1, <1>3, <2>1, <2>2, <2>3
<1>7. /\ busy' \in [Unit -> SUBSET Worker]
      /\ \A u \in Unit : IsFiniteSet(busy'[u])
      /\ failed' = {} => \A u \in Unit : Len(stack'[u]) = Cardinality(busy'[u])
  <2>1. /\ busy \in [Unit -> SUBSET Worker] /\ stack \in [Unit -> Seq(Nat)]
        /\ \A u \in Unit : IsFiniteSet(busy[u]) /\ Len(stack[u]) = Cardinality(busy[u])
    BY DEF StepsTyped, Looping
  <2>2. IsFiniteSet(busy[s] \cup {w}) /\ Cardinality(busy[s] \cup {w}) = Cardinality(busy[s]) + 1
    BY <1>1, <2>1, FS_AddElement
  <2>3. Len(Append(stack[s], started + 1)) = Len(stack[s]) + 1
    BY <1>3, <2>1
  <2> QED
    BY <1>1, <2>1, <2>2, <2>3
<1>8. StepsTyped'
  <2>1. \A i \in DOMAIN pending : pending[i].ref \in 1 .. started + 1
    BY <1>3 DEF StepsTyped
  <2>2. Len(refs) <= started + 1 /\ refs \in Seq(Nat \cup {None})
    BY <1>3 DEF StepsTyped
  <2>3. \A i \in DOMAIN pending' : pending'[i].ref \in 1 .. started'
    BY <1>1, <2>1
  <2>4. refs' \in Seq(Nat \cup {None}) /\ Len(refs') <= started' /\ started' \in Nat
    BY <1>1, <1>3, <2>2
  <2>5. pending' \in Seq([step: Unit, ref: Nat]) /\ stopped' \in SUBSET Unit
    BY <1>1 DEF StepsTyped
  <2> QED
    BY <1>5, <1>6, <1>7, <2>3, <2>4, <2>5, Zenon DEF StepsTyped
<1>9. ASSUME NEW id \in 1 .. started'
      PROVE  Known(id)'
  <2>0. /\ stack[s] \in Seq(Nat) /\ stack \in [Unit -> Seq(Nat)]
    BY DEF StepsTyped
  <2>1. CASE id = started + 1
    <3>1. /\ Len(stack[s]) + 1 \in DOMAIN Append(stack[s], started + 1)
          /\ Append(stack[s], started + 1)[Len(stack[s]) + 1] = id
      BY <1>3, <2>0, <2>1
    <3> QED
      BY <1>1, <2>0, <3>1 DEF Known, Stacked
  <2>2. CASE id \in 1 .. started
    <3>1. Known(id)
      BY <2>2 DEF Looping
    <3>2. CASE Stacked(id)
      <4>0. PICK u \in Unit : \E i \in DOMAIN stack[u] : stack[u][i] = id
        BY <3>2 DEF Stacked
      <4>1. PICK i \in DOMAIN stack[u] : stack[u][i] = id
        BY <4>0
      <4>2. i \in DOMAIN stack'[u] /\ stack'[u][i] = id
        <5>1. CASE u = s
          <6>1. i \in DOMAIN Append(stack[s], started + 1) /\ Append(stack[s], started + 1)[i] = id
            BY <1>3, <2>0, <4>1, <5>1
          <6> QED
            BY <1>1, <2>0, <5>1, <6>1
        <5>2. CASE u # s
          BY <1>1, <2>0, <4>1, <5>2
        <5> QED
          BY <5>1, <5>2
      <4> QED
        BY <4>2 DEF Known, Stacked
    <3>3. CASE Pended(id)
      BY <1>1, <3>3 DEF Known, Pended
    <3>4. CASE Due(id)
      BY <1>1, <1>3, <1>4, <3>4, EndsInJoined DEF Known, Due
    <3> QED
      BY <3>1, <3>2, <3>3, <3>4 DEF Known
  <2> QED
    BY <1>1, <1>3, <2>1, <2>2
<1> QED
  BY <1>1, <1>4, <1>8, <1>9 DEF Looping

\* Taking the span of a step off its stack leaves the others where they are.
LEMMA Popped ==
  ASSUME StepsTyped, NEW s \in Unit, stack[s] # <<>>,
         stack' = [stack EXCEPT ![s] = Front(stack[s])], started' = started
  PROVE  /\ Last(stack[s]) \in 1 .. started
         /\ stack' \in [Unit -> Seq(Nat)]
         /\ Len(stack'[s]) = Len(stack[s]) - 1
         /\ \A u \in Unit : \A i \in DOMAIN stack'[u] : stack'[u][i] \in 1 .. started
         /\ \A id : Stacked(id) => id = Last(stack[s]) \/ Stacked(id)'
<1>1. stack \in [Unit -> Seq(Nat)]
  BY DEF StepsTyped
<1>2. \A u \in Unit : \A i \in DOMAIN stack[u] : stack[u][i] \in 1 .. started
  BY DEF StepsTyped
<1>3. stack[s] \in Seq(Nat)
  BY <1>1
<1>4. /\ Len(stack[s]) \in DOMAIN stack[s] /\ Last(stack[s]) = stack[s][Len(stack[s])]
      /\ Front(stack[s]) \in Seq(Nat) /\ Len(Front(stack[s])) = Len(stack[s]) - 1
      /\ \A i \in DOMAIN Front(stack[s]) : i \in DOMAIN stack[s] /\ Front(stack[s])[i] = stack[s][i]
      /\ \A i \in DOMAIN stack[s] :
           i = Len(stack[s]) \/ (i \in DOMAIN Front(stack[s]) /\ Front(stack[s])[i] = stack[s][i])
  BY <1>3, FrontAndLast
<1>5. stack'[s] = Front(stack[s]) /\ \A u \in Unit \ {s} : stack'[u] = stack[u]
  BY <1>1
<1>6. stack' \in [Unit -> Seq(Nat)]
  BY <1>1, <1>4
<1>7. \A u \in Unit : \A i \in DOMAIN stack'[u] : stack'[u][i] \in 1 .. started
  BY <1>2, <1>4, <1>5
<1>8. ASSUME NEW id, Stacked(id)
      PROVE  id = Last(stack[s]) \/ Stacked(id)'
  <2>1. PICK u \in Unit : \E i \in DOMAIN stack[u] : stack[u][i] = id
    BY <1>8 DEF Stacked
  <2>2. PICK i \in DOMAIN stack[u] : stack[u][i] = id
    BY <2>1
  <2>3. CASE u = s
    BY <1>4, <1>5, <2>2, <2>3 DEF Stacked
  <2>4. CASE u # s
    BY <1>5, <2>2, <2>4 DEF Stacked
  <2> QED
    BY <2>3, <2>4
<1> QED
  BY <1>2, <1>4, <1>5, <1>6, <1>7, <1>8

LEMMA StepStopsKeeps ==
  ASSUME StepsTyped, Looping, failed = {}, NEW s \in Unit, NEW w \in Worker, StepStops(s, w),
         UNCHANGED <<kind, phase, raised, failed>>
  PROVE  StepsTyped' /\ Looping'
<1> DEFINE shown == Projection(s, "succeeded", WorkerSequence(w, 1))
           entry == [step |-> s, ref |-> Last(stack[s])]
<1>1. /\ w \in busy[s]
      /\ busy' = [busy EXCEPT ![s] = busy[s] \ {w}]
      /\ stopped' = stopped \cup {s}
      /\ stack' = [stack EXCEPT ![s] = Front(stack[s])]
      /\ pending' = Append(pending, entry)
      /\ buffer' = Append(buffer, shown)
      /\ rows' = rows /\ started' = started /\ refs' = refs
  BY DEF StepStops, records
<1>2. shown \in Projections
  BY StepAssumption DEF Projection, Projections, Statuses, WorkerSequence
<1>3. shown \in Ops /\ shown.do = "snapshot"
  BY <1>2 DEF Ops, Projections
<1> HIDE DEF shown
<1>4. buffer \in Seq(Ops) /\ started \in Nat /\ Numbered(buffer, started, 0)
  BY DEF StepsTyped, Looping
<1>5. /\ buffer' = buffer \o <<shown>> /\ <<shown>> \in Seq(Ops)
      /\ DOMAIN <<shown>> = {1} /\ <<shown>>[1] = shown
  BY <1>1, <1>3, <1>4
<1>6. Numbered(buffer', started, 0) /\ buffer' \in Seq(Ops)
  <2>1. \A i \in DOMAIN <<shown>> : <<shown>>[i].do = "snapshot"
    BY <1>3, <1>5
  <2>2. Numbered(buffer \o <<shown>>, started, 0)
    BY <1>4, <1>5, <2>1, NumberedEnds
  <2> QED
    BY <1>1, <1>3, <1>4, <1>5, <2>2
<1>7. /\ busy \in [Unit -> SUBSET Worker] /\ stack \in [Unit -> Seq(Nat)]
      /\ \A u \in Unit : IsFiniteSet(busy[u]) /\ Len(stack[u]) = Cardinality(busy[u])
  BY DEF StepsTyped, Looping
<1>8. /\ IsFiniteSet(busy[s] \ {w}) /\ Cardinality(busy[s] \ {w}) = Cardinality(busy[s]) - 1
  BY <1>1, <1>7, FS_RemoveElement
<1>9. stack[s] # <<>>
  <2>1. Cardinality(busy[s]) # 0
    BY <1>1, <1>7, FS_EmptySet
  <2> QED
    BY <1>7, <2>1
<1>10. /\ Last(stack[s]) \in 1 .. started
       /\ stack' \in [Unit -> Seq(Nat)]
       /\ Len(stack'[s]) = Len(stack[s]) - 1
       /\ \A u \in Unit : \A i \in DOMAIN stack'[u] : stack'[u][i] \in 1 .. started
       /\ \A id : Stacked(id) => id = Last(stack[s]) \/ Stacked(id)'
  BY <1>1, <1>9, Popped
<1>11. /\ busy' \in [Unit -> SUBSET Worker]
       /\ \A u \in Unit : IsFiniteSet(busy'[u])
       /\ failed' = {} => \A u \in Unit : Len(stack'[u]) = Cardinality(busy'[u])
  <2>1. \A u \in Unit : Len(stack'[u]) = Cardinality(busy'[u])
    BY <1>1, <1>7, <1>8, <1>10
  <2> QED
    BY <1>1, <1>7, <1>8, <2>1
<1>12. entry \in [step: Unit, ref: Nat] /\ entry.ref = Last(stack[s])
  BY <1>4, <1>10
<1> HIDE DEF entry
<1>13. /\ pending \in Seq([step: Unit, ref: Nat])
       /\ \A i \in DOMAIN pending : pending[i].ref \in 1 .. started
  BY DEF StepsTyped
<1>14. /\ pending' \in Seq([step: Unit, ref: Nat])
       /\ DOMAIN pending' = 1 .. Len(pending) + 1 /\ Len(pending) \in Nat
       /\ DOMAIN pending = 1 .. Len(pending)
       /\ \A i \in DOMAIN pending : pending'[i] = pending[i]
       /\ pending'[Len(pending) + 1] = entry
  BY <1>1, <1>12, <1>13
<1>15. \A i \in DOMAIN pending' : pending'[i].ref \in 1 .. started
  <2> TAKE i \in DOMAIN pending'
  <2>1. CASE i \in DOMAIN pending
    BY <1>13, <1>14, <2>1
  <2>2. CASE i = Len(pending) + 1
    BY <1>10, <1>12, <1>14, <2>2
  <2> QED
    BY <1>14, <2>1, <2>2
<1>16. StepsTyped'
  <2>1. /\ refs' \in Seq(Nat \cup {None}) /\ Len(refs') <= started' /\ started' \in Nat
        /\ stopped' \in SUBSET Unit
    BY <1>1 DEF StepsTyped
  <2>2. /\ \A u \in Unit : \A i \in DOMAIN stack'[u] : stack'[u][i] \in 1 .. started'
        /\ \A i \in DOMAIN pending' : pending'[i].ref \in 1 .. started'
    BY <1>1, <1>10, <1>15
  <2> QED
    BY <1>6, <1>10, <1>11, <1>14, <2>1, <2>2, Zenon DEF StepsTyped
<1>17. ASSUME NEW id \in 1 .. started'
       PROVE  Known(id)'
  <2>1. Known(id)
    BY <1>1 DEF Looping
  <2>2. CASE Stacked(id)
    <3>1. CASE Stacked(id)'
      BY <3>1 DEF Known
    <3>2. CASE id = Last(stack[s])
      <4>1. Len(pending) + 1 \in DOMAIN pending' /\ pending'[Len(pending) + 1].ref = id
        BY <1>12, <1>14, <3>2
      <4> QED
        BY <4>1 DEF Known, Pended
    <3> QED
      BY <1>10, <2>2, <3>1, <3>2
  <2>3. CASE Pended(id)
    <3>1. PICK i \in DOMAIN pending : pending[i].ref = id
      BY <2>3 DEF Pended
    <3>2. i \in DOMAIN pending' /\ pending'[i].ref = id
      BY <1>14, <3>1
    <3> QED
      BY <3>2 DEF Known, Pended
  <2>4. CASE Due(id)
    BY <1>4, <1>5, <2>4, EndsInJoined DEF Known, Due
  <2> QED
    BY <2>1, <2>2, <2>3, <2>4 DEF Known
<1> QED
  BY <1>1, <1>6, <1>16, <1>17 DEF Looping

LEMMA StepFailsKeeps ==
  ASSUME StepsTyped, Looping, NEW s \in Unit, StepFails(s), failed' = {s},
         UNCHANGED <<kind, phase, raised>>
  PROVE  StepsTyped' /\ Looping'
<1> DEFINE p == LastPending(s)
           ref == IF p > 0 THEN pending[p].ref
                  ELSE IF stack[s] # <<>> THEN Last(stack[s]) ELSE None
           e == IF ref = None THEN <<>> ELSE <<Terminal(ref, "failed")>>
           shown == Projection(s, "failed", FailedSequence)
<1>1. /\ pending' = IF p = 0 THEN pending ELSE RemoveAt(pending, p)
      /\ stack' = IF p > 0 \/ stack[s] = <<>> THEN stack
                  ELSE [stack EXCEPT ![s] = Front(stack[s])]
      /\ buffer' = (buffer \o e) \o <<shown>>
      /\ rows' = rows /\ busy' = busy /\ stopped' = stopped /\ started' = started /\ refs' = refs
  BY DEF StepFails, records
<1>2. /\ pending \in Seq([step: Unit, ref: Nat]) /\ started \in Nat
      /\ \A i \in DOMAIN pending : pending[i].ref \in 1 .. started
      /\ stack \in [Unit -> Seq(Nat)]
      /\ \A u \in Unit : \A i \in DOMAIN stack[u] : stack[u][i] \in 1 .. started
      /\ buffer \in Seq(Ops) /\ Numbered(buffer, started, 0)
  BY DEF StepsTyped, Looping
<1>3. p \in 0 .. Len(pending)
  BY <1>2, LastPendingIs
<1> HIDE DEF p
<1>4. shown \in Ops /\ shown.do = "snapshot"
  BY DEF Ops, Projection, Projections, Statuses, FailedSequence
<1> HIDE DEF shown
<1>5. /\ stack' \in [Unit -> Seq(Nat)]
      /\ \A u \in Unit : \A i \in DOMAIN stack'[u] : stack'[u][i] \in 1 .. started
      /\ pending' \in Seq([step: Unit, ref: Nat])
      /\ \A i \in DOMAIN pending' : pending'[i].ref \in 1 .. started
      /\ ref = None \/ ref \in 1 .. started
      /\ \A id \in 1 .. started : Stacked(id) => id = ref \/ Stacked(id)'
      /\ \A id \in 1 .. started : Pended(id) => id = ref \/ Pended(id)'
  <2>1. CASE p > 0
    <3>1. /\ pending' = RemoveAt(pending, p) /\ stack' = stack /\ ref = pending[p].ref
          /\ p \in 1 .. Len(pending)
      BY <1>1, <1>3, <2>1
    <3>2. /\ pending' \in Seq([step: Unit, ref: Nat])
          /\ \A i \in DOMAIN pending' : \E j \in DOMAIN pending : pending'[i] = pending[j]
          /\ \A j \in DOMAIN pending : j = p \/ \E i \in DOMAIN pending' : pending'[i] = pending[j]
      BY <1>2, <3>1, RemovedAt
    <3> HIDE DEF ref
    <3>3. ref \in 1 .. started
      BY <1>2, <3>1
    <3>4. \A i \in DOMAIN pending' : pending'[i].ref \in 1 .. started
      BY <1>2, <3>2
    <3>5. \A id \in 1 .. started : Pended(id) => id = ref \/ Pended(id)'
      <4> SUFFICES ASSUME NEW id \in 1 .. started, Pended(id), id # ref PROVE Pended(id)'
        OBVIOUS
      <4>1. PICK j \in DOMAIN pending : pending[j].ref = id
        BY DEF Pended
      <4>2. j # p
        BY <3>1, <4>1
      <4>3. PICK i \in DOMAIN pending' : pending'[i] = pending[j]
        BY <3>2, <4>2
      <4> QED
        BY <4>1, <4>3 DEF Pended
    <3> QED
      BY <1>2, <3>1, <3>2, <3>3, <3>4, <3>5 DEF Stacked
  <2>2. CASE p = 0 /\ stack[s] # <<>>
    <3>1. /\ pending' = pending /\ stack' = [stack EXCEPT ![s] = Front(stack[s])]
          /\ ref = Last(stack[s])
      BY <1>1, <2>2
    <3> HIDE DEF ref
    <3>2. /\ Last(stack[s]) \in 1 .. started
          /\ stack' \in [Unit -> Seq(Nat)]
          /\ \A u \in Unit : \A i \in DOMAIN stack'[u] : stack'[u][i] \in 1 .. started
          /\ \A id : Stacked(id) => id = Last(stack[s]) \/ Stacked(id)'
      BY <1>1, <2>2, <3>1, Popped
    <3> QED
      BY <1>2, <3>1, <3>2 DEF Pended
  <2>3. CASE p = 0 /\ stack[s] = <<>>
    <3>1. pending' = pending /\ stack' = stack /\ ref = None
      BY <1>1, <2>3
    <3> HIDE DEF ref
    <3> QED
      BY <1>2, <3>1 DEF Pended, Stacked
  <2>4. \/ p > 0
        \/ p = 0 /\ stack[s] # <<>>
        \/ p = 0 /\ stack[s] = <<>>
    BY <1>2, <1>3
  <2> QED
    BY <2>1, <2>2, <2>3, <2>4, Zenon
<1> HIDE DEF ref
<1>6. /\ e \in Seq(Ops)
      /\ \A i \in DOMAIN e : e[i].do = "end" /\ e[i].ref \in 1 .. started
      /\ \A id \in 1 .. started : id = ref => EndsIn(e, id)
  <2>1. CASE ref = None
    BY <1>2, <2>1, NoneAssumption
  <2>2. CASE ref \in 1 .. started
    <3>1. ref # None /\ ref \in Nat
      BY <1>2, <2>2, NoneAssumption
    <3>2. /\ Terminal(ref, "failed") \in Ops /\ Terminal(ref, "failed").do = "end"
          /\ Terminal(ref, "failed").ref = ref
      BY <3>1 DEF Terminal, Ops, Ends, Statuses
    <3>3. e = <<Terminal(ref, "failed")>>
      BY <3>1
    <3> HIDE DEF e
    <3>4. e \in Seq(Ops) /\ DOMAIN e = {1} /\ e[1] = Terminal(ref, "failed")
      BY <3>2, <3>3
    <3> QED
      BY <2>2, <3>2, <3>4 DEF EndsIn
  <2> QED
    BY <1>5, <2>1, <2>2
<1> HIDE DEF e
<1> DEFINE b == buffer \o e
<1>7. b \in Seq(Ops) /\ Numbered(b, started, 0)
  BY <1>2, <1>6, NumberedEnds, Joined
<1>8. \A id \in 1 .. started : Due(id) \/ id = ref => EndsIn(b, id)
  BY <1>2, <1>6, EndsInJoined DEF Due
<1> HIDE DEF b
<1>9. /\ <<shown>> \in Seq(Ops)
      /\ \A i \in DOMAIN <<shown>> : <<shown>>[i].do = "snapshot"
  BY <1>4
<1>10. buffer' = b \o <<shown>>
  BY <1>1 DEF b
<1>11. buffer' \in Seq(Ops)
  BY <1>7, <1>9, <1>10
<1>12. Numbered(buffer', started', 0)
  <2>1. Numbered(b \o <<shown>>, started, 0)
    BY <1>2, <1>7, <1>9, NumberedEnds
  <2> QED
    BY <1>1, <1>10, <2>1
<1>13. \A id \in 1 .. started : Due(id) \/ id = ref => Due(id)'
  <2> TAKE id \in 1 .. started
  <2> HAVE Due(id) \/ id = ref
  <2>1. EndsIn(b \o <<shown>>, id)
    BY <1>7, <1>8, <1>9, EndsInJoined
  <2> QED
    BY <1>10, <2>1 DEF Due
<1>14. \A id \in 1 .. started' : Known(id)'
  BY <1>1, <1>5, <1>13 DEF Known, Looping
<1>15. StepsTyped'
  <2>1. failed' # {}
    OBVIOUS
  <2>2. /\ busy' \in [Unit -> SUBSET Worker] /\ \A u \in Unit : IsFiniteSet(busy'[u])
        /\ refs' \in Seq(Nat \cup {None}) /\ Len(refs') <= started' /\ started' \in Nat
        /\ stopped' \in SUBSET Unit
    BY <1>1 DEF StepsTyped
  <2>3. /\ \A u \in Unit : \A i \in DOMAIN stack'[u] : stack'[u][i] \in 1 .. started'
        /\ \A i \in DOMAIN pending' : pending'[i].ref \in 1 .. started'
    BY <1>1, <1>5
  <2> QED
    BY <1>5, <1>11, <2>1, <2>2, <2>3, Zenon DEF StepsTyped
<1> QED
  BY <1>1, <1>12, <1>14, <1>15 DEF Looping

-----------------------------------------------------------------------------
(* The end of the event loop, and the replay *)

\* Ending a list of spans.
LEMMA AllEndedEnds ==
  ASSUME NEW total \in Nat, NEW ids \in Seq(1 .. total), NEW as \in Statuses \ {"running"}
  PROVE  /\ AllEnded(ids, as) \in Seq(Ops)
         /\ \A i \in DOMAIN AllEnded(ids, as) :
              AllEnded(ids, as)[i].do = "end" /\ AllEnded(ids, as)[i].ref \in 1 .. total
         /\ \A i \in DOMAIN ids : EndsIn(AllEnded(ids, as), ids[i])
<1> DEFINE e == AllEnded(ids, as)
<1>1. DOMAIN ids = 1 .. Len(ids) /\ Len(ids) \in Nat /\ \A i \in DOMAIN ids : ids[i] \in 1 .. total
  OBVIOUS
<1>2. e = [i \in 1 .. Len(ids) |-> Terminal(ids[i], as)]
  BY <1>1 DEF AllEnded
<1> HIDE DEF e
<1>3. \A i \in 1 .. Len(ids) :
        /\ Terminal(ids[i], as) \in Ops
        /\ Terminal(ids[i], as).do = "end" /\ Terminal(ids[i], as).ref = ids[i]
  <2> TAKE i \in 1 .. Len(ids)
  <2>1. ids[i] \in Nat
    BY <1>1
  <2>2. Terminal(ids[i], as) \in Ends
    BY <2>1 DEF Terminal, Ends
  <2> QED
    BY <2>2 DEF Terminal, Ops
<1>4. e \in Seq(Ops) /\ DOMAIN e = 1 .. Len(ids)
  <2>1. e \in [1 .. Len(ids) -> Ops]
    BY <1>2, <1>3
  <2> QED
    BY <1>1, <2>1
<1>5. \A i \in DOMAIN e : e[i].do = "end" /\ e[i].ref = ids[i]
  BY <1>2, <1>3, <1>4
<1>6. \A i \in DOMAIN ids : EndsIn(e, ids[i])
  BY <1>1, <1>4, <1>5 DEF EndsIn
<1>7. \A i \in DOMAIN e : e[i].do = "end" /\ e[i].ref \in 1 .. total
  BY <1>1, <1>4, <1>5
<1> QED
  BY <1>4, <1>6, <1>7 DEF e

\* The loop ends by buffering the ends of some spans; the others are left open.
LEMMA LoopEndsWith ==
  ASSUME StepsTyped, Looping, NEW ids \in Seq(1 .. started), NEW as \in Statuses \ {"running"},
         buffer' = buffer \o AllEnded(ids, as),
         UNCHANGED <<rows, busy, stopped, stack, pending, started, refs, kind, status, failed>>,
         phase' = "replay", status # "pending",
         \A id \in 1 .. started :
           Known(id) => Leaves(id)' \/ Due(id) \/ \E i \in DOMAIN ids : ids[i] = id
  PROVE  StepInv'
<1> DEFINE e == AllEnded(ids, as)
<1>1. buffer \in Seq(Ops) /\ started \in Nat /\ Numbered(buffer, started, 0) /\ refs = <<>>
  BY DEF StepsTyped, Looping
<1>2. /\ e \in Seq(Ops)
      /\ \A i \in DOMAIN e : e[i].do = "end" /\ e[i].ref \in 1 .. started
      /\ \A i \in DOMAIN ids : EndsIn(e, ids[i])
  BY <1>1, AllEndedEnds
<1> HIDE DEF e
<1>3. buffer' = buffer \o e
  BY DEF e
<1>4. buffer' \in Seq(Ops)
  BY <1>1, <1>2, <1>3, Joined
<1>5. Numbered(buffer', started', Len(refs'))
  <2>1. Numbered(buffer \o e, started, 0)
    BY <1>1, <1>2, NumberedEnds
  <2> QED
    BY <1>1, <1>3, <2>1
<1>6. \A id \in 1 .. started : Leaves(id)' \/ Due(id)'
  <2> TAKE id \in 1 .. started
  <2>1. Leaves(id)' \/ Due(id) \/ \E i \in DOMAIN ids : ids[i] = id
    BY DEF Looping
  <2>2. CASE Due(id)
    BY <1>1, <1>2, <1>3, <2>2, EndsInJoined DEF Due
  <2>3. CASE \E i \in DOMAIN ids : ids[i] = id
    <3>1. EndsIn(e, id)
      BY <1>2, <2>3
    <3> QED
      BY <1>1, <1>2, <1>3, <3>1, EndsInJoined DEF Due
  <2> QED
    BY <2>1, <2>2, <2>3
<1>7. StepSpans'
  <2>1. rows' = <<>> /\ Len(refs') = 0 /\ phase' = "replay" /\ started' = started
    BY <1>1 DEF Looping
  <2>2. \A id \in Len(refs') + 1 .. started' : Leaves(id)' \/ Due(id)'
    BY <1>6, <2>1
  <2>3. status' # "pending"
    OBVIOUS
  <2>4. DOMAIN rows' = {} /\ phase' # "stream" /\ phase' # "idle"
    BY <2>1
  <2> QED
    BY <2>2, <2>3, <2>4, Zenon DEF StepSpans
<1>8. StepsTyped'
  BY <1>4, Zenon DEF StepsTyped
<1> QED
  BY <1>5, <1>7, <1>8 DEF StepInv

\* The spans on the stacks, and those of the steps that have stopped, as lists.
LEMMA StackedIsListed ==
  ASSUME StepsTyped
  PROVE  LET ids == SetToSeq(UNION {ToSet(stack[s]) : s \in Unit})
         IN  /\ ids \in Seq(1 .. started)
             /\ \A id : Stacked(id) => \E i \in DOMAIN ids : ids[i] = id
<1> DEFINE left == UNION {ToSet(stack[s]) : s \in Unit}
           ids == SetToSeq(left)
<1>1. started \in Nat /\ left \subseteq 1 .. started
  BY DEF StepsTyped, ToSet
<1>2. IsFiniteSet(left)
  <2>1. IsFiniteSet(1 .. started)
    BY <1>1, FS_Interval
  <2> QED
    BY <1>1, <2>1, FS_Subset
<1>3. \A id : Stacked(id) => id \in left
  BY DEF Stacked, ToSet
<1> HIDE DEF left
<1>4. ids \in Seq(left) /\ \A x \in left : \E i \in DOMAIN ids : ids[i] = x
  BY <1>2, SetToSeqLists
<1> HIDE DEF ids
<1>5. ids \in Seq(1 .. started)
  BY <1>1, <1>4, SeqMonotonic
<1> QED
  BY <1>3, <1>4, <1>5 DEF ids, left

LEMMA PendedIsListed ==
  ASSUME StepsTyped
  PROVE  LET ids == [i \in DOMAIN pending |-> pending[i].ref]
         IN  /\ ids \in Seq(1 .. started)
             /\ \A id : Pended(id) => \E i \in DOMAIN ids : ids[i] = id
<1> DEFINE ids == [i \in DOMAIN pending |-> pending[i].ref]
<1>1. /\ Len(pending) \in Nat /\ DOMAIN pending = 1 .. Len(pending)
      /\ \A i \in DOMAIN pending : pending[i].ref \in 1 .. started
  BY DEF StepsTyped
<1>2. ids \in Seq(1 .. started)
  <2>1. ids \in [1 .. Len(pending) -> 1 .. started]
    BY <1>1
  <2> QED
    BY <1>1, <2>1
<1>3. \A id : Pended(id) => \E i \in DOMAIN ids : ids[i] = id
  BY DEF Pended
<1> QED
  BY <1>2, <1>3

LEMMA LoopEndsKeeps ==
  ASSUME StepsTyped, Looping, LoopEnds, status # "pending"
  PROVE  StepInv'
<1> /\ UNCHANGED <<rows, busy, stopped, stack, pending, started, refs, kind, status, failed>>
    /\ phase' = "replay" /\ raised = FALSE
  BY DEF LoopEnds, StepsRaise, StepsReturn, records, Looping
<1>1. CASE StepsRaise /\ raised' = TRUE
  <2> DEFINE left == UNION {ToSet(stack[s]) : s \in Unit}
             ids == SetToSeq(left)
  <2>1. buffer' = buffer \o AllEnded(ids, "failed")
    BY <1>1 DEF StepsRaise
  <2>2. ids \in Seq(1 .. started) /\ \A id : Stacked(id) => \E i \in DOMAIN ids : ids[i] = id
    BY StackedIsListed
  <2> HIDE DEF ids
  <2>3. \A id \in 1 .. started :
          Known(id) => Leaves(id)' \/ Due(id) \/ \E i \in DOMAIN ids : ids[i] = id
    BY <1>1, <2>2 DEF Known, Leaves, Pended
  <2> QED
    BY <2>1, <2>2, <2>3, LoopEndsWith DEF Statuses
<1>2. CASE StepsReturn /\ UNCHANGED raised
  <2> DEFINE ids == [i \in DOMAIN pending |-> pending[i].ref]
  <2>1. buffer' = buffer \o AllEnded(ids, "succeeded")
    BY <1>2 DEF StepsReturn
  <2>2. ids \in Seq(1 .. started) /\ \A id : Pended(id) => \E i \in DOMAIN ids : ids[i] = id
    BY PendedIsListed
  <2> HIDE DEF ids
  <2>3. \A id \in 1 .. started :
          Known(id) => Leaves(id)' \/ Due(id) \/ \E i \in DOMAIN ids : ids[i] = id
    BY <1>2, <2>2 DEF Known, Leaves, Stacked
  <2> QED
    BY <2>1, <2>2, <2>3, LoopEndsWith DEF Statuses
<1> QED
  BY <1>1, <1>2 DEF LoopEnds

\* What is left of the buffer ends what the head does not.
LEMMA EndsInTail ==
  ASSUME NEW b \in Seq(Ops), b # <<>>, NEW id, EndsIn(b, id)
  PROVE  (Head(b).do = "end" /\ Head(b).ref = id) \/ EndsIn(Tail(b), id)
<1> DEFINE z == Tail(b)
<1>1. /\ Head(b) = b[1] /\ DOMAIN z = 1 .. Len(b) - 1
      /\ \A i \in DOMAIN b : i = 1 \/ (i - 1 \in DOMAIN z /\ z[i - 1] = b[i])
  OBVIOUS
<1> HIDE DEF z
<1>2. PICK i \in DOMAIN b : b[i].do = "end" /\ b[i].ref = id
  BY DEF EndsIn
<1>3. i = 1 \/ EndsIn(z, id)
  BY <1>1, <1>2 DEF EndsIn
<1> QED
  BY <1>1, <1>2, <1>3 DEF z

\* The replay ends every span it starts, or leaves it open.
Replaying ==
  /\ \A id \in Len(refs) + 1 .. started : Leaves(id) \/ Due(id)
  /\ \A i \in DOMAIN rows : Opened(rows[i]) =>
       \E id \in DOMAIN refs : refs[id] = i /\ (Leaves(id) \/ Due(id))

LEMMA ReplayStarts ==
  ASSUME StepsTyped, Recorded, Replaying, Replay, Numbered(buffer, started, Len(refs)),
         UNCHANGED <<kind, raised, failed>>, Head(buffer).do = "start"
  PROVE  StepsTyped' /\ Replaying' /\ Numbered(buffer, started, Len(refs))'
<1> DEFINE op == Head(buffer)
<1>1. /\ buffer \in Seq(Ops) /\ buffer # <<>> /\ buffer' = Tail(buffer)
      /\ refs \in Seq(Nat \cup {None}) /\ Len(refs) \in Nat /\ DOMAIN refs = 1 .. Len(refs)
      /\ started \in Nat /\ Len(refs) <= started /\ rows \in Seq(Spans)
      /\ UNCHANGED <<busy, stopped, stack, pending, started>>
  BY DEF Replay, StepsTyped, Recorded
<1>2. PICK works \in BOOLEAN : rows' = Started(works) /\ refs' = Append(refs, RefIf(works))
  BY DEF Replay, Works
<1>3. /\ op.ref = Len(refs) + 1 /\ Len(refs) + 1 <= started
      /\ Numbered(Tail(buffer), started, Len(refs) + 1)
  BY <1>1, NumberedHead
<1>4. \A id : Due(id) => Due(id)'
  BY <1>1, EndsInTail DEF Due
<1>5. \A id : Leaves(id) => Leaves(id)'
  BY <1>1 DEF Leaves, Pended, Stacked
<1>6. RefIf(works) \in Nat \cup {None}
  BY <1>1 DEF RefIf
<1>7. /\ refs' \in Seq(Nat \cup {None}) /\ Len(refs') = Len(refs) + 1
      /\ DOMAIN refs' = 1 .. Len(refs) + 1
      /\ \A i \in 1 .. Len(refs) : refs'[i] = refs[i]
      /\ refs'[Len(refs) + 1] = RefIf(works)
  BY <1>1, <1>2, <1>6
<1>8. \A i \in DOMAIN rows' : (i \in DOMAIN rows /\ rows'[i] = rows[i]) \/ i = RefIf(works)
  BY <1>1, <1>2, StartedOpens
<1>9. \A i \in DOMAIN rows' : Opened(rows'[i]) =>
        \E id \in DOMAIN refs' : refs'[id] = i /\ (Leaves(id)' \/ Due(id)')
  <2> TAKE i \in DOMAIN rows'
  <2> HAVE Opened(rows'[i])
  <2>1. CASE i \in DOMAIN rows /\ rows'[i] = rows[i]
    <3>1. PICK id \in DOMAIN refs : refs[id] = i /\ (Leaves(id) \/ Due(id))
      BY <2>1 DEF Replaying
    <3>2. id \in DOMAIN refs' /\ refs'[id] = i
      BY <1>1, <1>7, <3>1
    <3> QED
      BY <1>4, <1>5, <3>1, <3>2
  <2>2. CASE i = RefIf(works)
    <3>0. PICK id \in Nat : id = Len(refs) + 1
      BY <1>1
    <3>1. id \in Len(refs) + 1 .. started
      BY <1>1, <1>3, <3>0
    <3>2. Leaves(id) \/ Due(id)
      BY <3>1 DEF Replaying
    <3>3. id \in DOMAIN refs' /\ refs'[id] = i
      BY <1>1, <1>7, <2>2, <3>0
    <3>4. Leaves(id)' \/ Due(id)'
      BY <1>4, <1>5, <3>2
    <3> QED
      BY <3>3, <3>4
  <2> QED
    BY <1>8, <2>1, <2>2
<1>10. \A id \in Len(refs') + 1 .. started' : Leaves(id)' \/ Due(id)'
  <2>1. \A id \in Len(refs') + 1 .. started' : id \in Len(refs) + 1 .. started
    BY <1>1, <1>7
  <2> QED
    BY <1>4, <1>5, <2>1 DEF Replaying
<1>11. StepsTyped'
  <2>1. buffer' \in Seq(Ops)
    BY <1>1
  <2>2. refs' \in Seq(Nat \cup {None}) /\ Len(refs') <= started'
    BY <1>1, <1>3, <1>7
  <2> QED
    BY <1>1, <2>1, <2>2, Zenon DEF StepsTyped
<1> QED
  BY <1>1, <1>3, <1>7, <1>9, <1>10, <1>11 DEF Replaying

LEMMA ReplayEnds ==
  ASSUME StepsTyped, Recorded, Replaying, Replay, Numbered(buffer, started, Len(refs)),
         UNCHANGED <<kind, raised, failed>>, Head(buffer).do = "end"
  PROVE  StepsTyped' /\ Replaying' /\ Numbered(buffer, started, Len(refs))'
<1> DEFINE op == Head(buffer)
<1>1. /\ buffer \in Seq(Ops) /\ buffer # <<>> /\ buffer' = Tail(buffer)
      /\ refs \in Seq(Nat \cup {None}) /\ Len(refs) \in Nat
      /\ started \in Nat /\ Len(refs) <= started /\ rows \in Seq(Spans)
      /\ UNCHANGED <<busy, stopped, stack, pending, started>>
  BY DEF Replay, StepsTyped, Recorded
<1>2. PICK works \in BOOLEAN :
        rows' = Ended(rows, {refs[op.ref]}, op.status, works) /\ refs' = refs
  BY DEF Replay, Works
<1>3. op.status \in Statuses \ {"running"}
  BY <1>1 DEF Ops, Starts, Ends, Projections
<1>4. PICK r, st : r = op.ref /\ st = op.status
  OBVIOUS
<1>5. \A id : Due(id) => id = r \/ Due(id)'
  BY <1>1, <1>4, EndsInTail DEF Due
<1>6. \A id : Leaves(id) => Leaves(id)'
  BY <1>1 DEF Leaves, Pended, Stacked
<1>7. r \in 1 .. Len(refs) /\ Numbered(Tail(buffer), started, Len(refs))
  BY <1>1, <1>4, NumberedHead
<1>8. Closes(rows, {refs[r]}, Ended(rows, {refs[r]}, st, works))
  BY <1>1, <1>3, <1>4, EndedCloses
<1>9. /\ DOMAIN rows' = DOMAIN rows
      /\ \A i \in DOMAIN rows : Opened(rows'[i]) => Opened(rows[i]) /\ i \notin {refs[r]}
  BY <1>2, <1>4, <1>8 DEF Closes
<1>10. \A i \in DOMAIN rows' : Opened(rows'[i]) =>
         \E id \in DOMAIN refs' : refs'[id] = i /\ (Leaves(id)' \/ Due(id)')
  <2> TAKE i \in DOMAIN rows'
  <2> HAVE Opened(rows'[i])
  <2>1. i \in DOMAIN rows /\ Opened(rows[i]) /\ i # refs[r]
    BY <1>9
  <2>2. PICK id \in DOMAIN refs : refs[id] = i /\ (Leaves(id) \/ Due(id))
    BY <2>1 DEF Replaying
  <2>3. id # r
    BY <2>1, <2>2
  <2>4. Leaves(id)' \/ Due(id)'
    BY <1>5, <1>6, <2>2, <2>3
  <2>5. id \in DOMAIN refs' /\ refs'[id] = i
    BY <1>2, <2>2
  <2> QED
    BY <2>4, <2>5
<1>11. \A id \in Len(refs') + 1 .. started' : Leaves(id)' \/ Due(id)'
  <2> TAKE id \in Len(refs') + 1 .. started'
  <2>1. id \in Len(refs) + 1 .. started /\ id # r
    BY <1>1, <1>2, <1>7
  <2>2. Leaves(id) \/ Due(id)
    BY <2>1 DEF Replaying
  <2> QED
    BY <1>5, <1>6, <2>1, <2>2
<1>12. StepsTyped'
  <2>1. buffer' \in Seq(Ops)
    BY <1>1
  <2>2. refs' \in Seq(Nat \cup {None}) /\ Len(refs') <= started'
    BY <1>1, <1>2
  <2> QED
    BY <1>1, <2>1, <2>2, Zenon DEF StepsTyped
<1>13. Numbered(buffer', started', Len(refs'))
  BY <1>1, <1>2, <1>7
<1> QED
  BY <1>10, <1>11, <1>12, <1>13 DEF Replaying

LEMMA ReplayShows ==
  ASSUME StepsTyped, Replaying, Replay, Numbered(buffer, started, Len(refs)),
         UNCHANGED <<kind, raised, failed>>, Head(buffer).do = "snapshot"
  PROVE  StepsTyped' /\ Replaying' /\ Numbered(buffer, started, Len(refs))'
<1>1. /\ buffer \in Seq(Ops) /\ buffer # <<>> /\ buffer' = Tail(buffer)
      /\ Len(refs) \in Nat /\ started \in Nat /\ Len(refs) <= started
      /\ UNCHANGED <<busy, stopped, stack, pending, started>>
  BY DEF Replay, StepsTyped
<1>2. rows' = rows /\ refs' = refs
  BY DEF Replay
<1>3. \A id : Due(id) => Due(id)'
  BY <1>1, EndsInTail DEF Due
<1>4. \A id : Leaves(id) => Leaves(id)'
  BY <1>1 DEF Leaves, Pended, Stacked
<1>5. Numbered(Tail(buffer), started, Len(refs))
  BY <1>1, NumberedHead
<1>6. StepsTyped'
  <2>1. buffer' \in Seq(Ops)
    BY <1>1
  <2> QED
    BY <1>1, <1>2, <2>1, Zenon DEF StepsTyped
<1>7. Replaying'
  BY <1>1, <1>2, <1>3, <1>4 DEF Replaying
<1>8. Numbered(buffer', started', Len(refs'))
  BY <1>1, <1>2, <1>5
<1> QED
  BY <1>6, <1>7, <1>8

LEMMA ReplayKeeps ==
  ASSUME StepInv, Recorded, Replay, kind = "llamaindex", phase = "replay", status # "pending",
         UNCHANGED control
  PROVE  StepInv'
<1>1. StepsTyped /\ Numbered(buffer, started, Len(refs)) /\ Replaying
  BY DEF StepInv, StepSpans, Replaying
<1>2. UNCHANGED <<kind, phase, status, raised, failed>>
  BY DEF control
<1>3. Head(buffer).do \in {"start", "end", "snapshot"}
  <2>1. Head(buffer) \in Ops
    BY <1>1 DEF StepsTyped, Replay
  <2> QED
    BY <2>1 DEF Ops, Starts, Ends, Projections
<1>4. StepsTyped' /\ Replaying' /\ Numbered(buffer, started, Len(refs))'
  BY <1>1, <1>2, <1>3, ReplayStarts, ReplayEnds, ReplayShows
<1>5. StepSpans'
  BY <1>2, <1>4 DEF StepSpans, Replaying
<1> QED
  BY <1>4, <1>5 DEF StepInv

-----------------------------------------------------------------------------
(* Every step keeps the invariant *)

LEMMA StepKeeps ==
  ASSUME Controlled, Recorded, StepInv, [Next]_vars
  PROVE  StepInv'
<1>1. CASE StepEvent
  <2>1. /\ failed = {} /\ UNCHANGED <<kind, status, phase, raised>>
        /\ StepsTyped /\ Looping
    BY <1>1, LoopIs DEF StepEvent
  <2>2. PICK s \in Unit : \/ \E w \in Worker : (StepRuns(s, w) \/ StepStops(s, w)) /\ UNCHANGED failed
                          \/ StepFails(s) /\ failed' = {s}
    BY <1>1 DEF StepEvent
  <2>3. ASSUME NEW w \in Worker, StepRuns(s, w), UNCHANGED failed
        PROVE  StepsTyped' /\ Looping'
    BY <2>1, <2>3, StepRunsKeeps
  <2>4. ASSUME NEW w \in Worker, StepStops(s, w), UNCHANGED failed
        PROVE  StepsTyped' /\ Looping'
    BY <2>1, <2>4, StepStopsKeeps
  <2>5. CASE StepFails(s) /\ failed' = {s}
    BY <2>1, <2>5, StepFailsKeeps, LoopGoesOn
  <2> QED
    BY <2>2, <2>3, <2>4, <2>5, LoopGoesOn
<1>2. CASE LoopEnds
  <2>1. StepsTyped /\ Looping
    BY <1>2, LoopIs DEF LoopEnds
  <2>2. status # "pending"
    BY <2>1 DEF Looping, Controlled
  <2> QED
    BY <1>2, <2>1, <2>2, LoopEndsKeeps
<1>3. CASE ReplayNext
  <2>1. kind = "llamaindex" /\ phase = "replay" /\ status # "pending"
    BY <1>3 DEF ReplayNext, Controlled
  <2> QED
    BY <1>3, <2>1, ReplayKeeps DEF ReplayNext
<1>4. CASE GraphEvent \/ GraphFails \/ GraphEnds
  <2>1. UNCHANGED <<steps, kind>> /\ kind = "langgraph"
    BY <1>4 DEF GraphEvent, GraphFails, GraphEnds, Streaming
  <2> QED
    BY <2>1 DEF StepInv, StepsTyped, StepSpans, steps
<1>5. CASE \/ Run \/ Finish \/ Expire \/ UNCHANGED vars
           \/ \E u \in User : OpenForm(u) \/ Submit(u) \/ Answer(u)
  <2>1. UNCHANGED <<steps, rows, kind, raised, failed>>
    BY <1>5 DEF Run, GraphStarts, Finish, Expire, OpenForm, Submit, Answer, vars, control, records
  <2>2. UNCHANGED <<busy, stopped, stack, pending, buffer, started, refs>>
    BY <2>1 DEF steps
  <2>3. StepsTyped' /\ Numbered(buffer, started, Len(refs))'
    BY <2>1, <2>2 DEF StepInv, StepsTyped
  <2>4. ASSUME kind = "llamaindex"
        PROVE  StepSpans'
    <3>1. \/ UNCHANGED <<phase, status>>
          \/ status = "pending" /\ phase' = "stream" /\ status' = "running"
          \/ /\ phase = "replay" /\ status = "running" /\ buffer = <<>>
             /\ phase' = "idle" /\ status' # "pending"
      BY <1>5, <2>4 DEF Run, Finish, Expire, OpenForm, Submit, Answer, vars, control, Controlled
    <3>2. \A id : /\ Stacked(id) <=> Stacked(id)'
                  /\ Pended(id) <=> Pended(id)'
                  /\ Due(id) <=> Due(id)'
                  /\ Leaves(id) <=> Leaves(id)'
      BY <2>1, <2>2 DEF Stacked, Pended, Due, Leaves
    <3> QED
      BY <2>1, <2>2, <2>4, <3>1, <3>2 DEF StepInv, StepSpans
  <2> QED
    BY <2>1, <2>3, <2>4 DEF StepInv, StepSpans
<1> QED
  BY <1>1, <1>2, <1>3, <1>4, <1>5 DEF Next

-----------------------------------------------------------------------------
(* Failures of LlamaIndex *)

\* Ends may follow the failed snapshot in the buffer.
LEMMA QuietFollows ==
  ASSUME NEW b \in Seq(Ops), NEW e \in Seq(Ops), Quiet(e), NEW u
  PROVE  /\ Quiet(b) => Quiet(b \o e)
         /\ Bounded(b) => Bounded(b \o e)
         /\ Projected(b, u) => Projected(b \o e, u)
<1> DEFINE j == b \o e
           n == Len(b)
           m == Len(e)
<1>1. /\ n \in Nat /\ m \in Nat /\ DOMAIN b = 1 .. n /\ DOMAIN e = 1 .. m
      /\ DOMAIN j = 1 .. n + m
      /\ \A i \in 1 .. n : j[i] = b[i]
      /\ \A i \in 1 .. n + m :
              \/ i \in 1 .. n /\ j[i] = b[i]
              \/ i - n \in 1 .. m /\ j[i] = e[i - n]
  BY Joined
<1> HIDE DEF j, n, m
<1>2. \A i \in DOMAIN j : j[i].do = "snapshot" => i \in DOMAIN b /\ j[i] = b[i]
  BY <1>1 DEF Quiet
<1>3. Quiet(b) => Quiet(j)
  BY <1>2 DEF Quiet
<1>4. Bounded(b) => Bounded(j)
  BY <1>2 DEF Bounded
<1>5. ASSUME Projected(b, u)
      PROVE  Projected(j, u)
  <2>1. PICK i \in DOMAIN b :
          /\ b[i] = Projection(u, "failed", FailedSequence)
          /\ \A k \in DOMAIN b : k > i => b[k].do # "snapshot"
    BY <1>5 DEF Projected
  <2>2. i \in DOMAIN j /\ j[i] = b[i]
    BY <1>1
  <2>3. \A k \in DOMAIN j : k > i => j[k].do # "snapshot"
    BY <1>2, <2>1
  <2> QED
    BY <2>1, <2>2, <2>3 DEF Projected
<1> QED
  BY <1>3, <1>4, <1>5 DEF j

\* A snapshot is appended.
LEMMA ShownFollows ==
  ASSUME NEW b \in Seq(Ops), NEW shown \in Projections, shown.sequence <= FailedSequence
  PROVE  /\ b \o <<shown>> \in Seq(Ops)
         /\ Bounded(b) => Bounded(b \o <<shown>>)
         /\ \A u : shown = Projection(u, "failed", FailedSequence) =>
              Projected(b \o <<shown>>, u)
<1> DEFINE e == <<shown>>
           j == b \o e
           n == Len(b)
<1>1. shown \in Ops
  BY DEF Ops
<1>2. e \in Seq(Ops) /\ Len(e) = 1 /\ e[1] = shown
  BY <1>1
<1> HIDE DEF e
<1>3. /\ n \in Nat /\ DOMAIN b = 1 .. n /\ j \in Seq(Ops)
      /\ DOMAIN j = 1 .. n + 1
      /\ \A i \in 1 .. n + 1 :
              \/ i \in 1 .. n /\ j[i] = b[i]
              \/ i - n \in 1 .. 1 /\ j[i] = e[i - n]
  <2>1. /\ j \in Seq(Ops) /\ Len(b) \in Nat /\ DOMAIN b = 1 .. Len(b)
        /\ DOMAIN j = 1 .. Len(b) + Len(e)
        /\ \A i \in 1 .. Len(b) + Len(e) :
             \/ i \in 1 .. Len(b) /\ j[i] = b[i]
             \/ i - Len(b) \in 1 .. Len(e) /\ j[i] = e[i - Len(b)]
    BY <1>2, Joined
  <2> HIDE DEF j
  <2> QED
    BY <1>2, <2>1
<1> HIDE DEF j, n
<1>4. \A i \in DOMAIN j : (i \in DOMAIN b /\ j[i] = b[i]) \/ (i = n + 1 /\ j[i] = shown)
  BY <1>2, <1>3
<1>5. Bounded(b) => Bounded(j)
  BY <1>4 DEF Bounded
<1>6. ASSUME NEW u, shown = Projection(u, "failed", FailedSequence)
      PROVE  Projected(j, u)
  <2>1. n + 1 \in DOMAIN j /\ j[n + 1] = shown
    BY <1>3, <1>4
  <2>2. \A k \in DOMAIN j : ~(k > n + 1)
    BY <1>3
  <2> QED
    BY <1>6, <2>1, <2>2 DEF Projected
<1> QED
  BY <1>3, <1>5, <1>6 DEF e, j

\* The failed snapshot comes closer, or is next and the last one.
LEMMA ProjectedTail ==
  ASSUME NEW b \in Seq(Ops), b # <<>>, NEW u
  PROVE  /\ Quiet(b) => Quiet(Tail(b)) /\ Head(b).do # "snapshot"
         /\ Bounded(b) => Bounded(Tail(b))
         /\ Projected(b, u) =>
              \/ Projected(Tail(b), u)
              \/ Head(b) = Projection(u, "failed", FailedSequence) /\ Quiet(Tail(b))
<1> DEFINE z == Tail(b)
<1>1. /\ Head(b) = b[1] /\ 1 \in DOMAIN b /\ DOMAIN z = 1 .. Len(b) - 1
      /\ DOMAIN b = 1 .. Len(b)
      /\ \A i \in DOMAIN z : i + 1 \in DOMAIN b /\ z[i] = b[i + 1]
      /\ \A i \in DOMAIN b : i = 1 \/ (i - 1 \in DOMAIN z /\ z[i - 1] = b[i])
  OBVIOUS
<1> HIDE DEF z
<1>2. Quiet(b) => Quiet(z) /\ Head(b).do # "snapshot"
  BY <1>1 DEF Quiet
<1>3. Bounded(b) => Bounded(z)
  BY <1>1 DEF Bounded
<1>4. ASSUME Projected(b, u)
      PROVE  \/ Projected(z, u)
             \/ Head(b) = Projection(u, "failed", FailedSequence) /\ Quiet(z)
  <2>1. PICK i \in DOMAIN b :
          /\ b[i] = Projection(u, "failed", FailedSequence)
          /\ \A k \in DOMAIN b : k > i => b[k].do # "snapshot"
    BY <1>4 DEF Projected
  <2>2. CASE i = 1
    <3>1. \A k \in DOMAIN z : z[k].do # "snapshot"
      BY <1>1, <2>1, <2>2
    <3> QED
      BY <1>1, <2>1, <2>2, <3>1 DEF Quiet
  <2>3. CASE i # 1
    <3>1. i - 1 \in DOMAIN z /\ z[i - 1] = b[i]
      BY <1>1, <2>3
    <3>2. \A k \in DOMAIN z : k > i - 1 => z[k].do # "snapshot"
      BY <1>1, <2>1
    <3> QED
      BY <2>1, <3>1, <3>2 DEF Projected
  <2> QED
    BY <2>2, <2>3
<1> QED
  BY <1>2, <1>3, <1>4 DEF z

LEMMA LoopFailure ==
  ASSUME FewWorkers, StepsTyped, StepFailure, StepEvent
  PROVE  StepFailure'
<1>1. /\ kind = "llamaindex" /\ kind' = kind /\ failed = {}
      /\ buffer \in Seq(Ops) /\ Bounded(buffer)
      /\ \A u \in Unit : current[u] # None => current[u].sequence <= FailedSequence
  BY DEF StepEvent, Streaming, StepFailure, StepsTyped
<1>2. PICK s \in Unit : \/ \E w \in Worker : (StepRuns(s, w) \/ StepStops(s, w)) /\ UNCHANGED failed
                        \/ StepFails(s) /\ failed' = {s}
  BY DEF StepEvent
<1>3. ASSUME NEW w \in Worker, StepRuns(s, w), failed' = failed
      PROVE  StepFailure'
  <2> DEFINE shown == Projection(s, "running", WorkerSequence(w, 0))
  <2>1. /\ buffer' = buffer \o <<Start(started + 1), shown>> /\ current' = current
        /\ started \in Nat
    BY <1>3 DEF StepRuns, records, StepsTyped
  <2>2. shown \in Projections /\ shown.sequence <= FailedSequence
    BY StepAssumption DEF Projection, Projections, Statuses, WorkerSequence, FailedSequence, FewWorkers
  <2> HIDE DEF shown
  <2>3. /\ Start(started + 1) \in Ops /\ Start(started + 1).do = "start"
    BY <2>1 DEF Start, Starts, Ops
  <2>4. PICK start \in Ops : start = Start(started + 1) /\ start.do = "start"
    BY <2>3
  <2>5. <<start>> \in Seq(Ops) /\ Quiet(<<start>>)
    BY <2>4 DEF Quiet
  <2>6. buffer \o <<start>> \in Seq(Ops) /\ Bounded(buffer \o <<start>>)
    BY <1>1, <2>5, QuietFollows, Joined
  <2>7. Bounded((buffer \o <<start>>) \o <<shown>>)
    BY <2>2, <2>6, ShownFollows
  <2>8. (buffer \o <<start>>) \o <<shown>> = buffer \o <<start, shown>>
    <3>1. shown \in Ops
      BY <2>2 DEF Ops
    <3> QED
      BY <1>1, <3>1
  <2>9. Bounded(buffer')
    BY <2>1, <2>4, <2>7, <2>8
  <2> QED
    BY <1>1, <1>3, <2>1, <2>9 DEF StepFailure
<1>4. ASSUME NEW w \in Worker, StepStops(s, w), failed' = failed
      PROVE  StepFailure'
  <2> DEFINE shown == Projection(s, "succeeded", WorkerSequence(w, 1))
  <2>1. buffer' = Append(buffer, shown) /\ current' = current
    BY <1>4 DEF StepStops, records
  <2>2. shown \in Projections /\ shown.sequence <= FailedSequence
    BY StepAssumption DEF Projection, Projections, Statuses, WorkerSequence, FailedSequence, FewWorkers
  <2> HIDE DEF shown
  <2>3. Bounded(buffer \o <<shown>>)
    BY <1>1, <2>2, ShownFollows
  <2>4. Append(buffer, shown) = buffer \o <<shown>>
    <3>1. shown \in Ops
      BY <2>2 DEF Ops
    <3> QED
      BY <1>1, <3>1, AppendIsConcat
  <2> QED
    BY <1>1, <1>4, <2>1, <2>3, <2>4 DEF StepFailure
<1>5. ASSUME StepFails(s), failed' = {s}
      PROVE  StepFailure'
  <2> DEFINE shown == Projection(s, "failed", FailedSequence)
  <2>1. PICK ref \in Nat \cup {None} :
          /\ buffer' = (buffer \o (IF ref = None THEN <<>> ELSE <<Terminal(ref, "failed")>>))
                         \o <<shown>>
          /\ current' = current
    <3>1. LastPending(s) \in 0 .. Len(pending)
      BY LastPendingIs DEF StepsTyped
    <3> DEFINE p == LastPending(s)
               r == IF p > 0 THEN pending[p].ref
                    ELSE IF stack[s] # <<>> THEN Last(stack[s]) ELSE None
    <3>2. buffer' = (buffer \o (IF r = None THEN <<>> ELSE <<Terminal(r, "failed")>>)) \o <<shown>>
      BY <1>5 DEF StepFails
    <3>3. current' = current
      BY <1>5 DEF StepFails, records
    <3> HIDE DEF p, shown
    <3>4. r \in Nat \cup {None}
      <4>1. p > 0 => pending[p].ref \in Nat
        BY <3>1 DEF p, StepsTyped
      <4>2. stack[s] # <<>> => Last(stack[s]) \in Nat
        BY FrontAndLast DEF StepsTyped
      <4> QED
        BY <4>1, <4>2
    <3> HIDE DEF r
    <3> QED
      BY <3>2, <3>3, <3>4
  <2> DEFINE e == IF ref = None THEN <<>> ELSE <<Terminal(ref, "failed")>>
             b == buffer \o e
  <2>2. shown \in Projections /\ shown.sequence <= FailedSequence
    BY DEF Projection, Projections, Statuses, FailedSequence
  <2>3. e \in Seq(Ops) /\ Quiet(e)
    <3>1. CASE ref = None
      BY <3>1 DEF Quiet
    <3>2. CASE ref # None
      <4>1. Terminal(ref, "failed") \in Ops /\ Terminal(ref, "failed").do = "end"
        BY <3>2 DEF Terminal, Ends, Ops, Statuses
      <4>2. e = <<Terminal(ref, "failed")>>
        BY <3>2
      <4> HIDE DEF e
      <4> QED
        BY <4>1, <4>2 DEF Quiet
    <3> QED
      BY <3>1, <3>2
  <2> HIDE DEF e
  <2>4. b \in Seq(Ops) /\ Bounded(b)
    BY <1>1, <2>3, QuietFollows, Joined
  <2> HIDE DEF b
  <2>5. Bounded(b \o <<shown>>) /\ Projected(b \o <<shown>>, s)
    BY <2>2, <2>4, ShownFollows
  <2>6. buffer' = b \o <<shown>>
    BY <2>1 DEF b, e
  <2> HIDE DEF shown
  <2> QED
    BY <1>1, <1>5, <2>1, <2>5, <2>6 DEF StepFailure
<1> QED
  BY <1>2, <1>3, <1>4, <1>5

LEMMA LoopEndsFailure ==
  ASSUME StepsTyped, StepFailure, LoopEnds
  PROVE  StepFailure'
<1>1. /\ kind = "llamaindex" /\ UNCHANGED <<kind, current, unknown, failed>>
      /\ buffer \in Seq(Ops) /\ started \in Nat
  BY DEF LoopEnds, Streaming, StepsRaise, StepsReturn, records, StepsTyped
<1>2. PICK ids \in Seq(1 .. started), as \in Statuses \ {"running"} :
        buffer' = buffer \o AllEnded(ids, as)
  <2>1. CASE StepsRaise
    BY <2>1, StackedIsListed DEF StepsRaise, Statuses
  <2>2. CASE StepsReturn
    BY <2>2, PendedIsListed DEF StepsReturn, Statuses
  <2> QED
    BY <2>1, <2>2 DEF LoopEnds
<1> DEFINE e == AllEnded(ids, as)
<1>3. e \in Seq(Ops) /\ \A i \in DOMAIN e : e[i].do = "end"
  BY <1>1, AllEndedEnds
<1> HIDE DEF e
<1>4. Quiet(e)
  BY <1>3 DEF Quiet
<1>5. /\ Quiet(buffer) => Quiet(buffer \o e)
      /\ Bounded(buffer) => Bounded(buffer \o e)
      /\ \A u : Projected(buffer, u) => Projected(buffer \o e, u)
  BY <1>1, <1>3, <1>4, QuietFollows
<1>6. buffer' = buffer \o e
  BY <1>2 DEF e
<1>7. /\ \A u \in Unit : current[u] # None => current[u].sequence <= FailedSequence
      /\ Bounded(buffer')
  BY <1>1, <1>5, <1>6 DEF StepFailure
<1>8. ASSUME NEW u \in failed
      PROVE  \/ u \in unknown
             \/ Projected(buffer', u)
             \/ current[u] # None /\ current[u].status = "failed" /\ Quiet(buffer')
  BY <1>1, <1>5, <1>6 DEF StepFailure
<1> QED
  BY <1>1, <1>7, <1>8 DEF StepFailure

LEMMA ReplayFailure ==
  ASSUME StepsTyped, Recorded, StepFailure, Replay, kind = "llamaindex", UNCHANGED control
  PROVE  StepFailure'
<1> DEFINE op == Head(buffer)
<1>1. /\ buffer \in Seq(Ops) /\ buffer # <<>> /\ buffer' = Tail(buffer) /\ op \in Ops
      /\ kind' = kind /\ failed' = failed
  BY DEF Replay, StepsTyped, control
<1>2. /\ \A u \in Unit : current[u] # None => current[u].sequence <= FailedSequence
      /\ Bounded(buffer) /\ failed \in SUBSET Unit
      /\ \A u \in failed :
           \/ u \in unknown
           \/ Projected(buffer, u)
           \/ current[u] # None /\ current[u].status = "failed" /\ Quiet(buffer)
  BY DEF StepFailure, Recorded
<1>3. /\ Quiet(buffer) => Quiet(buffer') /\ op.do # "snapshot"
      /\ Bounded(buffer')
      /\ \A u : Projected(buffer, u) =>
           \/ Projected(buffer', u)
           \/ op = Projection(u, "failed", FailedSequence) /\ Quiet(buffer')
  BY <1>1, <1>2, ProjectedTail
<1>4. CASE op.do # "snapshot"
  <2>1. op.do \in {"start", "end"}
    BY <1>1, <1>4 DEF Ops, Starts, Ends, Projections
  <2>2. current' = current /\ unknown' = unknown
    BY <2>1 DEF Replay
  <2>3. \A u : Projected(buffer, u) => Projected(buffer', u)
    BY <1>3, <1>4 DEF Projection
  <2> QED
    BY <1>1, <1>2, <1>3, <2>2, <2>3 DEF StepFailure
<1>5. CASE op.do = "snapshot"
  <2>1. op.unit \in Unit /\ op.status \in Statuses /\ op.sequence \in Nat
    BY <1>1, <1>5 DEF Ops, Starts, Ends, Projections
  <2>2. PICK works \in BOOLEAN : Snapshot(op.unit, op.status, op.sequence, works)
    BY <1>5 DEF Replay, Works
  <2>3. op.sequence <= FailedSequence
    BY <1>1, <1>2, <1>5 DEF Bounded
  <2>4. \A u : op = Projection(u, "failed", FailedSequence) =>
          op.unit = u /\ op.status = "failed" /\ op.sequence = FailedSequence
    BY DEF Projection
  <2> HIDE DEF op
  <2>5. PICK unit, as, number : unit = op.unit /\ as = op.status /\ number = op.sequence
    OBVIOUS
  <2>6. SnapshotShown(unit, as, number, works)
    <3>1. Snapshot(unit, as, number, works)
      BY <2>2, <2>5
    <3>2. unit \in Unit /\ as \in Statuses /\ number \in Nat
      BY <2>1, <2>5
    <3> QED
      BY <3>1, <3>2, SnapshotShows, Zenon
  <2>7. /\ unknown \subseteq unknown'
        /\ ~works => unit \in unknown'
        /\ \A u \in Unit : current'[u] # None =>
             \/ current[u] # None /\ current'[u].sequence = current[u].sequence
             \/ current'[u].sequence = number
        /\ works /\ (current[unit] = None \/ current[unit].sequence <= number) =>
             current'[unit] # None /\ current'[unit].status = as
    BY <2>6 DEF SnapshotShown
  <2>8. \A u \in Unit : current'[u] # None => current'[u].sequence <= FailedSequence
    BY <1>2, <2>3, <2>5, <2>7
  <2>9. ASSUME NEW u \in failed
        PROVE  \/ u \in unknown'
               \/ Projected(buffer', u)
               \/ current'[u] # None /\ current'[u].status = "failed" /\ Quiet(buffer')
    <3>1. CASE u \in unknown \/ Projected(buffer', u)
      BY <2>7, <3>1
    <3>2. CASE op = Projection(u, "failed", FailedSequence) /\ Quiet(buffer')
      <4>1. unit = u /\ as = "failed" /\ number = FailedSequence
        BY <2>4, <2>5, <3>2
      <4> QED
        BY <1>2, <2>7, <3>2, <4>1
    <3>3. ~Quiet(buffer)
      BY <1>3, <1>5
    <3> QED
      BY <1>2, <1>3, <3>1, <3>2, <3>3
  <2> QED
    BY <1>1, <1>3, <2>8, <2>9 DEF StepFailure
<1> QED
  BY <1>4, <1>5

LEMMA FailureKeeps ==
  ASSUME FewWorkers, Controlled, Recorded, StepsTyped, StepFailure, [Next]_vars
  PROVE  StepFailure'
<1>1. CASE StepEvent \/ LoopEnds
  BY <1>1, LoopFailure, LoopEndsFailure
<1>2. CASE ReplayNext
  BY <1>2, ReplayFailure DEF ReplayNext, Controlled
<1>3. CASE GraphEvent \/ GraphFails \/ GraphEnds
  <2>1. kind' = "langgraph"
    BY <1>3 DEF GraphEvent, GraphFails, GraphEnds, Streaming
  <2> QED
    BY <2>1 DEF StepFailure
<1>4. CASE \/ Run \/ Finish \/ Expire \/ UNCHANGED vars
           \/ \E u \in User : OpenForm(u) \/ Submit(u) \/ Answer(u)
  <2>1. UNCHANGED <<kind, failed, current, unknown, buffer>>
    BY <1>4 DEF Run, GraphStarts, Finish, Expire, OpenForm, Submit, Answer, vars, control, records,
                steps
  <2> QED
    BY <2>1 DEF StepFailure
<1> QED
  BY <1>1, <1>2, <1>3, <1>4 DEF Next

-----------------------------------------------------------------------------
(* Theorems *)

\* The inductive invariant holds in every reachable state, for any graph or
\* workflow, any users, pauses and reports that fail.
THEOREM Invariance == Spec => []IInv
<1>1. IInv /\ [Next]_vars => IInv'
  <2> SUFFICES ASSUME IInv, [Next]_vars PROVE IInv'
    OBVIOUS
  <2>1. Controlled' /\ Paused'
    BY ControlKeeps DEF IInv
  <2>2. GraphInv'
    BY GraphKeeps DEF IInv, GraphInv
  <2>3. StepInv'
    BY StepKeeps DEF IInv, StepInv
  <2> QED
    BY <2>1, <2>2, <2>3 DEF IInv, GraphInv, StepInv
<1> QED
  BY InitEstablishes, <1>1, PTL DEF Spec

\* Every pause is answered once, whichever users hold its form, and however
\* old the form is (AnsweredOnce).
THEOREM OneAnswer == Spec => []AnsweredOnce
<1>1. IInv => AnsweredOnce
  BY DEF IInv, Paused, AnsweredOnce
<1> QED
  BY Invariance, <1>1, PTL

\* An execution that has ended, in whatever way, leaves no span running but
\* those whose end could not be reported, and the ones LlamaIndex leaves open
\* (SpansAreSettled).
THEOREM SpansSettle == Spec => []SpansAreSettled
<1>1. IInv => SpansAreSettled
  <2> SUFFICES ASSUME IInv, phase = "idle", NEW i \in DOMAIN rows, rows[i].status = "running",
                      ~rows[i].lost
               PROVE  kind = "llamaindex" /\ i \in LeftOpen
    BY DEF SpansAreSettled
  <2>1. Opened(rows[i])
    BY DEF Opened
  <2>2. kind # "langgraph"
    BY <2>1 DEF IInv, GraphSpans
  <2>3. kind = "llamaindex"
    BY <2>2 DEF IInv, Controlled
  <2>4. PICK id \in DOMAIN refs : refs[id] = i /\ (Leaves(id) \/ Due(id))
    BY <2>1, <2>3 DEF IInv, StepSpans
  <2>5. buffer = <<>>
    BY <2>3 DEF IInv, StepSpans
  <2>6. ~Due(id)
    BY <2>5 DEF Due, EndsIn
  <2>7. i \in LeftOpen
    BY <2>4, <2>6 DEF Leaves, Pended, Stacked, LeftOpen, ToSet
  <2> QED
    BY <2>3, <2>7
<1> QED
  BY Invariance, <1>1, PTL

\* A unit that has failed is shown as failed when the execution has ended,
\* unless that report failed (FailureIsCurrent).  With more than a thousand
\* workers of a LlamaIndex step the numbers of the snapshots need not say so.
THEOREM FailureShown ==
  ASSUME FewWorkers
  PROVE  Spec => []FailureIsCurrent
<1>1. Init => StepFailure
  BY DEF Init, RecordsInit, StepsInit, StepFailure, Bounded
<1>2. IInv /\ StepFailure /\ [Next]_vars => StepFailure'
  BY FailureKeeps DEF IInv
<1>3. IInv /\ StepFailure => FailureIsCurrent
  <2> SUFFICES ASSUME IInv, StepFailure, phase = "idle", NEW u \in failed \ unknown
               PROVE  current[u] # None /\ current[u].status = "failed"
    BY DEF FailureIsCurrent
  <2>1. CASE kind = "langgraph"
    BY <2>1 DEF IInv, GraphFailure
  <2>2. CASE kind = "llamaindex"
    <3>1. buffer = <<>>
      BY <2>2 DEF IInv, StepSpans
    <3>2. ~Projected(buffer, u)
      BY <3>1 DEF Projected
    <3> QED
      BY <2>2, <3>2 DEF StepFailure
  <2> QED
    BY <2>1, <2>2 DEF IInv, Controlled
<1> QED
  BY Invariance, <1>1, <1>2, <1>3, PTL DEF Spec
=============================================================================
