--------------------------- MODULE DeploymentProofs --------------------------
(***************************************************************************)
(* Proofs about Deployment, for every set of threads, operations and       *)
(* configurations and any number of executions, engines and faults: the    *)
(* store of PostgreSQL implements CheckpointStream, a generation is one    *)
(* engine, a saga has one outcome, and a decision is about what was shown. *)
(***************************************************************************)
EXTENDS Deployment, TLAPS

-----------------------------------------------------------------------------
(* The inductive invariant: the stores *)

\* What the workflow of the run saves: a saga goes on from partial versions
\* only, and every other version is a final one.
Save ==
  {request \in [id : CheckpointId, parent : CheckpointId \cup {None, Latest},
                body : IF workflow = "saga" THEN SagaBody ELSE State] :
     workflow = "saga" =>
       /\ request.parent = None \/ request.parent.name = "partial"
       /\ request.body.done = "open" <=> request.id.name = "partial"}

Row == [req : Save, rev : Nat \ {0}]

IdOf(version) == IF version = None THEN None ELSE version.req.id

\* The versions of one stream: one for each identity, numbered from 1, and
\* none on top of a final version.
Linear(rows) ==
  /\ \A v, w \in rows : Collides(v, w) => v = w
  /\ rows # {} => \E v \in rows : \A w \in rows : w.rev <= v.rev
  /\ \A v \in rows : \A r \in 1..v.rev : \E w \in rows : w.rev = r
  /\ \A v, w \in rows : workflow = "saga" /\ v.req.body.done # "open" => w.rev <= v.rev

TableInv ==
  /\ table \subseteq Row /\ Linear(table)
  /\ returned \subseteq table
  /\ txn \in [Thread -> Stage]
  /\ asked \in [Thread -> Save \cup {None}]
  /\ head \in [Thread -> table \cup {None}]
  /\ inserted \in [Thread -> Row \cup {None}]

\* A transaction that has locked its head is made on top of it; one that has
\* inserted its row is made on top of the newest version, and is the only one.
Transaction(t) ==
  /\ txn[t] = "none" <=> asked[t] = None
  /\ txn[t] \in {"insert", "commit"} => asked[t].parent = IdOf(head[t])
  /\ inserted[t] # None <=> txn[t] = "commit"
  /\ txn[t] = "commit" =>
       /\ inserted[t] = RowOf(t)
       /\ head[t] = Newest(table)
       /\ \A v \in table : ~Collides(inserted[t], v)
       /\ \A u \in Thread : txn[u] = "commit" => u = t
  /\ txn[t] = "saved" => \E v \in table : v.req = asked[t]

PgInv == TableInv /\ \A t \in Thread : Transaction(t)

MemoryInv ==
  /\ memory \in [1..MaxEngines -> SUBSET Row]
  /\ \A e \in 1..MaxEngines : Linear(memory[e])

-----------------------------------------------------------------------------
(* The engine owner *)

OwnerTyped ==
  /\ raw \in Config
  /\ built \in Seq(Config) /\ Len(built) <= MaxEngines
  /\ engine \in DOMAIN built \cup {None}
  /\ generation \in Nat
  /\ signature \in Signatures \cup {None}
  /\ handle \in [Thread -> Handles \cup {None}]
  /\ candidate # None => candidate \in Config
  /\ step \in [Thread -> {"none", "lookup", "create", "take", "prepared", "failed"}]

Handle(t) ==
  /\ handle[t].engine \in DOMAIN built
  /\ handle[t].generation \in 1..generation
  /\ handle[t].signature = SignatureOf[built[handle[t].engine]]
  /\ handle[t].generation = generation => handle[t].engine = engine

OwnerInv ==
  /\ OwnerTyped
  /\ IF engine = None THEN generation = 0
     ELSE generation > 0 /\ built[engine] = raw /\ signature = SignatureOf[raw]
  /\ \A t \in Thread :
       /\ step[t] = "take" => engine # None
       /\ step[t] = "prepared" => handle[t] # None
       /\ handle[t] # None => Handle(t)
  /\ \A t, u \in Thread :
       handle[t] # None /\ handle[u] # None /\ handle[u].generation = handle[t].generation
       => handle[u].engine = handle[t].engine

-----------------------------------------------------------------------------
(* The executions *)

Places ==
  {"idle", "prepare", "invoke", "put", "insert", "save", "table", "finish", "fail"}

RunTyped ==
  /\ workflow \in {"saga", "approval"}
  /\ plan \in [Operation -> Failure]
  /\ artifacts \in [0..MaxEngines -> Artifacts \cup {None}]
  /\ decided = [s \in 0..MaxEngines |-> decided[s]]
  /\ at \in [Thread -> Places]
  /\ calls \in Nat

Outcomes ==
  [status : {"succeeded", "waiting"}, put : Artifacts \cup {None}, save : Save \cup {None}]

Jobs ==
  [op : {"execute"}, call : Nat]
  \cup [op : {"resume"}, call : Nat, page : pages, action : Actions]

\* What an outcome says is consistent: a success has an artifact and a pause
\* a checkpoint; a saga saves whatever it does, and succeeds with its final
\* version.
Consistent(outcome) ==
  /\ outcome \in Outcomes
  /\ outcome.status = "succeeded" => outcome.put # None
  /\ outcome.status = "waiting" => outcome.put = None /\ outcome.save # None
  /\ workflow = "saga" =>
       /\ outcome.save # None
       /\ outcome.status = "succeeded" <=> outcome.save.body.done # "open"
       /\ outcome.status = "succeeded" => outcome.put = outcome.save.body

\* The answer to a page decides what the page has shown.
Answers(t) ==
  workflow = "approval" /\ todo[t].put # None =>
    /\ job[t].op = "resume"
    /\ job[t].page.store = StoreOf(t) => todo[t].put.proposal = job[t].page.proposal

\* An execution knows its job and, once prepared, its engine; it has nothing
\* to do before it has looked; it saves after its artifact is stored, and
\* ends after its version is.  Only the durable store keeps the artifact.
Execution(t) ==
  /\ at[t] # "idle" => job[t] \in Jobs
  /\ at[t] \in {"invoke", "put", "insert", "save", "table", "finish"} => step[t] = "prepared"
  /\ at[t] \in {"idle", "prepare", "invoke"} => todo[t] = None
  /\ at[t] \in {"put", "insert", "save", "table", "finish"} =>
       Consistent(todo[t]) /\ Answers(t)
  /\ at[t] \in {"put", "insert"} => todo[t].put # None
  /\ at[t] = "insert" => ArtifactsOf(handle[t].engine) # 0
  /\ at[t] \in {"save", "table"} => todo[t].save # None
  /\ at[t] \in {"save", "table", "finish"} /\ todo[t].put # None
       /\ ArtifactsOf(handle[t].engine) = 0 => artifacts[0] = todo[t].put
  /\ txn[t] # "none" <=> at[t] = "table"
  /\ at[t] = "table" => Postgres(t) /\ asked[t] = todo[t].save
  /\ at[t] = "finish" /\ todo[t].save # None =>
       \E v \in VersionsIn(StoreOf(t)) : v.req = todo[t].save

\* A page that shows a pause shows what a version of its store has saved.
PagesInv ==
  \A page \in pages :
    /\ page.store \in 0..MaxEngines
    /\ workflow = "approval" =>
         \E v \in VersionsIn(page.store) :
           v.req.id = page.id /\ v.req.body.proposal = page.proposal

RunInv ==
  /\ RunTyped
  /\ todo \in [Thread -> Outcomes \cup {None}]
  /\ job \in [Thread -> Jobs \cup {None}]
  /\ \A t \in Thread : Execution(t)
  /\ PagesInv

IInv ==
  /\ PgInv /\ MemoryInv /\ OwnerInv /\ RunInv
  /\ EndIsReconciled /\ ResultIsEnd /\ DecidedAsSeen

-----------------------------------------------------------------------------
(* The versions of a stream *)

\* No version is None.
LEMMA RowsExist == ASSUME NEW rows, rows \subseteq Row PROVE None \notin rows
<1>1. Row \subseteq [req : Saves, rev : Nat]
  BY DEF Row, Save, Saves
<1>2. QED BY <1>1, NoneAssumption

\* A stream that has versions has a newest one.
LEMMA NewestIsThere ==
  ASSUME NEW rows, rows \subseteq Row, Linear(rows), rows # {}
  PROVE  /\ Newest(rows) \in rows /\ Newest(rows) # None
         /\ \A w \in rows : w.rev <= Newest(rows).rev
<1>1. \E v \in rows : \A w \in rows : w.rev <= v.rev
  BY DEF Linear
<1>2. Newest(rows) = CHOOSE v \in rows : \A w \in rows : w.rev <= v.rev
  BY DEF Newest
<1>3. Newest(rows) \in rows /\ \A w \in rows : w.rev <= Newest(rows).rev
  BY <1>1, <1>2
<1>4. QED BY <1>3, RowsExist

\* A version on top of the newest one, with an identity of its own, continues
\* the stream.
LEMMA AppendKeeps ==
  ASSUME NEW rows, rows \subseteq Row, Linear(rows),
         NEW req \in Save, \A v \in rows : v.req.id # req.id,
         req.parent = IdOf(Newest(rows)),
         NEW row,
         row = [req |-> req, rev |-> IF Newest(rows) = None THEN 1 ELSE Newest(rows).rev + 1]
  PROVE  /\ row \in Row
         /\ Linear(rows \cup {row})
         /\ Newest(rows \cup {row}) = row
         /\ \A v \in rows : ~Collides(row, v)
<1>1. rows = {} => Newest(rows) = None
  BY DEF Newest
<1>2. rows # {} => /\ Newest(rows) \in rows /\ Newest(rows) # None
                   /\ \A w \in rows : w.rev <= Newest(rows).rev
  BY NewestIsThere
<1>3. \A v \in rows : v.rev \in Nat \ {0}
  BY DEF Row
<1>4. row \in Row /\ row.req = req
  <2>1. row.rev \in Nat \ {0}
    BY <1>1, <1>2, <1>3
  <2>2. QED BY <2>1 DEF Row
<1>5. /\ \A v \in rows : v.rev < row.rev
      /\ \A r \in 1..row.rev : r = row.rev \/ \E w \in rows : w.rev = r
  <2>1. CASE rows = {}
    BY <1>1, <2>1
  <2>2. CASE rows # {}
    <3>1. row.rev = Newest(rows).rev + 1
      BY <1>2, <2>2
    <3>2. \A r \in 1..Newest(rows).rev : \E w \in rows : w.rev = r
      BY <1>2, <2>2 DEF Linear
    <3>3. Newest(rows).rev \in Nat
      BY <1>2, <1>3, <2>2
    <3>4. \A v \in rows : v.rev < row.rev
      BY <1>2, <1>3, <2>2, <3>1, <3>3
    <3>5. \A r \in 1..row.rev : r = row.rev \/ r \in 1..Newest(rows).rev
      BY <3>1, <3>3
    <3>6. QED BY <3>2, <3>4, <3>5
  <2>3. QED BY <2>1, <2>2
<1>6. \A v \in rows : ~Collides(row, v) /\ ~Collides(v, row)
  BY <1>3, <1>4, <1>5 DEF Collides
<1>7. \A w \in rows \cup {row} : w.rev <= row.rev
  BY <1>3, <1>4, <1>5 DEF Row
<1>8. \A v \in rows : ~(workflow = "saga" /\ v.req.body.done # "open")
  <2>1. SUFFICES ASSUME workflow = "saga", NEW v \in rows, v.req.body.done # "open"
                 PROVE  FALSE
    OBVIOUS
  <2> DEFINE top == Newest(rows)
  <2>2. top \in rows /\ top # None /\ v.rev <= top.rev
    BY <1>2
  <2>3. top.rev <= v.rev
    BY <2>1, <2>2 DEF Linear
  <2>4. v = top
    BY <1>3, <2>2, <2>3 DEF Linear, Collides
  <2>5. top.req \in Save /\ top.req.id \in CheckpointId
    BY <2>2 DEF Row, Save
  <2>6. req.parent = top.req.id /\ req.parent # None
    BY <2>2, <2>5, RecordAssumption DEF IdOf
  <2>7. top.req.id.name = "partial"
    BY <2>1, <2>6 DEF Save
  <2>8. QED BY <2>1, <2>4, <2>5, <2>7 DEF Save
<1>9. Linear(rows \cup {row})
  <2>1. \A v, w \in rows \cup {row} : Collides(v, w) => v = w
    BY <1>6 DEF Linear
  <2>2. \E v \in rows \cup {row} : \A w \in rows \cup {row} : w.rev <= v.rev
    BY <1>7
  <2>3. \A v \in rows \cup {row} : \A r \in 1..v.rev : \E w \in rows \cup {row} : w.rev = r
    BY <1>5 DEF Linear
  <2>4. \A v, w \in rows \cup {row} :
          workflow = "saga" /\ v.req.body.done # "open" => w.rev <= v.rev
    BY <1>7, <1>8
  <2>5. QED BY <2>1, <2>2, <2>3, <2>4 DEF Linear
<1>10. Newest(rows \cup {row}) = row
  <2>1. rows \cup {row} \subseteq Row
    BY <1>4
  <2>2. /\ Newest(rows \cup {row}) \in rows \cup {row}
        /\ row.rev <= Newest(rows \cup {row}).rev
    BY <1>9, <2>1, NewestIsThere
  <2>3. QED BY <1>3, <1>4, <1>5, <2>2 DEF Row
<1>11. QED BY <1>4, <1>6, <1>9, <1>10

\* A version of a stream that is not the newest one has a successor, which
\* has the revision of whatever is made on top of it.
LEMMA OnlyNewestFits ==
  ASSUME NEW rows, rows \subseteq Row, Linear(rows),
         NEW base \in rows \cup {None},
         \A v \in rows : v.rev # IF base = None THEN 1 ELSE base.rev + 1
  PROVE  base = Newest(rows)
<1>1. CASE rows = {}
  BY <1>1 DEF Newest
<1>2. CASE rows # {}
  <2> DEFINE top == Newest(rows)
  <2>1. top \in rows /\ top # None /\ top.rev \in Nat \ {0}
        /\ \A w \in rows : w.rev <= top.rev
    BY <1>2, NewestIsThere DEF Row
  <2>2. \A r \in 1..top.rev : \E w \in rows : w.rev = r
    BY <2>1 DEF Linear
  <2>3. base # None
    BY <2>1, <2>2
  <2>4. base \in rows /\ base.rev \in Nat \ {0} /\ base.rev <= top.rev
    BY <2>1, <2>3 DEF Row
  <2>5. ~(base.rev + 1 \in 1..top.rev)
    BY <2>2, <2>3
  <2>6. base.rev = top.rev
    BY <2>1, <2>4, <2>5
  <2>7. QED BY <2>1, <2>4, <2>6 DEF Linear, Collides
<1>3. QED BY <1>1, <1>2

-----------------------------------------------------------------------------
(* The table *)

\* A step as CheckpointStream has them.
StreamStep ==
  [\/ \E t \in Thread : asked[t] # None /\ Stream!Commit(asked[t])
   \/ Stream!Return(returned')]_(Stream!vars)

\* A step that leaves the rows alone returns committed versions, or nothing.
LEMMA SameTable ==
  ASSUME UNCHANGED table, returned' = returned \/ (returned \subseteq returned' /\ returned' \subseteq table)
  PROVE  StreamStep
<1>1. Newest(table)' = Newest(table)
  BY DEF Newest
<1>2. CASE returned' = returned
  BY <1>1, <1>2 DEF StreamStep, Stream!vars
<1>3. CASE returned \subseteq returned' /\ returned' \subseteq table
  <2>1. returned' = returned \cup returned'
    BY <1>3
  <2>2. Stream!Return(returned')
    BY <1>1, <1>3, <2>1 DEF Stream!Return
  <2>3. QED BY <2>2 DEF StreamStep
<1>4. QED BY <1>2, <1>3

\* What a caller has inserted goes on top of the tip when it is committed.
LEMMA CommitAppends ==
  ASSUME PgInv, UNCHANGED <<workflow, returned>>,
         NEW t \in Thread, txn[t] = "commit", table' = table \cup {inserted[t]}
  PROVE  /\ inserted[t] \in Row /\ inserted[t].req = asked[t]
         /\ (table \subseteq Row /\ Linear(table))'
         /\ \A u \in Thread : txn[u] = "commit" => u = t
         /\ StreamStep
<1>1. Transaction(t) /\ TableInv
  BY DEF PgInv
<1>2. /\ inserted[t] = RowOf(t) /\ head[t] = Newest(table) /\ asked[t] # None
      /\ asked[t].parent = IdOf(head[t])
      /\ \A v \in table : ~Collides(inserted[t], v)
      /\ \A u \in Thread : txn[u] = "commit" => u = t
  BY <1>1 DEF Transaction
<1>3. asked[t] \in Save /\ table \subseteq Row /\ Linear(table)
  BY <1>1, <1>2 DEF TableInv
<1>4. /\ inserted[t] = [req |-> asked[t],
                        rev |-> IF Newest(table) = None THEN 1 ELSE Newest(table).rev + 1]
      /\ inserted[t].req = asked[t]
  BY <1>2 DEF RowOf
<1>5. \A v \in table : v.req.id # asked[t].id
  BY <1>2, <1>4 DEF Collides
<1>6. /\ inserted[t] \in Row /\ Linear(table \cup {inserted[t]})
      /\ Newest(table \cup {inserted[t]}) = inserted[t]
  BY <1>2, <1>3, <1>4, <1>5, AppendKeeps
<1>7. Row' = Row
  BY DEF Row, Save
<1>8. (table \subseteq Row /\ Linear(table))'
  BY <1>3, <1>6, <1>7 DEF Linear, Collides
<1>9. Newest(table)' = inserted[t]
  BY <1>6 DEF Newest
<1>10. Stream!Commit(asked[t])
  <2>1. asked[t].parent = IF Newest(table) = None THEN None ELSE Newest(table).req.id
    BY <1>2 DEF IdOf
  <2>2. Stream!Appendable(asked[t])
    BY <1>5, <2>1 DEF Stream!Appendable
  <2>3. Stream!VersionOf(asked[t]) = inserted[t]
    BY <1>4 DEF Stream!VersionOf
  <2>4. QED BY <1>9, <2>2, <2>3 DEF Stream!Commit
<1>11. StreamStep
  BY <1>2, <1>10 DEF StreamStep
<1>12. QED BY <1>2, <1>4, <1>6, <1>8, <1>11

\* The transactions of the other callers are not affected, unless one more
\* row is inserted or committed.
LEMMA OtherTransaction ==
  ASSUME NEW t \in Thread, NEW u \in Thread, u # t, Transaction(u),
         UNCHANGED <<table, txn[u], asked[u], head[u], inserted[u]>>,
         \A v \in Thread : v # t => txn'[v] = txn[v],
         txn'[t] = "commit" => txn[t] = "commit"
  PROVE  Transaction(u)'
<1>1. RowOf(u)' = RowOf(u) /\ IdOf(head[u])' = IdOf(head[u]) /\ Newest(table)' = Newest(table)
  BY DEF RowOf, IdOf, Newest
<1>2. \A v \in Thread : txn'[v] = "commit" => txn[v] = "commit"
  OBVIOUS
<1>3. QED BY <1>1, <1>2 DEF Transaction, Collides

LEMMA BeginSaveKeeps ==
  ASSUME PgInv, UNCHANGED workflow, NEW t \in Thread, NEW request \in Save,
         BeginSave(t, request)
  PROVE  PgInv' /\ StreamStep
<1>1. TableInv'
  BY DEF BeginSave, PgInv, TableInv, Row, Save, Linear, Collides, Stage
<1>2. Transaction(t)'
  <2>1. None \notin Save
    BY RecordAssumption DEF Save, Saves
  <2>2. txn'[t] = "identity" /\ asked'[t] = request /\ inserted'[t] = inserted[t]
        /\ txn[t] = "none"
    BY DEF BeginSave, PgInv, TableInv
  <2>3. QED BY <2>1, <2>2 DEF PgInv, Transaction
<1>3. ASSUME NEW u \in Thread, u # t PROVE Transaction(u)'
  <2>1. UNCHANGED <<table, txn[u], asked[u], head[u], inserted[u]>>
    BY <1>3 DEF BeginSave, PgInv, TableInv
  <2>2. /\ \A v \in Thread : v # t => txn'[v] = txn[v]
        /\ txn'[t] # "commit"
    BY DEF BeginSave, PgInv, TableInv
  <2>3. QED BY <1>3, <2>1, <2>2, OtherTransaction DEF PgInv
<1>4. StreamStep
  BY SameTable DEF BeginSave
<1>5. QED BY <1>1, <1>2, <1>3, <1>4 DEF PgInv

LEMMA SelectKeeps ==
  ASSUME PgInv, UNCHANGED workflow, NEW t \in Thread,
         Identify(t) \/ FindHead(t) \/ LockHead(t)
  PROVE  PgInv' /\ StreamStep
<1>1. /\ UNCHANGED <<table, asked, inserted, returned>>
      /\ \A u \in Thread : u # t => txn'[u] = txn[u] /\ head'[u] = head[u]
  BY DEF Identify, FindHead, LockHead, To, PgInv, TableInv
<1>2. /\ txn[t] \in {"identity", "head", "lock"}
      /\ txn'[t] \in {"head", "saved", "refused", "lock", "insert"}
  BY DEF Identify, FindHead, LockHead, To, PgInv, TableInv
<1>3. TableInv'
  <2>1. head'[t] \in table \cup {None}
    <3>1. CASE FindHead(t)
      <4>1. table # {} => Newest(table) \in table
        BY NewestIsThere DEF PgInv, TableInv
      <4>2. QED BY <3>1, <4>1 DEF FindHead, PgInv, TableInv, Newest
    <3>2. CASE Identify(t) \/ LockHead(t)
      BY <3>2 DEF Identify, LockHead, PgInv, TableInv
    <3>3. QED BY <3>1, <3>2
  <2>2. head' \in [Thread -> table \cup {None}]
    BY <1>1, <2>1 DEF Identify, FindHead, LockHead, PgInv, TableInv
  <2>3. txn' \in [Thread -> Stage]
    BY <1>2 DEF Identify, FindHead, LockHead, To, PgInv, TableInv, Stage
  <2>4. Row' = Row /\ Save' = Save /\ Linear(table)' = Linear(table)
    BY <1>1 DEF Row, Save, Linear, Collides
  <2>5. QED BY <1>1, <2>2, <2>3, <2>4 DEF PgInv, TableInv
<1>4. Transaction(t)'
  <2>1. txn'[t] = "saved" => \E v \in table : v.req = asked[t]
    BY DEF Identify, FindHead, LockHead, To, WithId, PgInv, TableInv
  <2>2. txn'[t] = "insert" => asked[t].parent = IdOf(head[t]) /\ head' = head
    BY DEF Identify, FindHead, LockHead, To, PgInv, TableInv, IdOf
  <2>3. QED BY <1>1, <1>2, <2>1, <2>2 DEF PgInv, Transaction, IdOf
<1>5. ASSUME NEW u \in Thread, u # t PROVE Transaction(u)'
  BY <1>1, <1>2, <1>5, OtherTransaction DEF PgInv
<1>6. StreamStep
  BY <1>1, SameTable
<1>7. QED BY <1>3, <1>4, <1>5, <1>6 DEF PgInv

LEMMA InsertKeeps ==
  ASSUME PgInv, UNCHANGED workflow, NEW t \in Thread, Insert(t)
  PROVE  PgInv' /\ StreamStep
<1>1. /\ UNCHANGED <<table, asked, head, returned>> /\ txn[t] = "insert"
      /\ \A u \in Thread : u # t => txn'[u] = txn[u] /\ inserted'[u] = inserted[u]
      /\ \A u \in Thread : inserted[u] # None => ~Collides(RowOf(t), inserted[u])
  BY DEF Insert, To, PgInv, TableInv
<1>2. \/ txn'[t] = "refused" /\ inserted' = inserted
      \/ /\ txn'[t] = "commit" /\ inserted'[t] = RowOf(t)
         /\ \A v \in table : ~Collides(RowOf(t), v)
  BY DEF Insert, To, PgInv, TableInv
<1>3. /\ asked[t] \in Save /\ head[t] \in table \cup {None}
      /\ asked[t].parent = IdOf(head[t])
      /\ table \subseteq Row /\ Linear(table)
  BY <1>1 DEF PgInv, TableInv, Transaction
<1>4. Row' = Row /\ Save' = Save /\ Linear(table)' = Linear(table)
  BY <1>1 DEF Row, Save, Linear, Collides
<1>5. StreamStep
  BY <1>1, SameTable
<1>6. CASE txn'[t] = "refused" /\ inserted' = inserted
  <2>1. TableInv'
    BY <1>1, <1>4, <1>6 DEF Insert, To, PgInv, TableInv, Stage
  <2>2. Transaction(t)'
    BY <1>1, <1>6 DEF PgInv, Transaction
  <2>3. ASSUME NEW u \in Thread, u # t PROVE Transaction(u)'
    BY <1>1, <1>6, <2>3, OtherTransaction DEF PgInv
  <2>4. QED BY <1>5, <2>1, <2>2, <2>3 DEF PgInv
<1>7. CASE /\ txn'[t] = "commit" /\ inserted'[t] = RowOf(t)
           /\ \A v \in table : ~Collides(RowOf(t), v)
  <2>1. head[t] = Newest(table)
    <3>1. RowOf(t).rev = IF head[t] = None THEN 1 ELSE head[t].rev + 1
      BY DEF RowOf
    <3>2. \A v \in table : v.rev # IF head[t] = None THEN 1 ELSE head[t].rev + 1
      BY <1>7, <3>1 DEF Collides
    <3>3. QED BY <1>3, <3>2, OnlyNewestFits
  <2>2. \A v \in table : v.req.id # asked[t].id
    BY <1>7 DEF Collides, RowOf
  <2>3. RowOf(t) \in Row
    BY <1>3, <2>1, <2>2, AppendKeeps DEF RowOf
  <2>4. \A u \in Thread : txn[u] # "commit"
    <3>1. SUFFICES ASSUME NEW u \in Thread, txn[u] = "commit" PROVE FALSE
      OBVIOUS
    <3>2. inserted[u] # None /\ inserted[u] = RowOf(u) /\ head[u] = Newest(table)
      BY <3>1 DEF PgInv, Transaction
    <3>3. RowOf(u).rev = RowOf(t).rev
      BY <2>1, <3>2 DEF RowOf
    <3>4. QED BY <1>1, <3>2, <3>3 DEF Collides
  <2>5. TableInv'
    BY <1>1, <1>4, <1>7, <2>3 DEF Insert, To, PgInv, TableInv, Stage
  <2>6. Transaction(t)'
    <3>1. RowOf(t)' = RowOf(t) /\ Newest(table)' = Newest(table)
          /\ IdOf(head[t])' = IdOf(head[t])
      BY <1>1 DEF RowOf, Newest, IdOf
    <3>2. asked[t] # None
      BY <1>1 DEF PgInv, Transaction
    <3>3. inserted'[t] # None
      BY <1>7, <2>3, RowsExist
    <3>4. \A u \in Thread : txn'[u] = "commit" => u = t
      BY <1>1, <2>4
    <3>5. QED BY <1>1, <1>3, <1>7, <2>1, <3>1, <3>2, <3>3, <3>4 DEF Transaction, Collides
  <2>7. ASSUME NEW u \in Thread, u # t PROVE Transaction(u)'
    <3>1. txn'[u] = txn[u] /\ txn[u] # "commit" /\ UNCHANGED <<inserted[u], head[u], asked[u]>>
      BY <1>1, <2>4, <2>7
    <3>2. QED BY <1>1, <3>1 DEF PgInv, Transaction, IdOf
  <2>8. QED BY <1>5, <2>5, <2>6, <2>7 DEF PgInv
<1>8. QED BY <1>2, <1>6, <1>7

LEMMA CommitKeeps ==
  ASSUME PgInv, UNCHANGED workflow, NEW t \in Thread, txn[t] = "commit", Committed(t),
         NEW s \in {"saved", "refused"}, To(t, s), UNCHANGED <<asked, head, returned>>
  PROVE  PgInv' /\ StreamStep /\ table \subseteq table'
<1>1. table' = table \cup {inserted[t]}
  BY DEF Committed
<1>2. /\ inserted[t] \in Row /\ inserted[t].req = asked[t]
      /\ (table \subseteq Row /\ Linear(table))'
      /\ \A u \in Thread : txn[u] = "commit" => u = t
      /\ StreamStep
  BY <1>1, CommitAppends
<1>3. Row' = Row /\ Save' = Save
  BY DEF Row, Save
<1>4. /\ txn'[t] = s /\ inserted'[t] = None
      /\ \A u \in Thread : u # t => txn'[u] = txn[u] /\ inserted'[u] = inserted[u]
  BY DEF Committed, To, PgInv, TableInv
<1>5. TableInv'
  <2>1. txn' \in [Thread -> Stage] /\ inserted' \in [Thread -> Row \cup {None}]
    BY DEF Committed, To, PgInv, TableInv, Stage
  <2>2. asked \in [Thread -> Save \cup {None}] /\ head \in [Thread -> table' \cup {None}]
    BY <1>1 DEF PgInv, TableInv
  <2>3. returned \subseteq table'
    BY <1>1 DEF PgInv, TableInv
  <2>4. QED BY <1>2, <1>3, <2>1, <2>2, <2>3 DEF TableInv
<1>6. Transaction(t)'
  BY <1>1, <1>2, <1>4 DEF PgInv, Transaction
<1>7. ASSUME NEW u \in Thread, u # t PROVE Transaction(u)'
  <2>1. Transaction(u) /\ txn'[u] = txn[u] /\ txn[u] # "commit" /\ inserted'[u] = inserted[u]
    BY <1>2, <1>4, <1>7 DEF PgInv
  <2>2. QED BY <1>1, <2>1 DEF Transaction, IdOf
<1>8. QED BY <1>1, <1>2, <1>5, <1>6, <1>7 DEF PgInv

\* A connection that is lost rolls its transaction back, or has committed it.
LEMMA DisconnectKeeps ==
  ASSUME PgInv, UNCHANGED workflow, NEW t \in Thread, Disconnect(t)
  PROVE  PgInv' /\ StreamStep /\ table \subseteq table'
<1>1. CASE txn[t] = "commit" /\ Committed(t)
  BY <1>1, CommitKeeps DEF Disconnect
<1>2. CASE inserted' = [inserted EXCEPT ![t] = None] /\ UNCHANGED table
  <2>1. /\ txn'[t] = "refused" /\ inserted'[t] = None /\ txn[t] # "none"
        /\ \A u \in Thread : u # t => txn'[u] = txn[u] /\ inserted'[u] = inserted[u]
    BY <1>2 DEF Disconnect, To, PgInv, TableInv
  <2>2. UNCHANGED <<table, asked, head, returned>>
    BY <1>2 DEF Disconnect
  <2>3. TableInv'
    BY <1>2, <2>2 DEF Disconnect, To, PgInv, TableInv, Stage, Row, Save, Linear, Collides
  <2>4. Transaction(t)'
    BY <2>1, <2>2 DEF PgInv, Transaction
  <2>5. ASSUME NEW u \in Thread, u # t PROVE Transaction(u)'
    BY <2>1, <2>2, <2>5, OtherTransaction DEF PgInv
  <2>6. QED BY <2>2, <2>3, <2>4, <2>5, SameTable DEF PgInv
<1>3. QED BY <1>1, <1>2 DEF Disconnect

LEMMA EndSaveKeeps ==
  ASSUME PgInv, UNCHANGED workflow, NEW t \in Thread, EndSave(t)
  PROVE  PgInv' /\ StreamStep
<1>1. UNCHANGED <<table, inserted>> /\ returned \subseteq returned' /\ returned' \subseteq table
  BY DEF EndSave, WithId, PgInv, TableInv
<1>2. /\ txn'[t] = "none" /\ asked'[t] = None /\ txn[t] # "commit"
      /\ \A u \in Thread :
           u # t => txn'[u] = txn[u] /\ asked'[u] = asked[u] /\ head'[u] = head[u]
  BY DEF EndSave, PgInv, TableInv
<1>3. TableInv'
  <2>1. /\ txn' \in [Thread -> Stage] /\ asked' \in [Thread -> Save \cup {None}]
        /\ head' \in [Thread -> table \cup {None}]
    BY DEF EndSave, PgInv, TableInv, Stage
  <2>2. QED BY <1>1, <2>1 DEF PgInv, TableInv, Row, Save, Linear, Collides
<1>4. Transaction(t)'
  BY <1>1, <1>2 DEF PgInv, Transaction
<1>5. ASSUME NEW u \in Thread, u # t PROVE Transaction(u)'
  BY <1>1, <1>2, <1>5, OtherTransaction DEF PgInv
<1>6. QED BY <1>1, <1>3, <1>4, <1>5, SameTable DEF PgInv

\* A load returns versions of the table.
LEMMA LoadsKeep ==
  ASSUME PgInv, UNCHANGED workflow, NEW rows \in SUBSET table, Loads(rows)
  PROVE  PgInv' /\ StreamStep
<1>1. /\ UNCHANGED <<table, txn, asked, head, inserted>>
      /\ returned \subseteq returned' /\ returned' \subseteq table
  BY DEF Loads, PgInv, TableInv
<1>2. TableInv'
  BY <1>1 DEF PgInv, TableInv, Row, Save, Linear, Collides
<1>3. ASSUME NEW u \in Thread PROVE Transaction(u)'
  BY <1>1, <1>3 DEF PgInv, Transaction, IdOf, RowOf, Newest, Collides
<1>4. QED BY <1>1, <1>2, <1>3, SameTable DEF PgInv

\* At most one transaction is committed by the server when the process ends.
LEMMA PgRestartKeeps ==
  ASSUME PgInv, UNCHANGED workflow, PgRestart
  PROVE  PgInv' /\ StreamStep /\ table \subseteq table'
<1>1. PICK C \in SUBSET {t \in Thread : inserted[t] # None} :
        table' = table \cup {inserted[t] : t \in C}
  BY DEF PgRestart
<1>2. \A t \in C : txn[t] = "commit"
  BY DEF PgInv, Transaction
<1>3. (table \subseteq Row /\ Linear(table))' /\ StreamStep
  <2>1. CASE C = {}
    <3>1. table' = table
      BY <1>1, <2>1
    <3>2. QED BY <3>1, SameTable DEF PgRestart, PgInv, TableInv, Row, Save, Linear, Collides
  <2>2. CASE C # {}
    <3>1. PICK t \in C : TRUE
      BY <2>2
    <3>2. C = {t}
      BY <1>2, <3>1 DEF PgInv, Transaction
    <3>3. table' = table \cup {inserted[t]}
      BY <1>1, <3>2
    <3>4. QED BY <1>2, <3>1, <3>3, CommitAppends DEF PgRestart
  <2>3. QED BY <2>1, <2>2
<1>4. table \subseteq table'
  BY <1>1
<1>5. TableInv'
  BY <1>3, <1>4 DEF PgRestart, PgInv, TableInv, Stage
<1>6. ASSUME NEW t \in Thread PROVE Transaction(t)'
  BY <1>6 DEF PgRestart, Transaction
<1>7. QED BY <1>3, <1>4, <1>5, <1>6 DEF PgInv

\* The statements of a save.
LEMMA PgStepKeeps ==
  ASSUME PgInv, UNCHANGED workflow, NEW t \in Thread, PgStep(t)
  PROVE  PgInv' /\ StreamStep /\ table \subseteq table'
<1>1. CASE Commit(t)
  BY <1>1, CommitKeeps DEF Commit
<1>2. CASE Identify(t) \/ FindHead(t) \/ LockHead(t)
  BY <1>2, SelectKeeps DEF Identify, FindHead, LockHead
<1>3. CASE Insert(t)
  BY <1>3, InsertKeeps DEF Insert
<1>4. QED BY <1>1, <1>2, <1>3 DEF PgStep

LEMMA PgStays ==
  ASSUME PgInv, UNCHANGED <<workflow, pg>>
  PROVE  PgInv' /\ StreamStep
<1>1. UNCHANGED <<table, txn, asked, head, inserted, returned>>
  BY DEF pg
<1>2. TableInv'
  BY <1>1 DEF PgInv, TableInv, Row, Save, Linear, Collides
<1>3. ASSUME NEW u \in Thread PROVE Transaction(u)'
  BY <1>1, <1>3 DEF PgInv, Transaction, IdOf, RowOf, Newest, Collides
<1>4. QED BY <1>1, <1>2, <1>3, SameTable DEF PgInv

-----------------------------------------------------------------------------
(* The engines *)

\* An engine that is built leaves the others what they are.
LEMMA BuiltGrows ==
  ASSUME OwnerTyped, NEW config \in Config, NewEngine(config), Builds(config)
  PROVE  /\ built' \in Seq(Config) /\ Len(built') <= MaxEngines
         /\ engine' \in DOMAIN built' /\ engine' # None /\ built'[engine'] = config
         /\ DOMAIN built \subseteq DOMAIN built'
         /\ \A e \in DOMAIN built : built'[e] = built[e]
<1>1. /\ built \in Seq(Config) /\ built' = Append(built, config) /\ engine' = Len(built) + 1
      /\ Len(built) < MaxEngines /\ MaxEngines \in Nat
  BY ConfigAssumption DEF OwnerTyped, NewEngine, Builds
<1>2. engine' \in Nat
  BY <1>1
<1>3. QED BY <1>1, <1>2, NoneAssumption

\* What a thread has taken remains valid while no other engine takes its
\* generation.
LEMMA HandleStays ==
  ASSUME NEW t \in Thread, Handle(t), handle'[t] = handle[t],
         generation \in Nat, generation' \in Nat, generation <= generation',
         DOMAIN built \subseteq DOMAIN built', \A e \in DOMAIN built : built'[e] = built[e],
         generation' = generation => engine' = engine
  PROVE  Handle(t)'
  BY DEF Handle

LEMMA PrepareKeeps ==
  ASSUME OwnerInv, NEW t \in Thread, Prepare(t)
  PROVE  OwnerInv'
<1>1. OwnerTyped'
  BY DEF Prepare, OwnerInv, OwnerTyped
<1>2. /\ handle'[t] = None /\ step'[t] = "lookup"
      /\ \A u \in Thread : u # t => handle'[u] = handle[u] /\ step'[u] = step[u]
      /\ UNCHANGED <<raw, engine, generation, signature, built>>
  BY DEF Prepare, OwnerInv, OwnerTyped
<1>3. \A u \in Thread : Handle(u) /\ handle'[u] = handle[u] => Handle(u)'
  BY <1>2 DEF Handle
<1>4. QED BY <1>1, <1>2, <1>3 DEF OwnerInv

LEMMA OwnerStepKeeps ==
  ASSUME OwnerInv, NEW t \in Thread, OwnerStep(t)
  PROVE  /\ OwnerInv'
         /\ DOMAIN built \subseteq DOMAIN built' /\ \A e \in DOMAIN built : built'[e] = built[e]
         /\ \A u \in Thread : u # t => UNCHANGED <<handle[u], step[u]>>
         /\ step[t] # "prepared"
<1> USE DEF OwnerInv
<1>1. /\ \A u \in Thread : u # t => UNCHANGED <<handle[u], step[u]>>
      /\ step[t] \in {"lookup", "create", "take"}
  BY DEF OwnerStep, LookUp, Create, Take, Goes, OwnerTyped
<1>2. CASE LookUp(t)
  <2>1. /\ UNCHANGED <<raw, engine, generation, signature, built, candidate, handle>>
        /\ step'[t] = IF engine = None THEN "create" ELSE "take"
    BY <1>2 DEF LookUp, Goes, OwnerTyped
  <2>2. OwnerTyped'
    BY <1>2 DEF LookUp, Goes, OwnerTyped
  <2>3. \A u \in Thread : Handle(u) => Handle(u)'
    BY <2>1 DEF Handle
  <2>4. QED BY <1>1, <2>1, <2>2, <2>3
<1>3. CASE Create(t)
  <2>1. CASE UNCHANGED <<engine, generation, signature, built>>
    <3>1. engine = None => ~NewEngine(raw)
      BY <2>1, NoneAssumption DEF NewEngine, OwnerTyped
    <3>2. /\ UNCHANGED <<raw, candidate, handle>>
          /\ step'[t] = "failed" \/ (engine # None /\ step'[t] = "take")
      <4>1. Goes(t, "failed") \/ (engine # None /\ Goes(t, "take"))
        BY <1>3, <3>1 DEF Create
      <4>2. \A s : Goes(t, s) => step'[t] = s
        BY DEF Goes, OwnerTyped
      <4>3. QED BY <1>3, <4>1, <4>2 DEF Create
    <3>3. OwnerTyped'
      BY <1>3, <2>1 DEF Create, Goes, OwnerTyped
    <3>4. \A u \in Thread : Handle(u) => Handle(u)'
      BY <2>1, <3>2 DEF Handle
    <3>5. QED BY <1>1, <2>1, <3>2, <3>3, <3>4
  <2>2. CASE /\ engine = None /\ Builds(raw) /\ NewEngine(raw)
             /\ generation' = 1 /\ signature' = SignatureOf[raw] /\ Goes(t, "take")
    <3>1. /\ UNCHANGED <<raw, candidate, handle>> /\ raw \in Config
          /\ step'[t] = "take"
      BY <1>3, <2>2 DEF Create, Goes, OwnerTyped
    <3>2. /\ built' \in Seq(Config) /\ Len(built') <= MaxEngines
          /\ engine' \in DOMAIN built' /\ engine' # None /\ built'[engine'] = raw
          /\ DOMAIN built \subseteq DOMAIN built'
          /\ \A e \in DOMAIN built : built'[e] = built[e]
      BY <2>2, <3>1, BuiltGrows
    <3>3. \A u \in Thread : handle[u] = None
      BY <2>2 DEF Handle
    <3>4. OwnerTyped'
      BY <1>3, <2>2, <3>1, <3>2 DEF Goes, OwnerTyped, Signatures
    <3>5. QED BY <1>1, <2>2, <3>1, <3>2, <3>3, <3>4
  <2>3. QED BY <1>3, <2>1, <2>2 DEF Create
<1>4. CASE Take(t)
  <2>1. /\ UNCHANGED <<raw, engine, generation, signature, built, candidate>>
        /\ engine # None /\ step'[t] = "prepared"
        /\ handle'[t] = [engine |-> engine, generation |-> generation, signature |-> signature]
    BY <1>4 DEF Take, Goes, OwnerTyped
  <2>2. /\ engine \in DOMAIN built /\ engine \in Nat /\ generation \in Nat \ {0}
        /\ signature = SignatureOf[raw] /\ signature \in Signatures /\ built[engine] = raw
    BY <2>1 DEF OwnerTyped, Signatures
  <2>3. OwnerTyped'
    BY <1>4, <2>2 DEF Take, Goes, OwnerTyped, Handles
  <2>4. Handle(t)'
    BY <2>1, <2>2 DEF Handle
  <2>5. \A u \in Thread : u # t /\ Handle(u) => Handle(u)'
    BY <1>1, <2>1 DEF Handle
  <2>6. handle'[t] # None
    BY <2>1, <2>2, HandleAssumption DEF Handles
  <2>7. \A u \in Thread : u # t /\ handle[u] # None /\ handle[u].generation = generation
                          => handle[u].engine = engine
    BY DEF Handle
  <2>8. QED BY <1>1, <2>1, <2>3, <2>4, <2>5, <2>6, <2>7
<1>5. QED BY <1>1, <1>2, <1>3, <1>4 DEF OwnerStep

LEMMA ReconfigureKeeps ==
  ASSUME OwnerInv,
         \/ \E config \in Config, force \in BOOLEAN : Reconfigure(config, force)
         \/ CandidateFails
  PROVE  OwnerInv' /\ UNCHANGED <<built, handle, step>>
<1>1. UNCHANGED <<raw, engine, generation, signature, built, step, handle>>
  BY DEF Reconfigure, CandidateFails
<1>2. OwnerTyped'
  BY <1>1 DEF OwnerInv, OwnerTyped, Reconfigure, CandidateFails
<1>3. \A u \in Thread : Handle(u) => Handle(u)'
  BY <1>1 DEF Handle
<1>4. QED BY <1>1, <1>2, <1>3 DEF OwnerInv

LEMMA SwapKeeps ==
  ASSUME OwnerInv, Swap
  PROVE  /\ OwnerInv' /\ UNCHANGED <<handle, step>>
         /\ DOMAIN built \subseteq DOMAIN built' /\ \A e \in DOMAIN built : built'[e] = built[e]
<1>1. candidate \in Config /\ NewEngine(candidate) /\ Builds(candidate)
  BY DEF Swap, OwnerInv, OwnerTyped
<1>2. /\ built' \in Seq(Config) /\ Len(built') <= MaxEngines
      /\ engine' \in DOMAIN built' /\ engine' # None /\ built'[engine'] = candidate
      /\ DOMAIN built \subseteq DOMAIN built'
      /\ \A e \in DOMAIN built : built'[e] = built[e]
  BY <1>1, BuiltGrows DEF OwnerInv
<1>3. /\ raw' = candidate /\ signature' = SignatureOf[candidate] /\ candidate' = None
      /\ generation' = generation + 1 /\ generation \in Nat /\ UNCHANGED <<step, handle>>
  BY DEF Swap, OwnerInv, OwnerTyped
<1>4. OwnerTyped'
  BY <1>1, <1>2, <1>3 DEF OwnerInv, OwnerTyped, Signatures
<1>5. \A u \in Thread : handle[u] # None => Handle(u)'
  BY <1>2, <1>3, HandleStays DEF OwnerInv
<1>6. QED BY <1>2, <1>3, <1>4, <1>5 DEF OwnerInv

LEMMA OwnerStartsKeeps ==
  ASSUME OwnerInv, NEW config \in Config, OwnerStarts(config), UNCHANGED built
  PROVE  OwnerInv' /\ \A t \in Thread : step'[t] = "none"
<1>1. OwnerTyped'
  BY DEF OwnerStarts, OwnerInv, OwnerTyped
<1>2. QED BY <1>1 DEF OwnerStarts, OwnerInv

LEMMA OwnerStays == ASSUME OwnerInv, UNCHANGED owner PROVE OwnerInv'
<1>1. UNCHANGED <<raw, engine, generation, signature, built, candidate, step, handle>>
  BY DEF owner
<1>2. QED BY <1>1 DEF OwnerInv, OwnerTyped, Handle

-----------------------------------------------------------------------------
(* What the workflows compute *)

LEMMA ReconcileIsConsistent ==
  ASSUME workflow = "saga", NEW results \in Results, NEW parent \in CheckpointId \cup {None},
         parent = None \/ parent.name = "partial"
  PROVE  Consistent(Reconcile(results, parent))
<1>1. CASE \A o \in Operation : results[o].failure = "none"
  <2>1. Body("completed", results) \in SagaBody
    BY DEF Body, SagaBody
  <2>2. Request("completed", 0, parent, Body("completed", results)) \in Save
    BY <2>1 DEF Request, Save, CheckpointId, Body
  <2>3. Reconcile(results, parent) =
          Outcome("succeeded", Body("completed", results),
                  Request("completed", 0, parent, Body("completed", results)))
    BY <1>1 DEF Reconcile, Finalize
  <2>4. Body("completed", results) # None
    BY <2>1, RecordAssumption DEF Artifacts
  <2>5. Request("completed", 0, parent, Body("completed", results)) # None
    BY <2>2, RecordAssumption DEF Save, Saves
  <2>6. QED
    BY <2>1, <2>2, <2>3, <2>4, <2>5
    DEF Consistent, Outcomes, Outcome, Artifacts, Request, Body
<1>2. CASE ~\A o \in Operation : results[o].failure = "none"
  <2>1. Body("open", results) \in SagaBody
    BY DEF Body, SagaBody
  <2>2. Request("partial", Attempts(results), parent, Body("open", results)) \in Save
    BY <2>1 DEF Request, Save, CheckpointId, Body
  <2>3. Reconcile(results, parent) =
          Outcome("waiting", None,
                  Request("partial", Attempts(results), parent, Body("open", results)))
    BY <1>2 DEF Reconcile
  <2>4. Request("partial", Attempts(results), parent, Body("open", results)) # None
    BY <2>2, RecordAssumption DEF Save, Saves
  <2>5. QED
    BY <2>1, <2>2, <2>3, <2>4 DEF Consistent, Outcomes, Outcome, Request, Body
<1>3. QED BY <1>1, <1>2

\* The results a failure plan leads to, and those of another attempt.
LEMMA SagaIsConsistent ==
  ASSUME RunTyped, workflow = "saga"
  PROVE  /\ Consistent(SagaExecute(plan))
         /\ \A version \in Row, action \in Actions :
              \/ SagaResume(version, action) = None
              \/ Consistent(SagaResume(version, action))
<1>1. [o \in Operation |-> Branch(plan[o], 1)] \in Results
  BY DEF RunTyped, Results, Branch
<1>2. Consistent(SagaExecute(plan))
  BY <1>1, ReconcileIsConsistent DEF SagaExecute
<1>3. ASSUME NEW version \in Row, NEW action \in Actions,
             version.req.body.done = "open"
      PROVE  Consistent(SagaResume(version, action))
  <2> DEFINE results == version.req.body.results
             retried == [o \in Operation |->
                           IF results[o].failure = "retryable"
                           THEN Branch("none", results[o].attempt + 1)
                           ELSE results[o]]
  <2>1. /\ version.req \in Save /\ version.req.id \in CheckpointId
        /\ version.req.id.name = "partial"
        /\ version.req.body \in SagaBody /\ results \in Results
    BY <1>3 DEF Row, Save, SagaBody
  <2>2. retried \in Results
    <3>1. \A o \in Operation :
            /\ results[o] \in [failure : Failure, attempt : 1..2]
            /\ results[o].attempt = 2 => results[o].failure = "none"
      BY <2>1 DEF Results
    <3>2. ASSUME NEW o \in Operation, results[o].failure = "retryable"
          PROVE  Branch("none", results[o].attempt + 1) = [failure |-> "none", attempt |-> 2]
      <4>1. results[o].attempt = 1
        BY <3>1, <3>2
      <4>2. QED BY <4>1 DEF Branch
    <3>3. \A o \in Operation :
            /\ retried[o] \in [failure : Failure, attempt : 1..2]
            /\ retried[o].attempt = 2 => retried[o].failure = "none"
      BY <3>1, <3>2 DEF Failure
    <3>4. QED BY <3>3 DEF Results
  <2>3. CASE action = "retry_failed"
    <3>1. SagaResume(version, action) = Reconcile(retried, version.req.id)
      BY <1>3, <2>3 DEF SagaResume
    <3>2. QED BY <2>1, <2>2, <3>1, ReconcileIsConsistent
  <2>4. CASE action # "retry_failed"
    <3>1. Body("compensated", results) \in SagaBody
      BY <2>1 DEF Body, SagaBody
    <3>2. Request("compensated", 0, version.req.id, Body("compensated", results)) \in Save
      BY <2>1, <3>1 DEF Request, Save, CheckpointId, Body
    <3>3. SagaResume(version, action) =
            Outcome("succeeded", Body("compensated", results),
                    Request("compensated", 0, version.req.id, Body("compensated", results)))
      BY <1>3, <2>4 DEF SagaResume, Compensate, Finalize
    <3>4. Body("compensated", results) # None
      BY <3>1, RecordAssumption DEF Artifacts
    <3>5. Request("compensated", 0, version.req.id, Body("compensated", results)) # None
      BY <3>2, RecordAssumption DEF Save, Saves
    <3>6. QED
      BY <3>1, <3>2, <3>3, <3>4, <3>5
      DEF Consistent, Outcomes, Outcome, Artifacts, Request, Body
  <2>5. QED BY <2>3, <2>4
<1>4. QED BY <1>2, <1>3 DEF SagaResume

\* A pause of the approval saves the proposal it asks about; a decision is
\* about the proposal of the version that was loaded.
LEMMA ApprovalIsConsistent ==
  ASSUME workflow = "approval", NEW call \in Nat
  PROVE  /\ Consistent(ApprovalExecute(call)) /\ ApprovalExecute(call).put = None
         /\ \A version \in Row, action \in Actions :
              LET outcome == ApprovalResume(version, action, call)
              IN  /\ Consistent(outcome)
                  /\ outcome.put # None => outcome.put.proposal = version.req.body.proposal
<1>1. ASSUME NEW count \in Nat, NEW proposal \in Nat
      PROVE  Consistent(Pause(count, proposal, call)) /\ Pause(count, proposal, call).put = None
  <2> DEFINE state == [count |-> count, proposal |-> proposal, call |-> call]
             request == Request("approval-pause", count, Latest, state)
  <2>1. request \in Save
    BY DEF Request, Save, State, CheckpointId
  <2>2. request # None
    BY <2>1, RecordAssumption DEF Save, Saves
  <2>3. Pause(count, proposal, call) = Outcome("waiting", None, request)
    BY DEF Pause
  <2>4. QED BY <2>1, <2>2, <2>3 DEF Consistent, Outcomes, Outcome
<1>2. ASSUME NEW version \in Row, NEW action \in Actions
      PROVE  LET outcome == ApprovalResume(version, action, call)
             IN  /\ Consistent(outcome)
                 /\ outcome.put # None => outcome.put.proposal = version.req.body.proposal
  <2> DEFINE state == version.req.body
             decision == [decision |-> action, proposal |-> state.proposal,
                          count |-> state.count]
  <2>1. state \in State /\ state.count + 1 \in Nat
    BY DEF Row, Save, State
  <2>2. CASE action = "revise"
    <3>1. ApprovalResume(version, action, call) = Pause(state.count + 1, call, call)
      BY <2>2 DEF ApprovalResume
    <3>2. QED BY <1>1, <2>1, <3>1
  <2>3. CASE action # "revise"
    <3>1. decision \in Decision
      BY <2>1, <2>3 DEF Actions, Decision, State
    <3>2. decision # None
      BY <3>1, RecordAssumption DEF Artifacts
    <3>3. ApprovalResume(version, action, call) = Outcome("succeeded", decision, None)
      BY <2>3 DEF ApprovalResume
    <3>4. QED BY <3>1, <3>2, <3>3 DEF Consistent, Outcomes, Outcome, Artifacts
  <2>4. QED BY <2>2, <2>3
<1>3. QED BY <1>1, <1>2 DEF ApprovalExecute

-----------------------------------------------------------------------------
(* What a step leaves alone *)

EnginesStay ==
  DOMAIN built \subseteq DOMAIN built' /\ \A e \in DOMAIN built : built'[e] = built[e]

VersionsStay ==
  /\ table \subseteq table'
  /\ \A e \in 1..MaxEngines : memory[e] \subseteq memory'[e]

\* An engine keeps its stores.
LEMMA StoreStays ==
  ASSUME OwnerInv, NEW t \in Thread, step[t] = "prepared", handle'[t] = handle[t], EnginesStay
  PROVE  /\ handle[t].engine \in 1..MaxEngines /\ handle[t].engine \in DOMAIN built
         /\ StoreOf(t) \in 0..MaxEngines
         /\ ArtifactsOf(handle[t].engine) \in 0..MaxEngines
         /\ StoreOf(t)' = StoreOf(t) /\ (Postgres(t)' <=> Postgres(t))
         /\ ArtifactsOf(handle[t].engine)' = ArtifactsOf(handle[t].engine)
<1>1. handle[t].engine \in DOMAIN built /\ built \in Seq(Config) /\ Len(built) <= MaxEngines
  BY DEF OwnerInv, OwnerTyped, Handle
<1>2. handle[t].engine \in 1..MaxEngines /\ MaxEngines \in Nat
  BY <1>1, ConfigAssumption
<1>3. built'[handle'[t].engine] = built[handle[t].engine]
  BY <1>1 DEF EnginesStay
<1>4. /\ StoreOf(t)' = StoreOf(t)
      /\ ArtifactsOf(handle[t].engine)' = ArtifactsOf(handle[t].engine)
  BY <1>3 DEF StoreOf, CheckpointsOf, ArtifactsOf
<1>5. QED BY <1>1, <1>2, <1>4 DEF StoreOf, CheckpointsOf, ArtifactsOf, Postgres

\* The steps of others leave an execution what it is, if they keep versions
\* and pages and do not replace the durable artifact.
LEMMA ExecutionStays ==
  ASSUME IInv, NEW t \in Thread,
         UNCHANGED <<workflow, at[t], todo[t], job[t], asked[t]>>,
         txn'[t] = "none" <=> txn[t] = "none",
         step[t] = "prepared" => UNCHANGED <<step[t], handle[t]>>,
         EnginesStay, VersionsStay, pages \subseteq pages',
         artifacts[0] # None => artifacts'[0] = artifacts[0]
  PROVE  Execution(t)'
<1>1. Execution(t) /\ OwnerInv
  BY DEF IInv, RunInv
<1>2. Jobs \subseteq Jobs'
  BY DEF Jobs, Actions
<1>3. Consistent(todo[t])' <=> Consistent(todo[t])
  BY DEF Consistent, Outcomes, Save
<1>4. CASE at[t] \in {"put", "insert", "save", "table", "finish", "invoke"}
  <2>1. step[t] = "prepared" /\ UNCHANGED <<step[t], handle[t]>>
    BY <1>1, <1>4 DEF Execution
  <2>2. /\ StoreOf(t) \in 0..MaxEngines
        /\ StoreOf(t)' = StoreOf(t) /\ (Postgres(t)' <=> Postgres(t))
        /\ ArtifactsOf(handle[t].engine)' = ArtifactsOf(handle[t].engine)
    BY <1>1, <2>1, StoreStays
  <2>3. Answers(t)' <=> Answers(t)
    BY <2>2 DEF Answers
  <2>4. VersionsIn(StoreOf(t)) \subseteq VersionsIn(StoreOf(t))'
    BY <2>2 DEF VersionsIn, VersionsStay
  <2>5. QED BY <1>1, <1>2, <1>3, <2>1, <2>2, <2>3, <2>4 DEF Execution
<1>5. CASE at[t] \notin {"put", "insert", "save", "table", "finish", "invoke"}
  BY <1>1, <1>2, <1>5 DEF Execution
<1>6. QED BY <1>4, <1>5

LEMMA PagesStay ==
  ASSUME PagesInv, UNCHANGED <<workflow, pages>>, VersionsStay
  PROVE  PagesInv'
<1>1. \A store \in 0..MaxEngines : VersionsIn(store) \subseteq VersionsIn(store)'
  BY DEF VersionsIn, VersionsStay
<1>2. QED BY <1>1 DEF PagesInv

\* A version may be added to a store.
Settled(v, store) ==
  Final(v) /\ Keeps(store) => artifacts[0] # None /\ artifacts[0] = v.req.body

\* What is to be saved, or is being saved, agrees with the durable artifact.
LEMMA SavedIsSettled ==
  ASSUME IInv, NEW t \in Thread, at[t] \in {"save", "table"}
  PROVE  /\ todo[t] \in Outcomes /\ todo[t].save \in Save /\ todo[t].save # None
         /\ \A v : v.req = todo[t].save => Settled(v, StoreOf(t))
<1>1. /\ Consistent(todo[t]) /\ todo[t].save # None /\ step[t] = "prepared"
      /\ todo[t].put # None /\ ArtifactsOf(handle[t].engine) = 0 => artifacts[0] = todo[t].put
  BY DEF IInv, RunInv, Execution
<1>2. todo[t] \in Outcomes /\ todo[t].save \in Save
  BY <1>1 DEF Consistent, Outcomes
<1>3. ASSUME NEW v, v.req = todo[t].save, Final(v), Keeps(StoreOf(t))
      PROVE  artifacts[0] # None /\ artifacts[0] = v.req.body
  <2>1. todo[t].put = v.req.body /\ todo[t].put # None
    BY <1>1, <1>3 DEF Final, Consistent
  <2>2. handle[t].engine \in DOMAIN built
    BY <1>1 DEF IInv, OwnerInv, OwnerTyped, Handle
  <2>3. ArtifactsOf(handle[t].engine) = 0
    BY <1>3, <2>2 DEF Keeps, StoreOf
  <2>4. QED BY <1>1, <2>1, <2>3
<1>4. QED BY <1>1, <1>2, <1>3 DEF Settled

\* There is no premise on the engines that a further one makes easier.
LEMMA PremiseShrinks ==
  ASSUME EnginesStay
  PROVE  /\ \A store : Keeps(store)' => Keeps(store)
         /\ (\A e \in DOMAIN built : ArtifactsOf(e) = 0)'
              => \A e \in DOMAIN built : ArtifactsOf(e) = 0
<1>1. \A e \in DOMAIN built : /\ CheckpointsOf(e)' = CheckpointsOf(e)
                             /\ ArtifactsOf(e)' = ArtifactsOf(e)
  BY DEF EnginesStay, CheckpointsOf, ArtifactsOf
<1>2. QED BY <1>1 DEF EnginesStay, Keeps

\* The versions of a store agree with the durable artifact when the new ones
\* are settled and the artifact remains.
LEMMA EndStays ==
  ASSUME IInv, UNCHANGED workflow, EnginesStay,
         artifacts[0] # None => artifacts'[0] = artifacts[0],
         \A v \in table' : v \in table \/ Settled(v, 0),
         \A e \in 1..MaxEngines : \A v \in memory'[e] : v \in memory[e] \/ Settled(v, e)
  PROVE  EndIsReconciled'
<1>1. \A store \in 0..MaxEngines :
        \A v \in VersionsIn(store)' : v \in VersionsIn(store) \/ Settled(v, store)
  BY DEF VersionsIn
<1>2. SUFFICES ASSUME NEW store \in 0..MaxEngines, NEW v \in VersionsIn(store)',
                      Final(v), Keeps(store)
               PROVE  artifacts'[0] = v.req.body
  BY PremiseShrinks DEF EndIsReconciled, Final
<1>3. CASE v \in VersionsIn(store)
  <2>1. artifacts[0] = v.req.body
    BY <1>2, <1>3 DEF IInv, EndIsReconciled
  <2>2. v \in Row
    BY <1>3 DEF VersionsIn, IInv, PgInv, TableInv, MemoryInv
  <2>3. v.req.body \in SagaBody
    BY <1>2, <2>2 DEF Final, Row, Save
  <2>4. QED BY <2>1, <2>3, RecordAssumption DEF Artifacts
<1>4. CASE Settled(v, store)
  BY <1>2, <1>4 DEF Settled
<1>5. QED BY <1>1, <1>3, <1>4

\* A result remains with the version and the durable artifact it is from.
LEMMA ResultStays ==
  ASSUME IInv, UNCHANGED <<workflow, status, output>>, EnginesStay, VersionsStay,
         artifacts[0] # None => artifacts'[0] = artifacts[0]
  PROVE  ResultIsEnd'
<1>1. \A store \in 0..MaxEngines : VersionsIn(store) \subseteq VersionsIn(store)'
  BY DEF VersionsIn, VersionsStay
<1>2. \A v : Final(v)' <=> Final(v)
  BY DEF Final
<1>3. SUFFICES ASSUME status = "succeeded" PROVE ResultIsEnd'
  BY DEF ResultIsEnd
<1>4. workflow = "saga" =>
        \E store \in 0..MaxEngines : \E v \in VersionsIn(store)' : Final(v)' /\ v.req.body = output
  BY <1>1, <1>2, <1>3 DEF IInv, ResultIsEnd
<1>5. (\A e \in DOMAIN built : ArtifactsOf(e) = 0)' =>
        artifacts'[0] # None /\ artifacts'[0] = output
  BY <1>3, PremiseShrinks DEF IInv, ResultIsEnd
<1>6. QED BY <1>4, <1>5 DEF ResultIsEnd

\* The rows that transactions leave in the table.
LEMMA TableGrows ==
  ASSUME IInv, \/ \E t \in Thread : PgStep(t) \/ Disconnect(t)
               \/ PgRestart
  PROVE  \A v \in table' : v \in table \/ Settled(v, 0)
<1>1. \A v \in table' : v \in table \/ \E t \in Thread : inserted[t] # None /\ v = inserted[t]
  <2>1. ASSUME NEW t \in Thread, txn[t] = "commit" PROVE inserted[t] # None
    BY <2>1 DEF IInv, PgInv, Transaction
  <2>2. ASSUME NEW t \in Thread, PgStep(t) \/ Disconnect(t)
        PROVE  table' = table \/ (txn[t] = "commit" /\ table' = table \cup {inserted[t]})
    BY <2>2 DEF PgStep, Identify, FindHead, LockHead, Insert, Commit, Committed, Disconnect
  <2>3. ASSUME PgRestart
        PROVE  \A v \in table' : v \in table \/ \E t \in Thread : inserted[t] # None /\ v = inserted[t]
    BY <2>3 DEF PgRestart
  <2>4. QED BY <2>1, <2>2, <2>3
<1>2. ASSUME NEW t \in Thread, inserted[t] # None
      PROVE  Settled(inserted[t], 0)
  <2>1. txn[t] = "commit" /\ inserted[t] = RowOf(t)
    BY <1>2 DEF IInv, PgInv, Transaction
  <2>2. at[t] = "table" /\ asked[t] = todo[t].save /\ StoreOf(t) = 0
    BY <2>1 DEF IInv, RunInv, Execution, Postgres
  <2>3. inserted[t].req = todo[t].save
    BY <2>1, <2>2 DEF RowOf
  <2>4. QED BY <2>2, <2>3, SavedIsSettled
<1>3. QED BY <1>1, <1>2

-----------------------------------------------------------------------------
(* The steps of an execution *)

LEMMA InitEstablishes == Init => IInv
<1> SUFFICES ASSUME Init PROVE IInv
  OBVIOUS
<1>1. PgInv
  BY DEF Init, PgInit, PgInv, TableInv, Transaction, Linear, Stage, Row
<1>2. MemoryInv
  BY DEF Init, MemoryInv, Linear
<1>3. OwnerInv
  <2>1. built \in Seq(Config) /\ Len(built) <= MaxEngines
    BY ConfigAssumption DEF Init, OwnerInit
  <2>2. QED BY <2>1 DEF Init, OwnerInit, OwnerInv, OwnerTyped
<1>4. RunInv
  <2>1. RunTyped
    <3>1. plan \in [Operation -> Failure]
      BY DEF Init, Failure
    <3>2. QED BY <3>1 DEF Init, RunTyped, Places
  <2>2. \A t \in Thread : Execution(t)
    BY DEF Init, PgInit, Execution
  <2>3. QED BY <2>1, <2>2 DEF Init, RunInv, PagesInv
<1>5. EndIsReconciled /\ ResultIsEnd /\ DecidedAsSeen
  BY DEF Init, PgInit, VersionsIn, EndIsReconciled, ResultIsEnd, DecidedAsSeen
<1>6. QED BY <1>1, <1>2, <1>3, <1>4, <1>5 DEF IInv

\* An operation is accepted.
LEMMA AcceptKeeps ==
  ASSUME IInv, NEW t \in Thread, Start(t) \/ Resume(t)
  PROVE  IInv' /\ StreamStep
<1>1. PICK operation \in Jobs : Accept(t, operation)
  <2>1. CASE Start(t)
    <3>1. [op |-> "execute", call |-> Number] \in Jobs
      BY DEF IInv, RunInv, RunTyped, Jobs, Number
    <3>2. QED BY <2>1, <3>1 DEF Start
  <2>2. CASE Resume(t)
    <3>1. PICK page \in pages, action \in Actions :
            Accept(t, [op |-> "resume", call |-> Number, page |-> page, action |-> action])
      BY <2>2 DEF Resume
    <3>2. [op |-> "resume", call |-> Number, page |-> page, action |-> action] \in Jobs
      BY DEF IInv, RunInv, RunTyped, Jobs, Number
    <3>3. QED BY <3>1, <3>2
  <2>3. QED BY <2>1, <2>2
<1>2. /\ UNCHANGED <<pg, workflow, plan, output, pages, artifacts, decided, memory, todo>>
      /\ at[t] = "idle" /\ Prepare(t) /\ status' = "running"
      /\ at' = [at EXCEPT ![t] = "prepare"] /\ job' = [job EXCEPT ![t] = operation]
      /\ calls' = calls + 1
  BY <1>1 DEF Accept, stores
<1>3. UNCHANGED <<table, txn, asked, head, inserted, returned>>
  BY <1>2 DEF pg
<1>4. PgInv' /\ StreamStep
  BY <1>2, PgStays DEF IInv
<1>5. OwnerInv' /\ EnginesStay /\ \A u \in Thread : u # t => UNCHANGED <<step[u], handle[u]>>
  BY <1>2, PrepareKeeps DEF IInv, EnginesStay, Prepare, OwnerInv, OwnerTyped
<1>6. VersionsStay
  BY <1>2, <1>3 DEF VersionsStay
<1>7. Jobs' = Jobs /\ Outcomes' = Outcomes
  BY <1>2 DEF Jobs, Actions, Outcomes, Save
<1>8. MemoryInv'
  BY <1>2 DEF IInv, MemoryInv, Linear, Collides, Row, Save
<1>9. RunTyped' /\ todo' \in [Thread -> Outcomes' \cup {None}]
      /\ job' \in [Thread -> Jobs' \cup {None}]
  BY <1>2, <1>7 DEF IInv, RunInv, RunTyped, Places
<1>10. Execution(t)'
  BY <1>2, <1>3, <1>7 DEF IInv, RunInv, RunTyped, Execution
<1>11. ASSUME NEW u \in Thread, u # t PROVE Execution(u)'
  BY <1>2, <1>3, <1>5, <1>6, <1>11, ExecutionStays DEF IInv, RunInv, RunTyped
<1>12. PagesInv'
  BY <1>2, <1>6, PagesStay DEF IInv, RunInv
<1>13. EndIsReconciled' /\ ResultIsEnd' /\ DecidedAsSeen'
  BY <1>2, <1>3, <1>5, EndStays DEF IInv, ResultIsEnd, DecidedAsSeen
<1>14. QED
  BY <1>4, <1>5, <1>8, <1>9, <1>10, <1>11, <1>12, <1>13 DEF IInv, RunInv

\* A step of one thread that leaves the artifacts, the pages and the versions
\* in memory alone keeps the invariant when it keeps that of the engines, of
\* the table and of its own execution.
LEMMA StepKeeps ==
  ASSUME IInv, NEW t \in Thread,
         UNCHANGED <<workflow, plan, calls, artifacts, decided, memory, pages, status, output>>,
         PgInv', OwnerInv', EnginesStay, table \subseteq table',
         \A v \in table' : v \in table \/ Settled(v, 0),
         \A u \in Thread : u # t =>
           /\ UNCHANGED <<at[u], todo[u], job[u], asked[u]>>
           /\ txn'[u] = "none" <=> txn[u] = "none"
           /\ step[u] = "prepared" => UNCHANGED <<step[u], handle[u]>>,
         at' = [u \in Thread |-> at'[u]],
         at'[t] \in Places,
         todo' = [u \in Thread |-> todo'[u]], todo'[t] \in Outcomes \cup {None},
         UNCHANGED job,
         Execution(t)'
  PROVE  IInv'
<1>1. VersionsStay
  BY DEF VersionsStay
<1>2. MemoryInv'
  BY DEF IInv, MemoryInv, Linear, Collides, Row, Save
<1>3. Jobs' = Jobs /\ Outcomes' = Outcomes
  BY DEF Jobs, Actions, Outcomes, Save
<1>4. \A u \in Thread : Execution(u)'
  <2>1. ASSUME NEW u \in Thread, u # t PROVE Execution(u)'
    BY <1>1, <2>1, ExecutionStays
  <2>2. QED BY <2>1
<1>5. RunTyped' /\ todo' \in [Thread -> Outcomes' \cup {None}]
      /\ job' \in [Thread -> Jobs' \cup {None}]
  <2>1. at' \in [Thread -> Places]
    BY DEF IInv, RunInv, RunTyped
  <2>2. todo' \in [Thread -> Outcomes \cup {None}]
    BY DEF IInv, RunInv
  <2>3. QED BY <1>3, <2>1, <2>2 DEF IInv, RunInv, RunTyped
<1>6. PagesInv'
  BY <1>1, PagesStay DEF IInv, RunInv
<1>7. EndIsReconciled' /\ ResultIsEnd'
  BY <1>1, EndStays, ResultStays
<1>8. DecidedAsSeen'
  BY DEF IInv, DecidedAsSeen
<1>9. QED
  BY <1>2, <1>4, <1>5, <1>6, <1>7, <1>8 DEF IInv, RunInv

\* Where the threads are when one goes on.
LEMMA Entering ==
  ASSUME IInv, NEW t \in Thread, NEW s, Enters(t, s)
  PROVE  /\ at'[t] = s /\ at' = [u \in Thread |-> at'[u]]
         /\ \A u \in Thread : u # t => at'[u] = at[u]
  BY DEF IInv, RunInv, RunTyped, Enters

LEMMA AfterIs ==
  ASSUME IInv, NEW t \in Thread, NEW outcome, NEW stage
  PROVE  /\ After(outcome, stage) \in {"put", "save", "finish", "fail"}
         /\ After(outcome, stage) = "put" => outcome.put # None
         /\ After(outcome, stage) = "save" => outcome.save # None
         /\ After(outcome, stage) = "finish" =>
              outcome.save = None \/ stage = "save"
         /\ stage = "invoke" /\ After(outcome, stage) \in {"save", "finish"} => outcome.put = None
         /\ stage = "save" => After(outcome, stage) \in {"finish", "fail"}
         /\ stage # "invoke" => After(outcome, stage) # "put"
  BY DEF After

LEMMA NothingElse == ASSUME UNCHANGED owner
                     PROVE  EnginesStay /\ UNCHANGED <<built, step, handle>>
  BY DEF owner, EnginesStay

\* The thread is in the owner, and what it is to execute waits.
LEMMA OwnerKeeps ==
  ASSUME IInv, NEW t \in Thread, Owner(OwnerStep(t))
  PROVE  IInv' /\ StreamStep
<1>1. /\ OwnerStep(t) /\ UNCHANGED <<at, todo, job, calls, artifacts, decided, memory>>
      /\ UNCHANGED <<pg, workflow, plan, status, output, pages>>
  BY DEF Owner, run, stores, execution, bounds
<1>2. /\ OwnerInv' /\ EnginesStay /\ step[t] # "prepared"
      /\ \A u \in Thread : u # t => UNCHANGED <<handle[u], step[u]>>
  BY <1>1, OwnerStepKeeps DEF IInv, EnginesStay
<1>3. UNCHANGED <<table, txn, asked>> /\ PgInv' /\ StreamStep
  BY <1>1, PgStays DEF IInv, pg
<1>4. Execution(t)'
  <2>1. at[t] \in {"idle", "prepare", "fail"}
    BY <1>2 DEF IInv, RunInv, RunTyped, Execution, Places
  <2>2. Jobs' = Jobs
    BY <1>1 DEF Jobs, Actions
  <2>3. QED BY <1>1, <1>3, <2>1, <2>2 DEF IInv, RunInv, Execution
<1>5. /\ at' = [u \in Thread |-> at'[u]] /\ todo' = [u \in Thread |-> todo'[u]]
      /\ todo'[t] \in Outcomes \cup {None}
      /\ at'[t] \in Places
  BY <1>1 DEF IInv, RunInv, RunTyped
<1>6. IInv'
  BY <1>1, <1>2, <1>3, <1>4, <1>5, StepKeeps
<1>7. QED BY <1>3, <1>6

LEMMA PreparedKeeps ==
  ASSUME IInv, NEW t \in Thread, Prepared(t)
  PROVE  IInv' /\ StreamStep
<1>1. /\ UNCHANGED <<todo, job, calls, artifacts, decided, memory>>
      /\ UNCHANGED <<pg, owner, workflow, plan, status, output, pages>>
      /\ at[t] = "prepare"
  BY DEF Prepared, run, stores, bounds
<1>2. OwnerInv' /\ EnginesStay /\ UNCHANGED <<handle, step>>
  BY <1>1, OwnerStays, NothingElse DEF IInv
<1>3. UNCHANGED <<table, txn, asked>> /\ PgInv' /\ StreamStep
  BY <1>1, PgStays DEF IInv, pg
<1>4. PICK s \in {"invoke", "fail"} : Enters(t, s) /\ (s = "invoke" => step[t] = "prepared")
  BY DEF Prepared
<1>5. /\ at'[t] = s /\ at' = [u \in Thread |-> at'[u]]
      /\ \A u \in Thread : u # t => at'[u] = at[u]
  BY <1>4, Entering
<1>6. Execution(t)'
  <2>1. Jobs' = Jobs
    BY <1>1 DEF Jobs, Actions
  <2>2. QED BY <1>1, <1>2, <1>3, <1>4, <1>5, <2>1 DEF IInv, RunInv, Execution
<1>7. todo' = [u \in Thread |-> todo'[u]] /\ todo'[t] \in Outcomes \cup {None}
  BY <1>1 DEF IInv, RunInv
<1>8. IInv'
  BY <1>1, <1>2, <1>3, <1>5, <1>6, <1>7, StepKeeps DEF Places
<1>9. QED BY <1>3, <1>8

\* The outcome that is worked off has been computed: from nothing, ...
LEMMA ExecuteKeeps ==
  ASSUME IInv, NEW t \in Thread, Execute(t)
  PROVE  IInv' /\ StreamStep
<1> DEFINE outcome == Computed(t, None)
<1>1. /\ UNCHANGED <<job, calls, artifacts, decided, memory>>
      /\ UNCHANGED <<pg, owner, workflow, plan, status, output, pages>>
      /\ at[t] = "invoke" /\ job[t].op = "execute"
      /\ todo' = [todo EXCEPT ![t] = outcome]
  BY DEF Execute, run, stores, bounds
<1>2. /\ OwnerInv' /\ EnginesStay /\ UNCHANGED <<handle, step>>
  BY <1>1, OwnerStays, NothingElse DEF IInv
<1>3. UNCHANGED <<table, txn, asked>> /\ PgInv' /\ StreamStep
  BY <1>1, PgStays DEF IInv, pg
<1>4. /\ todo'[t] = outcome /\ todo' = [u \in Thread |-> todo'[u]]
      /\ \A u \in Thread : u # t => todo'[u] = todo[u]
  BY <1>1 DEF IInv, RunInv
<1>5. job[t] \in Jobs /\ step[t] = "prepared" /\ txn[t] = "none"
  BY <1>1 DEF IInv, RunInv, Execution
<1>6. Consistent(outcome) /\ (workflow = "approval" => outcome.put = None)
  <2>1. CASE workflow = "saga"
    BY <1>1, <2>1, SagaIsConsistent DEF Computed, IInv, RunInv
  <2>2. CASE workflow = "approval"
    <3>1. job[t].call \in Nat
      BY <1>5 DEF Jobs
    <3>2. QED BY <1>1, <2>2, <3>1, ApprovalIsConsistent DEF Computed
  <2>3. QED BY <2>1, <2>2 DEF IInv, RunInv, RunTyped
<1>7. /\ at'[t] = After(outcome, "invoke") /\ at' = [u \in Thread |-> at'[u]]
      /\ \A u \in Thread : u # t => at'[u] = at[u]
  BY <1>4, Entering DEF Execute
<1>8. Execution(t)'
  <2>1. Jobs' = Jobs
    BY <1>1 DEF Jobs, Actions
  <2>2. Consistent(todo[t])'
    BY <1>1, <1>4, <1>6 DEF Consistent, Outcomes, Save
  <2>3. Answers(t)'
    BY <1>1, <1>4, <1>6 DEF Answers
  <2>4. /\ at'[t] \in {"put", "save", "finish", "fail"}
        /\ at'[t] = "put" => outcome.put # None
        /\ at'[t] = "save" => outcome.save # None
        /\ at'[t] \in {"save", "finish"} => outcome.put = None
        /\ at'[t] = "finish" => outcome.save = None
    BY <1>6, <1>7, AfterIs
  <2>5. QED BY <1>1, <1>2, <1>3, <1>4, <1>5, <2>1, <2>2, <2>3, <2>4 DEF Execution
<1>9. /\ todo'[t] \in Outcomes
      /\ at'[t] \in {"put", "save", "finish", "fail"}
  BY <1>4, <1>6, <1>7, AfterIs DEF Consistent
<1>10. IInv'
  BY <1>1, <1>2, <1>3, <1>4, <1>7, <1>8, <1>9, StepKeeps DEF Places
<1>11. QED BY <1>3, <1>10

\* The versions of a prepared execution are those of one stream.
LEMMA VersionsAreRows ==
  ASSUME IInv, NEW t \in Thread, step[t] = "prepared"
  PROVE  /\ Versions(t) = VersionsIn(StoreOf(t)) /\ StoreOf(t) \in 0..MaxEngines
         /\ Versions(t) \subseteq Row /\ Linear(Versions(t))
         /\ Postgres(t) => Versions(t) = table /\ StoreOf(t) = 0
         /\ ~Postgres(t) => /\ handle[t].engine \in 1..MaxEngines
                            /\ StoreOf(t) = handle[t].engine
         /\ {Newest(Versions(t))} \ {None} \subseteq Versions(t)
<1>1. handle[t].engine \in DOMAIN built /\ built \in Seq(Config) /\ Len(built) <= MaxEngines
  BY DEF IInv, OwnerInv, OwnerTyped, Handle
<1>2. handle[t].engine \in 1..MaxEngines /\ MaxEngines \in Nat
  BY <1>1, ConfigAssumption
<1>3. Versions(t) = VersionsIn(StoreOf(t)) /\ StoreOf(t) \in 0..MaxEngines
  BY <1>2 DEF StoreOf, CheckpointsOf, Versions, VersionsIn
<1>4. Versions(t) \subseteq Row /\ Linear(Versions(t))
  BY <1>2 DEF Versions, VersionsIn, StoreOf, CheckpointsOf, IInv, PgInv, TableInv, MemoryInv
<1>5. {Newest(Versions(t))} \ {None} \subseteq Versions(t)
  <2>1. CASE Versions(t) = {}
    BY <2>1 DEF Newest
  <2>2. CASE Versions(t) # {}
    BY <1>4, <2>2, NewestIsThere
  <2>3. QED BY <2>1, <2>2
<1>6. QED BY <1>2, <1>3, <1>4, <1>5 DEF Versions, VersionsIn, StoreOf, CheckpointsOf, Postgres

\* A read leaves everything but what was returned as it is.
LEMMA ReadsKeep ==
  ASSUME IInv, UNCHANGED workflow, NEW t \in Thread, NEW rows \in SUBSET Versions(t),
         step[t] = "prepared", Reads(t, rows)
  PROVE  PgInv' /\ StreamStep /\ UNCHANGED <<table, txn, asked>>
<1>1. CASE Postgres(t)
  <2>1. Loads(rows) /\ rows \in SUBSET table
    BY <1>1, VersionsAreRows DEF Reads
  <2>2. QED BY <2>1, LoadsKeep DEF IInv, Loads
<1>2. CASE ~Postgres(t)
  BY <1>2, PgStays DEF Reads, IInv, pg
<1>3. QED BY <1>1, <1>2

\* ... or from the version the page shows, or the latest one.
LEMMA LoadedIsConsistent ==
  ASSUME IInv, NEW t \in Thread, at[t] = "invoke", job[t].op = "resume",
         NEW version \in Wanted(t)
  PROVE  LET outcome == Computed(t, version)
         IN  /\ outcome = None \/ Consistent(outcome)
             /\ workflow = "approval" /\ outcome.put # None
                  /\ job[t].page.store = StoreOf(t) =>
                    outcome.put.proposal = job[t].page.proposal
<1>1. job[t] \in Jobs /\ step[t] = "prepared"
  BY DEF IInv, RunInv, Execution
<1>2. job[t].call \in Nat /\ job[t].page \in pages /\ job[t].action \in Actions
  BY <1>1 DEF Jobs
<1>3. version \in Versions(t) /\ version \in Row
  BY <1>1, VersionsAreRows DEF Wanted, WithId
<1>4. CASE workflow = "saga"
  <2>1. Computed(t, version) = SagaResume(version, job[t].action)
    BY <1>4 DEF Computed
  <2>2. QED BY <1>2, <1>3, <1>4, <2>1, SagaIsConsistent DEF IInv, RunInv
<1>5. CASE workflow = "approval"
  <2>1. Computed(t, version) = ApprovalResume(version, job[t].action, job[t].call)
    BY <1>5 DEF Computed
  <2>2. /\ Consistent(Computed(t, version))
        /\ Computed(t, version).put # None =>
             Computed(t, version).put.proposal = version.req.body.proposal
    BY <1>2, <1>3, <1>5, <2>1, ApprovalIsConsistent
  <2>3. ASSUME job[t].page.store = StoreOf(t)
        PROVE  version.req.body.proposal = job[t].page.proposal
    <3>1. PICK v \in VersionsIn(StoreOf(t)) :
            v.req.id = job[t].page.id /\ v.req.body.proposal = job[t].page.proposal
      BY <1>2, <1>5, <2>3 DEF IInv, RunInv, PagesInv
    <3>2. version.req.id = job[t].page.id
      BY <1>5 DEF Wanted, WithId
    <3>3. Linear(Versions(t)) /\ v \in Versions(t)
      BY <1>1, <3>1, VersionsAreRows
    <3>4. v = version
      BY <1>3, <3>1, <3>2, <3>3 DEF Linear, Collides
    <3>5. QED BY <3>1, <3>4
  <2>4. QED BY <2>2, <2>3
<1>6. QED BY <1>4, <1>5 DEF IInv, RunInv, RunTyped

LEMMA LoadKeeps ==
  ASSUME IInv, NEW t \in Thread, Load(t)
  PROVE  IInv' /\ StreamStep
<1>1. /\ UNCHANGED <<job, calls, artifacts, decided, memory>>
      /\ UNCHANGED <<owner, workflow, plan, status, output, pages>>
      /\ at[t] = "invoke" /\ job[t].op = "resume"
  BY DEF Load, run, stores, bounds
<1>2. /\ OwnerInv' /\ EnginesStay /\ UNCHANGED <<handle, step, built>>
  BY <1>1, OwnerStays, NothingElse DEF IInv
<1>3. job[t] \in Jobs /\ step[t] = "prepared" /\ txn[t] = "none" /\ todo[t] = None
  BY <1>1 DEF IInv, RunInv, Execution
<1>4. PgInv' /\ StreamStep /\ UNCHANGED <<table, txn, asked>>
  <2>1. Wanted(t) \in SUBSET Versions(t)
    BY <1>3, VersionsAreRows DEF Wanted, WithId
  <2>2. QED BY <1>1, <1>3, <2>1, ReadsKeep DEF Load
<1>5. \/ todo' = todo
      \/ \E version \in Wanted(t) : todo' = [todo EXCEPT ![t] = Computed(t, version)]
  BY DEF Load
<1>6. /\ todo' = [u \in Thread |-> todo'[u]]
      /\ \A u \in Thread : u # t => todo'[u] = todo[u]
  BY <1>5 DEF IInv, RunInv
<1>7. /\ todo'[t] = None \/ Consistent(todo'[t])
      /\ todo'[t] # None /\ workflow = "approval" /\ todo'[t].put # None
           /\ job[t].page.store = StoreOf(t) => todo'[t].put.proposal = job[t].page.proposal
  <2>1. CASE todo' = todo
    BY <1>3, <2>1
  <2>2. CASE \E version \in Wanted(t) : todo' = [todo EXCEPT ![t] = Computed(t, version)]
    <3>1. PICK version \in Wanted(t) : todo' = [todo EXCEPT ![t] = Computed(t, version)]
      BY <2>2
    <3>2. todo'[t] = Computed(t, version)
      BY <3>1 DEF IInv, RunInv
    <3>3. QED BY <1>1, <3>2, LoadedIsConsistent
  <2>3. QED BY <1>5, <2>1, <2>2
<1>8. /\ at'[t] = After(todo'[t], "invoke") /\ at' = [u \in Thread |-> at'[u]]
      /\ \A u \in Thread : u # t => at'[u] = at[u]
  BY Entering DEF Load
<1>9. /\ at'[t] \in {"put", "save", "finish", "fail"}
      /\ at'[t] = "put" => todo'[t].put # None
      /\ at'[t] = "save" => todo'[t].save # None
      /\ at'[t] \in {"save", "finish"} => todo'[t].put = None
      /\ at'[t] = "finish" => todo'[t].save = None
      /\ at'[t] # "fail" => todo'[t] # None
  BY <1>8, AfterIs DEF After
<1>10. Execution(t)'
  <2>1. Jobs' = Jobs
    BY <1>1 DEF Jobs, Actions
  <2>2. todo'[t] # None => Consistent(todo[t])'
    BY <1>1, <1>7 DEF Consistent, Outcomes, Save
  <2>3. StoreOf(t)' = StoreOf(t)
    BY <1>2, <1>3, StoreStays DEF IInv
  <2>4. todo'[t] # None => Answers(t)'
    BY <1>1, <1>7, <2>3 DEF Answers
  <2>5. QED BY <1>1, <1>2, <1>3, <1>4, <1>9, <2>1, <2>2, <2>4 DEF Execution
<1>11. todo'[t] \in Outcomes \cup {None}
  BY <1>7 DEF Consistent
<1>12. IInv'
  BY <1>1, <1>2, <1>4, <1>6, <1>8, <1>9, <1>10, <1>11, StepKeeps DEF Places
<1>13. QED BY <1>4, <1>12

\* A thread that works off an outcome has its engine.
LEMMA AtWork ==
  ASSUME IInv, NEW t \in Thread, at[t] \in {"put", "insert", "save", "table", "finish"}
  PROVE  /\ job[t] \in Jobs /\ step[t] = "prepared"
         /\ Consistent(todo[t]) /\ Answers(t) /\ todo[t] \in Outcomes
         /\ txn[t] # "none" <=> at[t] = "table"
  BY DEF IInv, RunInv, Execution, Consistent

\* The first durable artifact stays, and the answer that decides goes with
\* the artifact.
LEMMA PutKeeps ==
  ASSUME IInv, NEW t \in Thread, Put(t) \/ PutInMemory(t)
  PROVE  IInv' /\ StreamStep
<1> DEFINE own == ArtifactsOf(handle[t].engine)
<1>1. /\ UNCHANGED <<job, todo, calls, memory>>
      /\ UNCHANGED <<pg, owner, workflow, plan, status, output, pages>>
      /\ at[t] \in {"put", "insert"}
  BY DEF Put, PutInMemory, run, bounds
<1>2. /\ OwnerInv' /\ EnginesStay /\ UNCHANGED <<handle, step, built>>
  BY <1>1, OwnerStays, NothingElse DEF IInv
<1>3. UNCHANGED <<table, txn, asked>> /\ PgInv' /\ StreamStep
  BY <1>1, PgStays DEF IInv, pg
<1>4. /\ job[t] \in Jobs /\ step[t] = "prepared" /\ txn[t] = "none"
      /\ Consistent(todo[t]) /\ Answers(t) /\ todo[t] \in Outcomes /\ todo[t].put # None
  BY <1>1, AtWork DEF IInv, RunInv, Execution
<1>5. todo[t].put \in Artifacts /\ own \in 0..MaxEngines
  BY <1>2, <1>4, StoreStays DEF Outcomes, IInv
<1>6. \/ UNCHANGED <<artifacts, decided>>
      \/ Writes(t) /\ (own # 0 \/ artifacts[0] = None)
  <2>1. at[t] = "insert" => own # 0
    BY DEF IInv, RunInv, Execution
  <2>2. QED BY <2>1 DEF Put, PutInMemory, Artifact
<1>7. /\ artifacts' \in [0..MaxEngines -> Artifacts \cup {None}]
      /\ decided' = [i \in 0..MaxEngines |-> decided'[i]]
      /\ artifacts[0] # None => artifacts'[0] = artifacts[0]
      /\ \A i \in 0..MaxEngines :
           \/ artifacts'[i] = artifacts[i] /\ decided'[i] = decided[i]
           \/ /\ artifacts'[i] = todo[t].put
              /\ workflow = "approval" =>
                   decided'[i] = [page |-> job[t].page, store |-> StoreOf(t)]
  <2>1. /\ artifacts \in [0..MaxEngines -> Artifacts \cup {None}]
        /\ decided = [i \in 0..MaxEngines |-> decided[i]]
    BY DEF IInv, RunInv, RunTyped
  <2>2. CASE UNCHANGED <<artifacts, decided>>
    BY <2>1, <2>2
  <2>3. CASE Writes(t) /\ (own # 0 \/ artifacts[0] = None)
    <3>1. artifacts' = [artifacts EXCEPT ![own] = todo[t].put]
      BY <2>3 DEF Writes
    <3>2. /\ workflow = "approval" =>
               decided' = [decided EXCEPT ![own] = [page |-> job[t].page, store |-> StoreOf(t)]]
          /\ workflow # "approval" => decided' = decided
      BY <2>3 DEF Writes
    <3>3. artifacts[0] # None => artifacts'[0] = artifacts[0]
      BY <1>5, <2>1, <2>3, <3>1
    <3>4. QED BY <1>5, <2>1, <3>1, <3>2, <3>3
  <2>4. QED BY <1>6, <2>2, <2>3
<1>8. PICK next : /\ Enters(t, next)
                  /\ \/ next = "fail"
                     \/ next = "insert" /\ own # 0
                     \/ next = After(todo[t], "put") /\ artifacts'[own] = todo[t].put
  <2>1. Writes(t) => artifacts'[own] = todo[t].put
    BY <1>5 DEF Writes, IInv, RunInv, RunTyped
  <2>2. QED BY <2>1 DEF Put, PutInMemory, Writes, Artifact
<1>9. /\ at'[t] = next /\ at' = [u \in Thread |-> at'[u]]
      /\ \A u \in Thread : u # t => at'[u] = at[u]
  BY <1>8, Entering
<1>10. /\ at'[t] \in {"insert", "save", "finish", "fail"}
       /\ at'[t] = "insert" => own # 0
       /\ at'[t] = "save" => todo[t].save # None
       /\ at'[t] = "finish" => todo[t].save = None
       /\ at'[t] \in {"save", "finish"} => artifacts'[own] = todo[t].put
  BY <1>8, <1>9, AfterIs
<1>11. VersionsStay /\ Jobs' = Jobs /\ Outcomes' = Outcomes
  BY <1>1, <1>3 DEF VersionsStay, Jobs, Actions, Outcomes, Save
<1>12. Execution(t)'
  <2>1. Consistent(todo[t])'
    BY <1>1, <1>4 DEF Consistent, Outcomes, Save
  <2>2. StoreOf(t)' = StoreOf(t) /\ ArtifactsOf(handle[t].engine)' = own
    BY <1>2, <1>4, StoreStays DEF IInv
  <2>3. Answers(t)'
    BY <1>1, <1>4, <2>2 DEF Answers
  <2>4. QED BY <1>1, <1>2, <1>3, <1>4, <1>10, <1>11, <2>1, <2>2, <2>3 DEF Execution
<1>13. ASSUME NEW u \in Thread, u # t PROVE Execution(u)'
  BY <1>1, <1>2, <1>3, <1>7, <1>9, <1>11, <1>13, ExecutionStays
<1>14. RunTyped' /\ todo' \in [Thread -> Outcomes' \cup {None}]
       /\ job' \in [Thread -> Jobs' \cup {None}]
  <2>1. at' \in [Thread -> Places]
    BY <1>9, <1>10 DEF IInv, RunInv, RunTyped, Places
  <2>2. QED BY <1>1, <1>7, <1>11, <2>1 DEF IInv, RunInv, RunTyped
<1>15. PagesInv' /\ MemoryInv'
  BY <1>1, <1>11, PagesStay DEF IInv, RunInv, MemoryInv, Linear, Collides, Row, Save
<1>16. EndIsReconciled' /\ ResultIsEnd'
  BY <1>1, <1>2, <1>3, <1>7, <1>11, EndStays, ResultStays
<1>17. DecidedAsSeen'
  <2>1. SUFFICES ASSUME workflow = "approval", NEW i \in 0..MaxEngines, artifacts'[i] # None,
                        decided'[i].page.store = decided'[i].store
                 PROVE  artifacts'[i].proposal = decided'[i].page.proposal
    BY <1>1 DEF DecidedAsSeen
  <2>2. CASE artifacts'[i] = artifacts[i] /\ decided'[i] = decided[i]
    BY <2>1, <2>2 DEF IInv, DecidedAsSeen
  <2>3. CASE /\ artifacts'[i] = todo[t].put
             /\ decided'[i] = [page |-> job[t].page, store |-> StoreOf(t)]
    BY <1>4, <2>1, <2>3 DEF Answers
  <2>4. QED BY <1>7, <2>1, <2>2, <2>3
<1>18. QED
  BY <1>2, <1>3, <1>12, <1>13, <1>14, <1>15, <1>16, <1>17 DEF IInv, RunInv

\* The approval puts its version on top of what it has found.
LEMMA LookKeeps ==
  ASSUME IInv, NEW t \in Thread, Look(t)
  PROVE  IInv' /\ StreamStep
<1>1. /\ UNCHANGED <<job, at, calls, artifacts, decided, memory>>
      /\ UNCHANGED <<owner, workflow, plan, status, output, pages>>
      /\ at[t] = "save"
      /\ todo[t].save.parent = Latest
      /\ todo' = [todo EXCEPT ![t].save.parent = LatestId(t)]
  BY DEF Look, run, stores, bounds
<1>2. /\ OwnerInv' /\ EnginesStay /\ UNCHANGED <<handle, step, built>>
  BY <1>1, OwnerStays, NothingElse DEF IInv
<1>3. /\ job[t] \in Jobs /\ step[t] = "prepared" /\ txn[t] = "none"
      /\ Consistent(todo[t]) /\ Answers(t) /\ todo[t] \in Outcomes
      /\ todo[t].save \in Save /\ todo[t].save # None
  BY <1>1, AtWork, SavedIsSettled
<1>4. PgInv' /\ StreamStep /\ UNCHANGED <<table, txn, asked>>
  <2>1. {Newest(Versions(t))} \ {None} \in SUBSET Versions(t)
    BY <1>3, VersionsAreRows
  <2>2. QED BY <1>1, <1>3, <2>1, ReadsKeep DEF Look
<1>5. LatestId(t) \in CheckpointId \cup {None}
  <2>1. CASE Newest(Versions(t)) = None
    BY <2>1 DEF LatestId
  <2>2. CASE Newest(Versions(t)) # None
    <3>1. Newest(Versions(t)) \in Row
      BY <1>3, <2>2, VersionsAreRows
    <3>2. QED BY <2>2, <3>1 DEF LatestId, Row, Save
  <2>3. QED BY <2>1, <2>2
<1>6. /\ todo' = [u \in Thread |-> todo'[u]]
      /\ \A u \in Thread : u # t => todo'[u] = todo[u]
      /\ todo'[t] = [todo[t] EXCEPT !.save.parent = LatestId(t)]
  BY <1>1 DEF IInv, RunInv
<1>7. /\ todo'[t].status = todo[t].status /\ todo'[t].put = todo[t].put
      /\ todo'[t].save = [todo[t].save EXCEPT !.parent = LatestId(t)]
      /\ todo'[t] = [status |-> todo[t].status, put |-> todo[t].put, save |-> todo'[t].save]
  BY <1>3, <1>6 DEF Outcomes
<1>8. /\ todo'[t].save \in Save /\ todo'[t].save.body = todo[t].save.body
      /\ todo'[t].save # None
  <2>1. workflow # "saga"
    <3>1. Latest # None /\ Latest.name # "partial"
      BY RecordAssumption DEF Latest
    <3>2. QED BY <1>1, <1>3, <3>1 DEF Save
  <2>2. todo'[t].save \in Save /\ todo'[t].save.body = todo[t].save.body
    BY <1>3, <1>5, <1>7, <2>1 DEF Save
  <2>3. QED BY <2>2, RecordAssumption DEF Save, Saves
<1>9. todo'[t] \in Outcomes
  BY <1>3, <1>7, <1>8 DEF Outcomes
<1>10. Execution(t)'
  <2>1. Jobs' = Jobs /\ Outcomes' = Outcomes
    BY <1>1 DEF Jobs, Actions, Outcomes, Save
  <2>2. Consistent(todo[t])'
    BY <1>1, <1>3, <1>7, <1>8, <1>9, <2>1 DEF Consistent
  <2>3. /\ StoreOf(t)' = StoreOf(t)
        /\ ArtifactsOf(handle[t].engine)' = ArtifactsOf(handle[t].engine)
    BY <1>2, <1>3, StoreStays DEF IInv
  <2>4. Answers(t)'
    BY <1>1, <1>3, <1>7, <2>3 DEF Answers
  <2>5. todo[t].put # None /\ ArtifactsOf(handle[t].engine) = 0 => artifacts[0] = todo[t].put
    BY <1>1 DEF IInv, RunInv, Execution
  <2>6. QED
    BY <1>1, <1>2, <1>3, <1>4, <1>7, <1>8, <2>1, <2>2, <2>3, <2>4, <2>5 DEF Execution
<1>11. at' = [u \in Thread |-> at'[u]]
  BY <1>1 DEF IInv, RunInv, RunTyped
<1>12. IInv'
  BY <1>1, <1>2, <1>4, <1>6, <1>9, <1>10, <1>11, StepKeeps DEF Places
<1>13. QED BY <1>4, <1>12

\* The memory store appends in one step, or finds the version already there.
LEMMA SaveInMemoryKeeps ==
  ASSUME IInv, NEW t \in Thread, SaveInMemory(t)
  PROVE  IInv' /\ StreamStep
<1> DEFINE request == todo[t].save
           e == handle[t].engine
           row == [req |-> request,
                   rev |-> IF Newest(memory[e]) = None THEN 1 ELSE Newest(memory[e]).rev + 1]
<1>1. /\ UNCHANGED <<job, todo, calls, artifacts, decided>>
      /\ UNCHANGED <<pg, owner, workflow, plan, status, output, pages>>
      /\ at[t] = "save" /\ ~Postgres(t)
  BY DEF SaveInMemory, run, bounds
<1>2. /\ OwnerInv' /\ EnginesStay /\ UNCHANGED <<handle, step, built>>
  BY <1>1, OwnerStays, NothingElse DEF IInv
<1>3. UNCHANGED <<table, txn, asked>> /\ PgInv' /\ StreamStep
  BY <1>1, PgStays DEF IInv, pg
<1>4. /\ job[t] \in Jobs /\ step[t] = "prepared" /\ txn[t] = "none"
      /\ Consistent(todo[t]) /\ Answers(t) /\ request \in Save /\ request # None
      /\ \A v : v.req = request => Settled(v, StoreOf(t))
  BY <1>1, AtWork, SavedIsSettled
<1>5. e \in 1..MaxEngines /\ StoreOf(t) = e /\ e # 0
  BY <1>1, <1>4, VersionsAreRows
<1>6. memory[e] \subseteq Row /\ Linear(memory[e])
  BY <1>5 DEF IInv, MemoryInv
<1>7. \/ /\ WithId(memory[e], request.id) = {} /\ request.parent = IdOf(Newest(memory[e]))
         /\ memory' = [memory EXCEPT ![e] = @ \cup {row}]
      \/ memory' = memory
  <2>1. LatestId(t) = IdOf(Newest(memory[e]))
    BY <1>5 DEF LatestId, Versions, VersionsIn, IdOf
  <2>2. QED BY <2>1 DEF SaveInMemory
<1>8. Row' = Row /\ Jobs' = Jobs /\ Outcomes' = Outcomes
  BY <1>1 DEF Jobs, Actions, Outcomes, Row, Save
<1>9. /\ MemoryInv' /\ VersionsStay
      /\ \A f \in 1..MaxEngines : \A v \in memory'[f] : v \in memory[f] \/ v.req = request
  <2>1. CASE memory' = memory
    <3>1. MemoryInv'
      BY <1>1, <1>8, <2>1 DEF IInv, MemoryInv, Linear, Collides
    <3>2. QED BY <1>3, <2>1, <3>1 DEF VersionsStay
  <2>2. CASE /\ WithId(memory[e], request.id) = {} /\ request.parent = IdOf(Newest(memory[e]))
             /\ memory' = [memory EXCEPT ![e] = @ \cup {row}]
    <3>1. \A v \in memory[e] : v.req.id # request.id
      BY <2>2 DEF WithId
    <3>2. row \in Row /\ Linear(memory[e] \cup {row})
      BY <1>4, <1>6, <2>2, <3>1, AppendKeeps
    <3>3. /\ memory'[e] = memory[e] \cup {row}
          /\ \A f \in 1..MaxEngines : f # e => memory'[f] = memory[f]
          /\ memory' \in [1..MaxEngines -> SUBSET Row]
      BY <1>5, <2>2, <3>2 DEF IInv, MemoryInv
    <3>4. \A f \in 1..MaxEngines : Linear(memory'[f])
      BY <3>2, <3>3 DEF IInv, MemoryInv
    <3>5. MemoryInv'
      BY <1>1, <1>8, <3>3, <3>4 DEF MemoryInv, Linear, Collides
    <3>6. VersionsStay
      BY <1>3, <3>3 DEF VersionsStay
    <3>7. row.req = request
      OBVIOUS
    <3>8. QED BY <3>3, <3>5, <3>6, <3>7
  <2>3. QED BY <1>7, <2>1, <2>2
<1>10. PICK s : /\ Enters(t, s)
                /\ \/ s = "fail"
                   \/ s = After(todo[t], "save") /\ \E v \in memory'[e] : v.req = request
  <2>1. ASSUME WithId(memory[e], request.id) = {}, request.parent = LatestId(t)
        PROVE  \E v \in memory'[e] : v.req = request
    <3>1. memory' = [memory EXCEPT ![e] = @ \cup {row}]
      BY <2>1 DEF SaveInMemory
    <3>2. row \in memory'[e]
      BY <1>5, <3>1 DEF IInv, MemoryInv
    <3>3. QED BY <3>2
  <2>2. ASSUME \E v \in WithId(memory[e], request.id) : v.req = request
        PROVE  \E v \in memory'[e] : v.req = request
    BY <1>5, <1>9, <2>2 DEF WithId, VersionsStay
  <2>3. QED BY <2>1, <2>2 DEF SaveInMemory
<1>11. /\ at'[t] = s /\ at' = [u \in Thread |-> at'[u]]
       /\ \A u \in Thread : u # t => at'[u] = at[u]
  BY <1>10, Entering
<1>12. /\ at'[t] \in {"finish", "fail"}
       /\ at'[t] = "finish" => \E v \in memory'[e] : v.req = request
  BY <1>10, <1>11, AfterIs
<1>13. Execution(t)'
  <2>1. Consistent(todo[t])'
    BY <1>1, <1>4, <1>8 DEF Consistent
  <2>2. /\ StoreOf(t)' = StoreOf(t)
        /\ ArtifactsOf(handle[t].engine)' = ArtifactsOf(handle[t].engine)
    BY <1>2, <1>4, StoreStays DEF IInv
  <2>3. Answers(t)'
    BY <1>1, <1>4, <2>2 DEF Answers
  <2>4. VersionsIn(StoreOf(t))' = memory'[e]
    BY <1>5, <2>2 DEF VersionsIn
  <2>5. todo[t].put # None /\ ArtifactsOf(handle[t].engine) = 0 => artifacts[0] = todo[t].put
    BY <1>1 DEF IInv, RunInv, Execution
  <2>6. QED
    BY <1>1, <1>2, <1>3, <1>4, <1>8, <1>12, <2>1, <2>2, <2>3, <2>4, <2>5 DEF Execution
<1>14. ASSUME NEW u \in Thread, u # t PROVE Execution(u)'
  BY <1>1, <1>2, <1>3, <1>9, <1>11, <1>14, ExecutionStays
<1>15. RunTyped' /\ todo' \in [Thread -> Outcomes' \cup {None}]
       /\ job' \in [Thread -> Jobs' \cup {None}]
  BY <1>1, <1>8, <1>11, <1>12 DEF IInv, RunInv, RunTyped, Places
<1>16. PagesInv'
  BY <1>1, <1>9, PagesStay DEF IInv, RunInv
<1>17. EndIsReconciled' /\ ResultIsEnd'
  <2>1. \A f \in 1..MaxEngines : \A v \in memory'[f] : v \in memory[f] \/ Settled(v, f)
    <3>1. \A f \in 1..MaxEngines : f # e => memory'[f] = memory[f]
      BY <1>7 DEF IInv, MemoryInv
    <3>2. QED BY <1>4, <1>5, <1>9, <3>1
  <2>2. QED BY <1>1, <1>2, <1>3, <1>9, <2>1, EndStays, ResultStays
<1>18. DecidedAsSeen'
  BY <1>1 DEF IInv, DecidedAsSeen
<1>19. QED
  BY <1>2, <1>3, <1>9, <1>13, <1>14, <1>15, <1>16, <1>17, <1>18 DEF IInv, RunInv

\* A save in the table is a transaction ...
LEMMA SaveInTableKeeps ==
  ASSUME IInv, NEW t \in Thread, SaveInTable(t)
  PROVE  IInv' /\ StreamStep
<1>1. /\ UNCHANGED <<job, todo, calls, artifacts, decided, memory>>
      /\ UNCHANGED <<owner, workflow, plan, status, output, pages>>
      /\ at[t] = "save" /\ Postgres(t) /\ BeginSave(t, todo[t].save) /\ Enters(t, "table")
  BY DEF SaveInTable, run, stores, bounds
<1>2. /\ OwnerInv' /\ EnginesStay /\ UNCHANGED <<handle, step, built>>
  BY <1>1, OwnerStays, NothingElse DEF IInv
<1>3. /\ job[t] \in Jobs /\ step[t] = "prepared"
      /\ Consistent(todo[t]) /\ Answers(t) /\ todo[t] \in Outcomes
      /\ todo[t].save \in Save /\ todo[t].save # None
  BY <1>1, AtWork, SavedIsSettled
<1>4. PgInv' /\ StreamStep
  BY <1>1, <1>3, BeginSaveKeeps DEF IInv
<1>5. /\ table' = table /\ txn'[t] = "identity" /\ asked'[t] = todo[t].save
      /\ \A u \in Thread : u # t => UNCHANGED <<txn[u], asked[u]>>
  BY <1>1 DEF BeginSave, IInv, PgInv, TableInv
<1>6. /\ at'[t] = "table" /\ at' = [u \in Thread |-> at'[u]]
      /\ \A u \in Thread : u # t => at'[u] = at[u]
  BY <1>1, Entering
<1>7. Execution(t)'
  <2>1. Jobs' = Jobs /\ Outcomes' = Outcomes
    BY <1>1 DEF Jobs, Actions, Outcomes, Save
  <2>2. Consistent(todo[t])'
    BY <1>1, <1>3, <2>1 DEF Consistent
  <2>3. /\ StoreOf(t)' = StoreOf(t) /\ Postgres(t)'
        /\ ArtifactsOf(handle[t].engine)' = ArtifactsOf(handle[t].engine)
    BY <1>1, <1>2, <1>3, StoreStays DEF IInv
  <2>4. Answers(t)'
    BY <1>1, <1>3, <2>3 DEF Answers
  <2>5. todo[t].put # None /\ ArtifactsOf(handle[t].engine) = 0 => artifacts[0] = todo[t].put
    BY <1>1 DEF IInv, RunInv, Execution
  <2>6. QED
    BY <1>1, <1>2, <1>3, <1>5, <1>6, <2>1, <2>2, <2>3, <2>4, <2>5 DEF Execution
<1>8. todo' = [u \in Thread |-> todo'[u]]
  BY <1>1 DEF IInv, RunInv
<1>9. IInv'
  BY <1>1, <1>2, <1>3, <1>4, <1>5, <1>6, <1>7, <1>8, StepKeeps DEF Places
<1>10. QED BY <1>4, <1>9

\* ... of several statements, whose connection may be lost, ...
LEMMA TableKeeps ==
  ASSUME IInv, NEW t \in Thread, Table(t) \/ LoseConnection(t)
  PROVE  IInv' /\ StreamStep
<1>1. /\ UNCHANGED <<job, todo, at, calls, artifacts, decided, memory>>
      /\ UNCHANGED <<owner, workflow, plan, status, output, pages>>
      /\ PgStep(t) \/ Disconnect(t)
  BY DEF Table, LoseConnection, run, stores, execution, bounds
<1>2. /\ OwnerInv' /\ EnginesStay /\ UNCHANGED <<handle, step, built>>
  BY <1>1, OwnerStays, NothingElse DEF IInv
<1>3. PgInv' /\ StreamStep /\ table \subseteq table'
  BY <1>1, PgStepKeeps, DisconnectKeeps DEF IInv
<1>4. \A v \in table' : v \in table \/ Settled(v, 0)
  BY <1>1, TableGrows
<1>5. /\ asked' = asked /\ txn[t] # "none" /\ txn'[t] # "none"
      /\ \A u \in Thread : u # t => txn'[u] = txn[u]
  BY <1>1 DEF PgStep, Identify, FindHead, LockHead, Insert, Commit, Disconnect, To,
              IInv, PgInv, TableInv
<1>6. Execution(t)'
  <2>1. VersionsStay
    BY <1>1, <1>3 DEF VersionsStay
  <2>2. QED BY <1>1, <1>2, <1>5, <2>1, ExecutionStays
<1>7. /\ todo' = [u \in Thread |-> todo'[u]] /\ todo'[t] \in Outcomes \cup {None}
      /\ at' = [u \in Thread |-> at'[u]]
      /\ at'[t] \in Places
  BY <1>1 DEF IInv, RunInv, RunTyped
<1>8. IInv'
  BY <1>1, <1>2, <1>3, <1>4, <1>5, <1>6, <1>7, StepKeeps
<1>9. QED BY <1>3, <1>8

\* ... and whose version is there when it has succeeded.
LEMMA SavedKeeps ==
  ASSUME IInv, NEW t \in Thread, Saved(t)
  PROVE  IInv' /\ StreamStep
<1>1. /\ UNCHANGED <<job, todo, calls, artifacts, decided, memory>>
      /\ UNCHANGED <<owner, workflow, plan, status, output, pages>>
      /\ at[t] = "table" /\ EndSave(t)
  BY DEF Saved, run, stores, bounds
<1>2. /\ OwnerInv' /\ EnginesStay /\ UNCHANGED <<handle, step, built>>
  BY <1>1, OwnerStays, NothingElse DEF IInv
<1>3. /\ job[t] \in Jobs /\ step[t] = "prepared"
      /\ Consistent(todo[t]) /\ Answers(t) /\ todo[t] \in Outcomes
      /\ Postgres(t) /\ asked[t] = todo[t].save
  BY <1>1, AtWork DEF IInv, RunInv, Execution
<1>4. PgInv' /\ StreamStep
  BY <1>1, EndSaveKeeps DEF IInv
<1>5. /\ table' = table /\ txn'[t] = "none"
      /\ \A u \in Thread : u # t => UNCHANGED <<txn[u], asked[u]>>
  BY <1>1 DEF EndSave, IInv, PgInv, TableInv
<1>6. PICK s : /\ Enters(t, s)
               /\ \/ s = "fail"
                  \/ s = After(todo[t], "save") /\ \E v \in table : v.req = todo[t].save
  <2>1. txn[t] = "saved" => \E v \in table : v.req = todo[t].save
    BY <1>3 DEF IInv, PgInv, Transaction
  <2>2. QED BY <2>1 DEF Saved
<1>7. /\ at'[t] = s /\ at' = [u \in Thread |-> at'[u]]
      /\ \A u \in Thread : u # t => at'[u] = at[u]
  BY <1>6, Entering
<1>8. /\ at'[t] \in {"finish", "fail"}
      /\ at'[t] = "finish" => \E v \in table : v.req = todo[t].save
  BY <1>6, <1>7, AfterIs
<1>9. Execution(t)'
  <2>1. Jobs' = Jobs /\ Outcomes' = Outcomes
    BY <1>1 DEF Jobs, Actions, Outcomes, Save
  <2>2. Consistent(todo[t])'
    BY <1>1, <1>3, <2>1 DEF Consistent
  <2>3. /\ StoreOf(t)' = StoreOf(t) /\ StoreOf(t) = 0
        /\ ArtifactsOf(handle[t].engine)' = ArtifactsOf(handle[t].engine)
    BY <1>2, <1>3, StoreStays, VersionsAreRows DEF IInv
  <2>4. Answers(t)'
    BY <1>1, <1>3, <2>3 DEF Answers
  <2>5. VersionsIn(StoreOf(t))' = table
    BY <1>5, <2>3 DEF VersionsIn
  <2>6. todo[t].put # None /\ ArtifactsOf(handle[t].engine) = 0 => artifacts[0] = todo[t].put
    BY <1>1 DEF IInv, RunInv, Execution
  <2>7. QED
    BY <1>1, <1>2, <1>3, <1>5, <1>8, <2>1, <2>2, <2>3, <2>4, <2>5, <2>6 DEF Execution
<1>10. todo' = [u \in Thread |-> todo'[u]]
  BY <1>1 DEF IInv, RunInv
<1>11. IInv'
  BY <1>1, <1>2, <1>3, <1>4, <1>5, <1>7, <1>8, <1>9, <1>10, StepKeeps DEF Places
<1>12. QED BY <1>4, <1>11

\* The result is written with what the execution has done.
LEMMA FinishKeeps ==
  ASSUME IInv, NEW t \in Thread, Finish(t)
  PROVE  IInv' /\ StreamStep
<1>1. /\ UNCHANGED <<calls, artifacts, decided, memory>>
      /\ UNCHANGED <<pg, owner, workflow, plan>>
      /\ at[t] \in {"finish", "fail"} /\ Enters(t, "idle")
      /\ job' = [job EXCEPT ![t] = None] /\ todo' = [todo EXCEPT ![t] = None]
      /\ status' = IF at[t] = "fail" THEN "failed" ELSE todo[t].status
      /\ output' = IF at[t] = "fail" THEN None ELSE Shown(t)
      /\ pages' = IF status' = "waiting" THEN pages \cup {output'} ELSE pages
  BY DEF Finish, stores, bounds
<1>2. /\ OwnerInv' /\ EnginesStay /\ UNCHANGED <<handle, step, built>>
  BY <1>1, OwnerStays, NothingElse DEF IInv
<1>3. UNCHANGED <<table, txn, asked>> /\ PgInv' /\ StreamStep
  BY <1>1, PgStays DEF IInv, pg
<1>4. /\ at'[t] = "idle" /\ at' = [u \in Thread |-> at'[u]]
      /\ \A u \in Thread : u # t => at'[u] = at[u]
  BY <1>1, Entering
<1>5. /\ todo'[t] = None /\ job'[t] = None
      /\ \A u \in Thread : u # t => UNCHANGED <<todo[u], job[u]>>
  BY <1>1 DEF IInv, RunInv
<1>6. /\ VersionsStay /\ Outcomes' = Outcomes /\ pages \subseteq pages'
      /\ Jobs \subseteq Jobs'
  BY <1>1, <1>3 DEF VersionsStay, Jobs, Actions, Outcomes, Save
<1>7. Execution(t)'
  <2>1. txn[t] = "none"
    BY <1>1 DEF IInv, RunInv, Execution
  <2>2. QED BY <1>3, <1>4, <1>5, <2>1 DEF Execution
<1>8. ASSUME NEW u \in Thread, u # t PROVE Execution(u)'
  BY <1>1, <1>2, <1>3, <1>4, <1>5, <1>6, <1>8, ExecutionStays
<1>9. RunTyped' /\ todo' \in [Thread -> Outcomes' \cup {None}]
      /\ job' \in [Thread -> Jobs' \cup {None}]
  <2>1. at' \in [Thread -> Places]
    BY <1>4 DEF IInv, RunInv, RunTyped, Places
  <2>2. QED BY <1>1, <1>5, <1>6, <2>1 DEF IInv, RunInv, RunTyped
<1>10. MemoryInv'
  BY <1>1 DEF IInv, MemoryInv, Linear, Collides, Row, Save
<1>11. PagesInv'
  <2>1. \A store \in 0..MaxEngines : VersionsIn(store)' = VersionsIn(store)
    BY <1>1, <1>3 DEF VersionsIn
  <2>2. CASE status' # "waiting"
    BY <1>1, <2>1, <2>2 DEF IInv, RunInv, PagesInv
  <2>3. CASE status' = "waiting"
    <3>1. at[t] = "finish" /\ todo[t].status = "waiting"
      BY <1>1, <2>3
    <3>2. todo[t].save # None /\ step[t] = "prepared"
      BY <3>1, AtWork DEF Consistent
    <3>3. PICK v \in VersionsIn(StoreOf(t)) : v.req = todo[t].save
      BY <3>1, <3>2 DEF IInv, RunInv, Execution
    <3>4. output' = IF workflow = "saga" THEN [id |-> None, proposal |-> 0, store |-> 0]
                    ELSE [id |-> todo[t].save.id, proposal |-> todo[t].save.body.proposal,
                          store |-> StoreOf(t)]
      BY <1>1, <3>1 DEF Shown
    <3>5. StoreOf(t) \in 0..MaxEngines /\ 0 \in 0..MaxEngines
      BY <3>2, ConfigAssumption, VersionsAreRows
    <3>6. /\ output'.store \in 0..MaxEngines
          /\ workflow = "approval" =>
               /\ v \in VersionsIn(output'.store)
               /\ v.req.id = output'.id /\ v.req.body.proposal = output'.proposal
      BY <3>3, <3>4, <3>5
    <3>7. pages' = pages \cup {output'}
      BY <1>1, <2>3
    <3>8. \A page \in pages' :
            /\ page.store \in 0..MaxEngines
            /\ workflow = "approval" =>
                 \E w \in VersionsIn(page.store) :
                   w.req.id = page.id /\ w.req.body.proposal = page.proposal
      BY <3>6, <3>7 DEF IInv, RunInv, PagesInv
    <3>9. QED BY <1>1, <2>1, <3>8 DEF PagesInv
  <2>4. QED BY <2>2, <2>3
<1>12. EndIsReconciled'
  BY <1>1, <1>2, <1>3, EndStays
<1>13. ResultIsEnd'
  <2>1. SUFFICES ASSUME status' = "succeeded" PROVE ResultIsEnd'
    BY DEF ResultIsEnd
  <2>2. at[t] = "finish" /\ todo[t].status = "succeeded" /\ output' = todo[t].put
    BY <1>1, <2>1 DEF Shown
  <2>3. Consistent(todo[t]) /\ todo[t].put # None /\ step[t] = "prepared"
    BY <2>2, AtWork DEF Consistent
  <2>4. handle[t].engine \in DOMAIN built /\ StoreOf(t) \in 0..MaxEngines
    BY <1>2, <2>3, StoreStays DEF IInv
  <2>5. ASSUME workflow = "saga"
        PROVE  \E store \in 0..MaxEngines : \E v \in VersionsIn(store)' :
                 Final(v)' /\ v.req.body = output'
    <3>1. /\ todo[t].save # None /\ todo[t].save.body.done # "open"
          /\ todo[t].put = todo[t].save.body
      BY <2>2, <2>3, <2>5 DEF Consistent
    <3>2. PICK store \in 0..MaxEngines : store = StoreOf(t)
      BY <2>4
    <3>3. PICK v \in VersionsIn(store) : v.req = todo[t].save
      BY <2>2, <3>1, <3>2 DEF IInv, RunInv, Execution
    <3>4. v \in VersionsIn(store)'
      BY <1>1, <1>3, <3>3 DEF VersionsIn
    <3>5. Final(v)' /\ v.req.body = output'
      BY <1>1, <2>2, <2>5, <3>1, <3>3 DEF Final
    <3>6. QED BY <3>4, <3>5
  <2>6. ASSUME (\A e \in DOMAIN built : ArtifactsOf(e) = 0)'
        PROVE  artifacts'[0] # None /\ artifacts'[0] = output'
    <3>1. ArtifactsOf(handle[t].engine) = 0
      BY <1>2, <2>4, <2>6, PremiseShrinks
    <3>2. artifacts[0] = todo[t].put
      BY <2>2, <2>3, <3>1 DEF IInv, RunInv, Execution
    <3>3. QED BY <1>1, <2>2, <2>3, <3>2
  <2>7. QED BY <1>1, <2>5, <2>6 DEF ResultIsEnd
<1>14. DecidedAsSeen'
  BY <1>1 DEF IInv, DecidedAsSeen
<1>15. QED
  BY <1>2, <1>3, <1>7, <1>8, <1>9, <1>10, <1>11, <1>12, <1>13, <1>14 DEF IInv, RunInv

-----------------------------------------------------------------------------
(* The other steps *)

\* Neither a cancellation nor a new configuration touches what executes.
LEMMA AroundKeeps ==
  ASSUME IInv, Cancel \/ Configure
  PROVE  IInv' /\ StreamStep
<1>1. /\ UNCHANGED <<pg, workflow, plan, output, pages, artifacts, decided, memory>>
      /\ UNCHANGED <<job, at, todo, calls>>
      /\ status' \in {status, "cancelled"}
  BY DEF Cancel, Configure, run, stores, execution, bounds
<1>2. OwnerInv' /\ EnginesStay /\ UNCHANGED <<handle, step>>
  <2>1. CASE Cancel
    BY <2>1, OwnerStays, NothingElse DEF Cancel, IInv
  <2>2. CASE Configure
    <3>1. CASE Swap
      BY <3>1, SwapKeeps DEF IInv, EnginesStay
    <3>2. CASE \/ \E config \in Config, force \in BOOLEAN : Reconfigure(config, force)
               \/ CandidateFails
      BY <3>2, ReconfigureKeeps DEF IInv, EnginesStay
    <3>3. QED BY <2>2, <3>1, <3>2 DEF Configure
  <2>3. QED BY <2>1, <2>2
<1>3. UNCHANGED <<table, txn, asked>> /\ PgInv' /\ StreamStep
  BY <1>1, PgStays DEF IInv, pg
<1>4. VersionsStay /\ Outcomes' = Outcomes /\ Jobs' = Jobs
  BY <1>1, <1>3 DEF VersionsStay, Jobs, Actions, Outcomes, Save
<1>5. ASSUME NEW u \in Thread PROVE Execution(u)'
  BY <1>1, <1>2, <1>3, <1>4, <1>5, ExecutionStays
<1>6. RunTyped' /\ todo' \in [Thread -> Outcomes' \cup {None}]
      /\ job' \in [Thread -> Jobs' \cup {None}]
  BY <1>1, <1>4 DEF IInv, RunInv, RunTyped
<1>7. PagesInv' /\ MemoryInv'
  BY <1>1, <1>4, PagesStay DEF IInv, RunInv, MemoryInv, Linear, Collides, Row, Save
<1>8. EndIsReconciled' /\ ResultIsEnd'
  <2>1. status' = "cancelled" => ResultIsEnd'
    BY DEF ResultIsEnd
  <2>2. QED BY <1>1, <1>2, <1>3, <1>4, <2>1, EndStays, ResultStays
<1>9. DecidedAsSeen'
  BY <1>1 DEF IInv, DecidedAsSeen
<1>10. QED BY <1>2, <1>3, <1>5, <1>6, <1>7, <1>8, <1>9 DEF IInv, RunInv

\* The process ends and starts again: the stores and the run stay.
LEMMA RestartKeeps ==
  ASSUME IInv, Restart
  PROVE  IInv' /\ StreamStep
<1>1. /\ UNCHANGED <<built, workflow, plan, status, output, pages>>
      /\ UNCHANGED <<artifacts, decided, memory, calls>>
      /\ PgRestart
      /\ job' = [t \in Thread |-> None] /\ at' = [t \in Thread |-> "idle"]
      /\ todo' = [t \in Thread |-> None]
  BY DEF Restart, run, stores
<1>2. OwnerInv'
  BY <1>1, OwnerStartsKeeps DEF Restart, IInv
<1>3. PgInv' /\ StreamStep /\ table \subseteq table'
  BY <1>1, PgRestartKeeps DEF IInv
<1>4. \A v \in table' : v \in table \/ Settled(v, 0)
  BY <1>1, TableGrows
<1>5. VersionsStay
  BY <1>1, <1>3 DEF VersionsStay
<1>6. ASSUME NEW u \in Thread PROVE Execution(u)'
  BY <1>1, <1>6 DEF PgRestart, Execution
<1>7. RunTyped' /\ todo' \in [Thread -> Outcomes' \cup {None}]
      /\ job' \in [Thread -> Jobs' \cup {None}]
  BY <1>1 DEF IInv, RunInv, RunTyped, Places
<1>8. PagesInv' /\ MemoryInv'
  BY <1>1, <1>5, PagesStay DEF IInv, RunInv, MemoryInv, Linear, Collides, Row, Save
<1>9. EndIsReconciled' /\ ResultIsEnd'
  BY <1>1, <1>4, <1>5, EndStays, ResultStays DEF EnginesStay
<1>10. DecidedAsSeen'
  BY <1>1 DEF IInv, DecidedAsSeen
<1>11. QED BY <1>2, <1>3, <1>6, <1>7, <1>8, <1>9, <1>10 DEF IInv, RunInv

LEMMA NothingKeeps == ASSUME IInv, UNCHANGED vars PROVE IInv' /\ StreamStep
<1>1. UNCHANGED <<pg, owner, workflow, plan, status, output, pages, artifacts, decided,
                  memory, job, at, todo, calls>>
  BY DEF vars, run, stores, execution, bounds
<1>2. OwnerInv' /\ EnginesStay /\ UNCHANGED <<handle, step>>
  BY <1>1, OwnerStays, NothingElse DEF IInv
<1>3. UNCHANGED <<table, txn, asked>> /\ PgInv' /\ StreamStep
  BY <1>1, PgStays DEF IInv, pg
<1>4. VersionsStay /\ Outcomes' = Outcomes /\ Jobs' = Jobs
  BY <1>1, <1>3 DEF VersionsStay, Jobs, Actions, Outcomes, Save
<1>5. ASSUME NEW u \in Thread PROVE Execution(u)'
  BY <1>1, <1>2, <1>3, <1>4, <1>5, ExecutionStays
<1>6. RunTyped' /\ todo' \in [Thread -> Outcomes' \cup {None}]
      /\ job' \in [Thread -> Jobs' \cup {None}]
  BY <1>1, <1>4 DEF IInv, RunInv, RunTyped
<1>7. PagesInv' /\ MemoryInv'
  BY <1>1, <1>4, PagesStay DEF IInv, RunInv, MemoryInv, Linear, Collides, Row, Save
<1>8. EndIsReconciled' /\ ResultIsEnd' /\ DecidedAsSeen'
  BY <1>1, <1>2, <1>3, <1>4, EndStays, ResultStays DEF IInv, DecidedAsSeen
<1>9. QED BY <1>2, <1>3, <1>5, <1>6, <1>7, <1>8 DEF IInv, RunInv

\* Every step keeps the invariant, and is one of the abstract store, or none.
LEMMA NextKeeps == IInv /\ [Next]_vars => IInv' /\ StreamStep
<1> SUFFICES ASSUME IInv, [Next]_vars PROVE IInv' /\ StreamStep
  OBVIOUS
<1>1. ASSUME NEW t \in Thread,
             \/ Start(t) \/ Resume(t) \/ Owner(OwnerStep(t)) \/ Prepared(t)
             \/ Execute(t) \/ Load(t) \/ Put(t) \/ PutInMemory(t) \/ Look(t)
      PROVE  IInv' /\ StreamStep
  BY <1>1, AcceptKeeps, OwnerKeeps, PreparedKeeps, ExecuteKeeps, LoadKeeps, PutKeeps, LookKeeps
<1>2. ASSUME NEW t \in Thread,
             \/ SaveInMemory(t) \/ SaveInTable(t) \/ Table(t) \/ Saved(t) \/ Finish(t)
             \/ LoseConnection(t)
      PROVE  IInv' /\ StreamStep
  BY <1>2, SaveInMemoryKeeps, SaveInTableKeeps, TableKeeps, SavedKeeps, FinishKeeps
<1>3. ASSUME Cancel \/ Configure \/ Restart PROVE IInv' /\ StreamStep
  BY <1>3, AroundKeeps, RestartKeeps
<1>4. ASSUME UNCHANGED vars PROVE IInv' /\ StreamStep
  BY <1>4, NothingKeeps
<1>5. QED BY <1>1, <1>2, <1>3, <1>4 DEF Next

-----------------------------------------------------------------------------
(* Theorems *)

\* The inductive invariant holds in every reachable state, for any threads,
\* operations and configurations, and any number of executions and faults.
THEOREM Invariance == Spec => []IInv
<1>1. IInv /\ [Next]_vars => IInv'
  BY NextKeeps
<1>2. QED BY <1>1, InitEstablishes, PTL DEF Spec

\* The table of PostgreSQL is a linear, append-only stream for all engines:
\* a stale head, two first saves or a lost connection add no step to
\* CheckpointStream (ImplementsStream).
THEOREM StreamRefinement == Spec => ImplementsStream
<1>1. Init => Stream!Init
  BY DEF Init, PgInit, Stream!Init, Newest
<1>2. IInv /\ [Next]_vars => StreamStep
  BY NextKeeps
<1>3. IInv /\ [Next]_vars =>
        [\/ \E t \in Thread : asked[t] # None /\ Stream!Commit(asked[t])
         \/ Stream!Return(returned')]_(Stream!vars)
  BY <1>2 DEF StreamStep
<1>4. QED BY <1>1, <1>3, Invariance, PTL DEF Spec, ImplementsStream

\* A generation is one engine, whatever threads build and reconfigure
\* (GenerationIsOneEngine).
THEOREM OneEngine == Spec => []GenerationIsOneEngine
<1>1. IInv => GenerationIsOneEngine
  BY DEF IInv, OwnerInv, Handle, GenerationIsOneEngine
<1>2. QED BY <1>1, Invariance, PTL

\* A saga ends in one way in each checkpoint store, also where its artifacts
\* are forgotten, and the run succeeds with that end only (OneOutcome).
THEOREM SagaAgrees == Spec => []OneOutcome
<1>1. IInv => OneEnd
  BY DEF IInv, PgInv, TableInv, MemoryInv, Linear, VersionsIn, Final, OneEnd
<1>2. IInv => OneOutcome
  BY <1>1 DEF IInv, OneOutcome
<1>3. QED BY <1>2, Invariance, PTL

\* A decision is about the proposal that its page has shown (DecidedAsSeen).
THEOREM DecisionIsInformed == Spec => []DecidedAsSeen
<1>1. IInv => DecidedAsSeen
  BY DEF IInv
<1>2. QED BY <1>1, Invariance, PTL
=============================================================================
