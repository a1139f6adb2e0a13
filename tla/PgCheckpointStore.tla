-------------------------- MODULE PgCheckpointStore -------------------------
(***************************************************************************)
(* PostgresCheckpointStore: one stream in a table.  save is a transaction  *)
(* under READ COMMITTED: it looks for its own identity, locks the row of   *)
(* the head, and inserts.  The first save of a stream finds no row to      *)
(* lock, and a save that has waited for the lock goes on with the head it  *)
(* had found before; both rely on the constraints of the table.            *)
(***************************************************************************)
EXTENDS Naturals, Callers

VARIABLES
  table,        \* the committed rows: [req, rev]
  txn,          \* the transaction of each thread, on a connection of its own
  asked,        \* the request it saves, or None
  head,         \* the head its second SELECT has found, or None
  inserted,     \* the row it has inserted and not committed, or None
  returned      \* history: every row that was returned to a caller

pg == <<table, txn, asked, head, inserted, returned>>

Stage == {"none", "identity", "head", "lock", "insert", "commit", "saved", "refused"}

PgInit ==
  /\ table = {}
  /\ txn = [t \in Thread |-> "none"]
  /\ asked = [t \in Thread |-> None]
  /\ head = [t \in Thread |-> None]
  /\ inserted = [t \in Thread |-> None]
  /\ returned = {}

-----------------------------------------------------------------------------
(* What a statement sees *)

Newest(rows) ==
  IF rows = {} THEN None ELSE CHOOSE v \in rows : \A w \in rows : w.rev <= v.rev

WithId(rows, id) == {v \in rows : v.req.id = id}

\* A caller holds the lock of the head from its SELECT to its end.
Holds(t, row) == txn[t] \in {"insert", "commit"} /\ head[t] = row

Free(row) == \A u \in Thread : ~Holds(u, row)

\* Mutation: revisions are counted from zero.
RowOfFromZero(t) ==
  [req |-> asked[t], rev |-> IF head[t] = None THEN 0 ELSE head[t].rev + 1]

\* The row a request becomes on top of the head the caller has found.
RowOf(t) ==
  [req |-> asked[t], rev |-> IF head[t] = None THEN 1 ELSE head[t].rev + 1]

\* PRIMARY KEY (.., checkpoint_id), UNIQUE (.., revision)
Collides(v, w) == v.req.id = w.req.id \/ v.rev = w.rev

-----------------------------------------------------------------------------
(* save *)

BeginSave(t, request) ==
  /\ txn[t] = "none"
  /\ txn' = [txn EXCEPT ![t] = "identity"]
  /\ asked' = [asked EXCEPT ![t] = request]
  /\ UNCHANGED <<table, head, inserted, returned>>

To(t, next) == txn' = [txn EXCEPT ![t] = next]

\* SELECT .. checkpoint_id = .. FOR UPDATE: an equal version is the answer of
\* a repeated save, another one a conflict.
Identify(t) ==
  LET found == WithId(table, asked[t].id) IN
  /\ txn[t] = "identity"
  /\ \A v \in found : Free(v)
  /\ To(t, IF found = {} THEN "head"
           ELSE IF \A v \in found : v.req = asked[t] THEN "saved" ELSE "refused")
  /\ UNCHANGED <<table, asked, head, inserted, returned>>

\* SELECT .. ORDER BY revision DESC LIMIT 1 FOR UPDATE: the row is found in
\* the snapshot of the statement, ...
FindHead(t) ==
  /\ txn[t] = "head"
  /\ head' = [head EXCEPT ![t] = Newest(table)]
  /\ To(t, "lock")
  /\ UNCHANGED <<table, asked, inserted, returned>>

\* ... and locked, after a wait if need be.  A stale parent is a conflict.
LockHead(t) ==
  /\ txn[t] = "lock"
  /\ head[t] # None => Free(head[t])
  /\ To(t, IF asked[t].parent = (IF head[t] = None THEN None ELSE head[t].req.id)
           THEN "insert" ELSE "refused")
  /\ UNCHANGED <<table, asked, head, inserted, returned>>

\* INSERT waits for the end of a transaction whose row collides with this
\* one; a violation of a constraint is raised as the driver's error.
Insert(t) ==
  LET row == RowOf(t) IN
  /\ txn[t] = "insert"
  /\ \A u \in Thread : inserted[u] # None => ~Collides(row, inserted[u])
  /\ IF \E v \in table : Collides(row, v)
     THEN To(t, "refused") /\ UNCHANGED inserted
     ELSE To(t, "commit") /\ inserted' = [inserted EXCEPT ![t] = row]
  /\ UNCHANGED <<table, asked, head, returned>>

Committed(t) ==
  /\ table' = table \cup {inserted[t]}
  /\ inserted' = [inserted EXCEPT ![t] = None]

Commit(t) ==
  /\ txn[t] = "commit"
  /\ Committed(t)
  /\ To(t, "saved")
  /\ UNCHANGED <<asked, head, returned>>

\* The connection is lost: the server rolls back, or has committed already.
Disconnect(t) ==
  /\ txn[t] \notin {"none", "saved", "refused"}
  /\ \/ inserted' = [inserted EXCEPT ![t] = None] /\ UNCHANGED table
     \/ txn[t] = "commit" /\ Committed(t)
  /\ To(t, "refused")
  /\ UNCHANGED <<asked, head, returned>>

\* save returns to its caller, or has raised.
EndSave(t) ==
  /\ txn[t] \in {"saved", "refused"}
  /\ returned' = returned \cup
       IF txn[t] = "saved" THEN WithId(table, asked[t].id) ELSE {}
  /\ txn' = [txn EXCEPT ![t] = "none"]
  /\ asked' = [asked EXCEPT ![t] = None]
  /\ head' = [head EXCEPT ![t] = None]
  /\ UNCHANGED <<table, inserted>>

PgStep(t) ==
  Identify(t) \/ FindHead(t) \/ LockHead(t) \/ Insert(t) \/ Commit(t)

-----------------------------------------------------------------------------
(* load_latest, load_checkpoint: one statement *)

Loads(rows) ==
  /\ returned' = returned \cup rows
  /\ UNCHANGED <<table, txn, asked, head, inserted>>

\* All connections are lost with the process.
PgRestart ==
  /\ table' \in {table \cup {inserted[t] : t \in C} :
                   C \in SUBSET {t \in Thread : inserted[t] # None}}
  /\ txn' = [t \in Thread |-> "none"]
  /\ asked' = [t \in Thread |-> None]
  /\ head' = [t \in Thread |-> None]
  /\ inserted' = [t \in Thread |-> None]
  /\ UNCHANGED returned

-----------------------------------------------------------------------------
(* What it is to implement.  The requests are left open: those that are made *)
(* are the ones in asked.                                                   *)

Stream == INSTANCE CheckpointStream WITH
  Request <- {}, chain <- table, tip <- Newest(table)
=============================================================================
