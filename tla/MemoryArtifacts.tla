---------------------------- MODULE MemoryArtifacts ---------------------------
(***************************************************************************)
(* MemoryArtifactStore (integrations/artifact/memory_store.py): a dict of  *)
(* the process, used by its threads without a lock.                        *)
(***************************************************************************)
EXTENDS ArtifactCalls

VARIABLE items    \* _items

MemoryObjects == items

MemoryInit == items = [k \in Key |-> None]

MemoryKeys == {k \in Key : items[k] # None}

\* put looks for a record of the key.
MemoryPut(c) ==
  LET q == call[c] IN
  /\ stage[c] = "begin" /\ q.op = "put"
  /\ \/ items[q.target] = None /\ Proceeds(c, "insert")
     \/ items[q.target] = q.content /\ PutReturns(c)
     \/ items[q.target] \notin {None, q.content} /\ Answer(c, "conflict", None)
  /\ UNCHANGED <<items, backend, recorded, calls, faults>>

\* put inserts the record: another thread may have done so meanwhile.
MemoryInsert(c) ==
  /\ stage[c] = "insert"
  /\ items' = [items EXCEPT ![call[c].target] = call[c].content]
  /\ PutReturns(c)
  /\ UNCHANGED <<backend, recorded, calls, faults>>

MemoryGet(c) ==
  LET found == items[call[c].target] IN
  /\ stage[c] = "begin" /\ call[c].op = "get"
  /\ IF found = None THEN Answer(c, "absent", None) ELSE Answer(c, "found", found)
  /\ UNCHANGED <<items, backend, recorded, calls, faults>>

\* list_for_run iterates over the dict.
MemoryList(c) ==
  /\ stage[c] = "begin" /\ call[c].op = "list"
  /\ Reads(c, MemoryKeys, "iterate")
  /\ UNCHANGED <<items, backend, recorded, calls, faults>>

\* A dict that has grown meanwhile raises out of the iteration.
MemoryListed(c) ==
  /\ stage[c] = "iterate"
  /\ IF saw[c] = MemoryKeys
     THEN Answer(c, "listed", {k \in saw[c] : items[k].run = call[c].target})
     ELSE Answer(c, "failed", None)
  /\ UNCHANGED <<items, backend, recorded, calls, faults>>

MemoryRestart ==
  /\ Dies(Client)
  /\ items' = [k \in Key |-> None]

MemoryStep(c) ==
  MemoryPut(c) \/ MemoryInsert(c) \/ MemoryGet(c) \/ MemoryList(c) \/ MemoryListed(c)
=============================================================================
