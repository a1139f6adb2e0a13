-------------------------- MODULE CheckpointStream --------------------------
(***************************************************************************)
(* What a checkpoint store promises about one stream, a pair (run_id,      *)
(* checkpoint_namespace): an append-only, linear history of immutable      *)
(* versions.  A version is a caller's request and the revision the store   *)
(* gave it.  The operations are the CheckpointStore protocol of            *)
(* integrations/checkpoint/base.py; the body of each is what the memory    *)
(* store of integrations/checkpoint/memory_store.py does in one critical   *)
(* section, and what the filesystem store must appear to do.               *)
(***************************************************************************)
EXTENDS Naturals

CONSTANTS
  Request,      \* the write requests callers may make: [id, parent, body]
  None          \* no checkpoint: the parent of a first version, the tip of an empty stream

VARIABLES
  chain,        \* the committed versions
  tip,          \* the newest of them, or None
  returned      \* every version an operation has returned to its caller

vars == <<chain, tip, returned>>

Version == [req : Request, rev : Nat \ {0}]

Init ==
  /\ chain = {}
  /\ tip = None
  /\ returned = {}

\* The version a request becomes when it is written now: the revision after
\* the tip's (memory_store.save).
VersionOf(r) == [req |-> r, rev |-> IF tip = None THEN 1 ELSE tip.rev + 1]

\* A request may be appended when its identity is new and its parent is the
\* tip; everything else is a conflict, and changes nothing.
Appendable(r) ==
  /\ \A v \in chain : v.req.id # r.id
  /\ r.parent = IF tip = None THEN None ELSE tip.req.id

Commit(r) ==
  /\ Appendable(r)
  /\ chain' = chain \cup {VersionOf(r)}
  /\ tip' = VersionOf(r)
  /\ UNCHANGED returned

\* A save, a retried save or a read returns versions that are committed.
Return(V) ==
  /\ V \subseteq chain
  /\ returned' = returned \cup V
  /\ UNCHANGED <<chain, tip>>

Next ==
  \/ \E r \in Request : Commit(r)
  \/ \E V \in SUBSET chain : Return(V)

Spec == Init /\ [][Next]_vars
=============================================================================
