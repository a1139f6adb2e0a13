------------------------- MODULE FsCheckpointStore --------------------------
(***************************************************************************)
(* One stream of FilesystemCheckpointStore                                 *)
(* (integrations/checkpoint/filesystem_store.py), at the grain of its      *)
(* file-system calls: every link, replace and unlink that another process  *)
(* or a restart can observe is a step of its own, so a crash or an I/O     *)
(* error can fall between any two of them.                                 *)
(*                                                                         *)
(* The stream directory holds two indexes of hard links (records/by-id and *)
(* records/by-revision), head.json and pending.json; bodies are content    *)
(* addressed and shared by all streams.  A file name is determined by what *)
(* the file says, so an index is a set of files.  Digests are collision    *)
(* free: head.json, which names a record by id, revision and digest, is    *)
(* the record's descriptor, and so is pending.json.                        *)
(***************************************************************************)
EXTENDS Naturals, FiniteSets

CONSTANTS
  Proc,         \* threads, of any processes on the host, that use the stream
  Request,      \* write requests: [id, parent, body]; body stands for all the
                \* content _same_canonical_request compares
  Large,        \* those of them whose record is longer than _MAX_JSON_BYTES
  Inode,        \* identities of record files (st_ino)
  None,         \* no file, no parent, no holder
  MaxFaults     \* bound on the crashes and I/O errors of a behaviour

Id == {r.id : r \in Request}
Body == {r.body : r \in Request}

ASSUME RequestAssumption ==
  \A r \in Request : /\ r = [id |-> r.id, parent |-> r.parent, body |-> r.body]
                     /\ r.parent \in Id \cup {None}
                     /\ r.parent # r.id    \* CHECKPOINT_STORE_SELF_PARENT
ASSUME LargeAssumption == Large \subseteq Request
ASSUME FaultAssumption == MaxFaults \in Nat

VARIABLES
  body,         \* contents published under bodies/sha256
  byId,         \* the files linked under records/by-id
  byRev,        \* the files linked under records/by-revision
  head,         \* head.json: the descriptor it names, or None
  pending,      \* pending.json: the descriptor it announces, or None
  lock,         \* the holder of the stream lock (RLock, then flock), or None
  pc,           \* where each thread is
  op,           \* the operation it executes, or None
  file,         \* its local record: the descriptor it publishes or repairs, as a file, or None
  result,       \* how its last operation ended
  returned,     \* history: every descriptor returned to a caller
  faults        \* crashes and I/O errors so far

disk == <<body, byId, byRev, head, pending>>
vars == <<body, byId, byRev, head, pending, lock, pc, op, file, result, returned, faults>>

-----------------------------------------------------------------------------
(* Data *)

\* StoredCheckpoint: a request and the revision it was given.
Desc == [req : Request, rev : Nat \ {0}]

\* A record file: what it says, and which inode it is.
File == [desc : Desc, ino : Inode]

Op == [kind : {"save"}, req : Request]
      \cup [kind : {"load_latest", "list_for_run"}]
      \cup [kind : {"load_checkpoint"}, id : Id]

ASSUME NoneAssumption == None \notin Proc \cup Id \cup Desc \cup File \cup Op

Outcome == {"none", "ok", "absent", "conflict", "stale_parent",
            "pending_conflict", "io_error", "crashed", "integrity"}

\* os.replace of head.json happens in three places, each followed by the
\* unlink of pending.json: in the two repairing branches of _recover_stream
\* and at the end of save.
AfterHead == [relink_head |-> "relink_unlink",
              sync_head   |-> "sync_unlink",
              save_head   |-> "save_unlink"]
AfterUnlink == [relink_unlink |-> "act",
                sync_unlink   |-> "validate",
                save_unlink   |-> "reply"]

Stage == {"idle", "recover", "relink", "relink_head", "relink_unlink",
          "sync_head", "sync_unlink", "validate", "act", "body", "intend",
          "link_id", "link_rev", "save_head", "save_unlink", "reply"}

HeadRev == IF head = None THEN 0 ELSE head.rev

\* The versions a reader of the stream sees as committed.
Committed == {f.desc : f \in {g \in byRev : g.desc.rev <= HeadRev}}

SameId(S, id) == {f \in S : f.desc.req.id = id}
SameRev(S, rev) == {f \in S : f.desc.rev = rev}

-----------------------------------------------------------------------------
(* What the store verifies.  Equal content and the same inode together are *)
(* equality of files, so "the other index has this very file" is           *)
(* membership.                                                             *)

\* _verify_record_body and _validate_listing_body.
BodyPresent(f) == f.desc.req.body \in body

\* A record passes when it is read (_record_from_path) and verified.  Reading
\* stops at _MAX_JSON_BYTES; writing does not.
Intact(f) == f.desc.req \notin Large /\ BodyPresent(f)

\* _validate_committed_chain: one record per revision up to the head, linked
\* to its predecessor, the same file in both indexes, its body in place, and
\* the last of them the one the head names.
ChainValid(h) ==
  /\ \A n \in 1..h.rev : \E f \in byRev :
       /\ f.desc.rev = n
       /\ f \in byId
       /\ Intact(f)
       /\ IF n = 1 THEN f.desc.req.parent = None
          ELSE \E g \in byRev : /\ g.desc.rev = n - 1
                                /\ f.desc.req.parent = g.desc.req.id
  /\ \E f \in byRev : f.desc = h

\* Mutation: recovery looks for the pending record by revision only.
PendingByIdSkipped == SameRev(byRev, pending.rev)

\* The records that carry the pending transaction's id and revision.
PendingById == SameId(byId, pending.req.id)
PendingByRev == SameRev(byRev, pending.rev)

\* The checks _recover_stream makes before it changes anything.
Names(f, d) == /\ f.desc.req.id = d.req.id
               /\ f.desc.rev = d.rev
               /\ f.desc.req.parent = d.req.parent

DiskRejected ==
  IF pending = None
  THEN head = None /\ byId \cup byRev # {}            \* DANGLING_RECORDS
  ELSE \/ HeadRev > pending.rev                       \* IMPOSSIBLE_PENDING
       \/ \E f \in PendingById \cup PendingByRev :
            ~Names(f, pending) \/ ~Intact(f)          \* PENDING_RECORD_MISMATCH, MISSING_BODY
       \/ /\ PendingById # {} /\ PendingByRev # {}    \* RECORD_INDEX_MISMATCH, LINK_MISMATCH
          /\ PendingById # PendingByRev

-----------------------------------------------------------------------------
(* Steps *)

Init ==
  /\ body = {} /\ byId = {} /\ byRev = {}
  /\ head = None /\ pending = None
  /\ lock = None
  /\ pc = [p \in Proc |-> "idle"]
  /\ op = [p \in Proc |-> None]
  /\ file = [p \in Proc |-> None]
  /\ result = [p \in Proc |-> "none"]
  /\ returned = {}
  /\ faults = 0

Goto(p, stage) == pc' = [pc EXCEPT ![p] = stage]

\* Mutation: only a regular end releases the lock, an error keeps it.
FinishWithoutFinally(p, outcome) ==
  /\ Goto(p, "idle")
  /\ lock' = IF outcome = "io_error" THEN lock ELSE None
  /\ op' = [op EXCEPT ![p] = None]
  /\ file' = [file EXCEPT ![p] = None]
  /\ result' = [result EXCEPT ![p] = outcome]

\* The operation ends, whichever way, and the stream lock is released
\* (the finally clauses of _locked_stream).
Finish(p, outcome) ==
  /\ Goto(p, "idle")
  /\ lock' = None
  /\ op' = [op EXCEPT ![p] = None]
  /\ file' = [file EXCEPT ![p] = None]
  /\ result' = [result EXCEPT ![p] = outcome]

Working(p, stage) == pc[p] = stage /\ UNCHANGED faults
Continue(p, stage) == Goto(p, stage) /\ UNCHANGED <<lock, op, result, returned>>

\* Mutation: the operation does not wait for the lock.
BeginUnlocked(p) ==
  /\ pc[p] = "idle"
  /\ lock' = p
  /\ \E o \in Op : op' = [op EXCEPT ![p] = o]
  /\ Goto(p, "recover")
  /\ result' = [result EXCEPT ![p] = "none"]
  /\ UNCHANGED <<disk, file, returned, faults>>

\* Any operation first takes the stream lock.
Begin(p) ==
  /\ pc[p] = "idle"
  /\ lock = None
  /\ lock' = p
  /\ \E o \in Op : op' = [op EXCEPT ![p] = o]
  /\ Goto(p, "recover")
  /\ result' = [result EXCEPT ![p] = "none"]
  /\ UNCHANGED <<disk, file, returned, faults>>

\* _recover_stream reads pending.json, head.json and the records they name,
\* and decides what is left to do.
Inspect(p) ==
  /\ Working(p, "recover")
  /\ IF DiskRejected
     THEN Finish(p, "integrity") /\ UNCHANGED returned
     ELSE \/ /\ pending = None
             /\ Continue(p, "validate") /\ UNCHANGED file
          \/ /\ pending # None /\ PendingById \cup PendingByRev = {}
             /\ Continue(p, "sync_unlink") /\ UNCHANGED file
          \/ /\ pending # None /\ (PendingById = {}) # (PendingByRev = {})
             /\ \E f \in PendingById \cup PendingByRev : file' = [file EXCEPT ![p] = f]
             /\ Continue(p, "relink")
          \/ /\ pending # None /\ PendingById # {} /\ PendingByRev # {}
             /\ \E f \in PendingById :
                  /\ file' = [file EXCEPT ![p] = f]
                  /\ IF \/ HeadRev < f.desc.rev
                        \/ head.req.id # f.desc.req.id
                     THEN Continue(p, "sync_head")
                     ELSE Continue(p, "sync_unlink")
  /\ UNCHANGED disk

\* Mutation: the missing link is made by copying the record.
RelinkCopies(p) ==
  /\ Working(p, "relink")
  /\ \E n \in Inode \ {f.ino : f \in byId \cup byRev} :
       byRev' = byRev \cup {[file[p] EXCEPT !.ino = n]}
  /\ Continue(p, "relink_head")
  /\ UNCHANGED <<body, byId, head, pending, file>>

\* One of the two links of the pending record is missing: link the same file
\* under the other name.
Relink(p) ==
  /\ Working(p, "relink")
  /\ byId' = byId \cup {file[p]}
  /\ byRev' = byRev \cup {file[p]}
  /\ Continue(p, "relink_head")
  /\ UNCHANGED <<body, head, pending, file>>

\* _write_head: replace head.json by one that names this thread's record.
WriteHead(p) ==
  /\ pc[p] \in DOMAIN AfterHead
  /\ head' = file[p].desc
  /\ Continue(p, AfterHead[pc[p]])
  /\ UNCHANGED <<body, byId, byRev, pending, file, faults>>

\* Mutation: only save cleans up the intent, recovery leaves it.
UnlinkInSaveOnly(p) ==
  /\ pc[p] \in DOMAIN AfterUnlink
  /\ pending' = IF pc[p] = "save_unlink" THEN None ELSE pending
  /\ Continue(p, AfterUnlink[pc[p]])
  /\ UNCHANGED <<body, byId, byRev, head, file, faults>>

\* _cleanup_path(pending.json).  An error of the unlink is swallowed: the
\* operation goes on and the file stays.
UnlinkPending(p) ==
  /\ pc[p] \in DOMAIN AfterUnlink
  /\ \/ pending' = None /\ UNCHANGED faults
     \/ faults < MaxFaults /\ faults' = faults + 1 /\ UNCHANGED pending
  /\ Continue(p, AfterUnlink[pc[p]])
  /\ UNCHANGED <<body, byId, byRev, head, file>>

\* The recovery of an undisturbed stream, and of one whose transaction was
\* dropped or was already complete, ends with a check of the whole chain.
Validate(p) ==
  /\ Working(p, "validate")
  /\ IF head # None /\ ~ChainValid(head)
     THEN Finish(p, "integrity") /\ UNCHANGED returned
     ELSE Continue(p, "act") /\ UNCHANGED file
  /\ UNCHANGED disk

\* Mutation: a repeated identity is recognised only while it is the head.
ExistingAtHead(req) == {f \in SameId(byId, req.id) : f.desc = head}

\* The record that already carries the request's identity, if any.
Existing(req) == SameId(byId, req.id)

\* Mutation: the parent is not compared.
ParentUnchecked(req) == req.parent \in Id \cup {None}

\* The request extends the head, or starts the stream.
ParentIsHead(req) == req.parent = IF head = None THEN None ELSE head.req.id

\* Mutation: the new version gets the head's revision.
DescriptorOffByOne(req) == [req |-> req, rev |-> HeadRev]

\* _checkpoint_descriptor, with the revision save computes for it.
Descriptor(req) == [req |-> req, rev |-> HeadRev + 1]

\* save, up to the choice of the revision: an existing identity is either
\* this very request again or a conflict, whatever its place in the history;
\* a new one must extend the head.  The file is the temporary one save will
\* link; its inode is any that no linked file has.
SaveDecide(p) ==
  LET req == op[p].req IN
  /\ Working(p, "act")
  /\ op[p].kind = "save"
  /\ \/ \E f \in Existing(req) :
          IF ~Intact(f)
          THEN Finish(p, "integrity") /\ UNCHANGED returned
          ELSE IF f.desc.req = req
               THEN Finish(p, "ok") /\ returned' = returned \cup {f.desc}
               ELSE Finish(p, "conflict") /\ UNCHANGED returned
     \/ /\ Existing(req) = {} /\ ~ParentIsHead(req)
        /\ Finish(p, "stale_parent") /\ UNCHANGED returned
     \/ /\ Existing(req) = {} /\ ParentIsHead(req)
        /\ \E n \in Inode \ {f.ino : f \in byId \cup byRev} :
             file' = [file EXCEPT ![p] = [desc |-> Descriptor(req), ino |-> n]]
        /\ Continue(p, "body")
  /\ UNCHANGED disk

\* _publish_immutable_bytes: the temporary file becomes visible complete or
\* not at all; a body that is already there is the same body.
PublishBody(p) ==
  /\ Working(p, "body")
  /\ body' = body \cup {file[p].desc.req.body}
  /\ Continue(p, "intend")
  /\ UNCHANGED <<byId, byRev, head, pending, file>>

\* _write_pending: announce the transaction, never over another one.
WritePending(p) ==
  /\ Working(p, "intend")
  /\ IF pending # None
     THEN Finish(p, "pending_conflict") /\ UNCHANGED <<pending, returned>>
     ELSE /\ pending' = file[p].desc
          /\ Continue(p, "link_id") /\ UNCHANGED file
  /\ UNCHANGED <<body, byId, byRev, head>>

\* Link the record under its id.  A name that is taken is the same record
\* (which save then completes) or a conflict.
LinkById(p) ==
  LET taken == SameId(byId, file[p].desc.req.id) IN
  /\ Working(p, "link_id")
  /\ IF taken = {}
     THEN byId' = byId \cup {file[p]} /\ Continue(p, "link_rev") /\ UNCHANGED file
     ELSE /\ UNCHANGED byId
          /\ \E f \in taken :
               IF Intact(f) /\ f.desc = file[p].desc
               THEN file' = [file EXCEPT ![p] = f] /\ Continue(p, "link_rev")
               ELSE /\ Finish(p, IF Intact(f) THEN "conflict" ELSE "integrity")
                    /\ UNCHANGED returned
  /\ UNCHANGED <<body, byRev, head, pending>>

\* Link the record under its revision.  A name that is taken must be the
\* same record (or it is a conflict) and the same file.
LinkByRevision(p) ==
  LET taken == SameRev(byRev, file[p].desc.rev) IN
  /\ Working(p, "link_rev")
  /\ IF taken = {}
     THEN byRev' = byRev \cup {file[p]} /\ Continue(p, "save_head") /\ UNCHANGED file
     ELSE /\ UNCHANGED byRev
          /\ \E f \in taken :
               IF Intact(f) /\ f = file[p]
               THEN Continue(p, "save_head") /\ UNCHANGED file
               ELSE /\ Finish(p, IF Intact(f) /\ f.desc # file[p].desc
                                 THEN "conflict" ELSE "integrity")
                    /\ UNCHANGED returned
  /\ UNCHANGED <<body, byId, head, pending>>

SaveReply(p) ==
  /\ Working(p, "reply")
  /\ Finish(p, "ok")
  /\ returned' = returned \cup {file[p].desc}
  /\ UNCHANGED disk

\* The records each reading operation hands out.
Answer(o) ==
  CASE o.kind = "load_latest"     -> IF head = None THEN {} ELSE SameRev(byRev, head.rev)
    [] o.kind = "load_checkpoint" -> IF head = None THEN {} ELSE SameId(byId, o.id)
    [] o.kind = "list_for_run"    -> {f \in byRev : f.desc.rev <= HeadRev}

\* The checks they make on them: load_latest that the head's record is there
\* and is the one it names; load_checkpoint that the record is not beyond the
\* head, nor at the head and another; list_for_run that the chain is valid
\* and that neither index has a record beside it
\* (_audit_no_extra_finalized_records); all that both links and the body exist.
AnswerRejected(o) ==
  /\ head # None
  /\ \/ \E f \in Answer(o) : f \notin byId \cap byRev \/ ~Intact(f)
     \/ o.kind = "load_latest" /\ ~ \E f \in Answer(o) : f.desc = head
     \/ /\ o.kind = "load_checkpoint"
        /\ \E f \in Answer(o) :
             f.desc.rev > head.rev \/ (f.desc.rev = head.rev /\ f.desc # head)
     \/ o.kind = "list_for_run" /\ (~ChainValid(head) \/ byId \cup byRev # Answer(o))

Read(p) ==
  /\ Working(p, "act")
  /\ op[p].kind # "save"
  /\ IF AnswerRejected(op[p])
     THEN Finish(p, "integrity") /\ UNCHANGED returned
     ELSE /\ Finish(p, IF Answer(op[p]) = {} THEN "absent" ELSE "ok")
          /\ returned' = returned \cup {f.desc : f \in Answer(op[p])}
  /\ UNCHANGED disk

\* Between any two steps a system call fails, which ends the operation with a
\* CheckpointPersistenceError, or the process dies, which frees the flock.
Interrupt(p) ==
  /\ pc[p] # "idle"
  /\ faults < MaxFaults
  /\ faults' = faults + 1
  /\ \E outcome \in {"io_error", "crashed"} : Finish(p, outcome)
  /\ UNCHANGED <<disk, returned>>

\* A save on another stream publishes a body with the same content: bodies
\* are the only files streams share, and no lock covers them.
PublishElsewhere ==
  /\ \E b \in Body \ body : body' = body \cup {b}
  /\ UNCHANGED <<byId, byRev, head, pending, lock, pc, op, file, result, returned, faults>>

Step(p) ==
  \/ Inspect(p) \/ Relink(p) \/ WriteHead(p) \/ UnlinkPending(p) \/ Validate(p)
  \/ SaveDecide(p) \/ PublishBody(p) \/ WritePending(p) \/ LinkById(p)
  \/ LinkByRevision(p) \/ SaveReply(p) \/ Read(p)

Next ==
  \/ \E p \in Proc : Begin(p) \/ Step(p) \/ Interrupt(p)
  \/ PublishElsewhere

Spec == Init /\ [][Next]_vars

\* A thread that holds the lock runs on: nothing it does under the lock waits
\* for another thread.  Nothing is assumed of callers, of crashes or of who
\* gets the lock.
FairSpec == Spec /\ \A p \in Proc : WF_vars(Step(p))
-----------------------------------------------------------------------------
(* Properties *)

TypeOK ==
  /\ body \subseteq Body
  /\ byId \subseteq File
  /\ byRev \subseteq File
  /\ head \in Desc \cup {None}
  /\ pending \in Desc \cup {None}
  /\ lock \in Proc \cup {None}
  /\ pc \in [Proc -> Stage]
  /\ op \in [Proc -> Op \cup {None}]
  /\ file \in [Proc -> File \cup {None}]
  /\ result \in [Proc -> Outcome]
  /\ returned \subseteq Desc
  /\ faults \in Nat

\* Whatever was returned to a caller, by a save or by a read, can be loaded
\* for ever after: it is committed, it is the same file in both indexes and
\* its body is in place, through any crashes, repairs and later saves.  (That
\* the file can also be read is NeverCondemned.)
ReturnedStaysLoadable ==
  \A d \in returned :
    /\ d.rev <= HeadRev
    /\ \E f \in byId \cap byRev : f.desc = d /\ BodyPresent(f)

\* The records the store has written and will not read back.
Oversized == {f \in byId \cup byRev : f.desc.req \in Large}

\* The store never condemns its own files: no crash point, repaired or left
\* behind by an earlier repair, is taken for corruption by a later operation,
\* unless a record has been written that is too long to be read.
NeverCondemned == (\E p \in Proc : result[p] = "integrity") => Oversized # {}

\* docs/contracts/integrations/CHECKPOINT_STORE.md: "Accepted checkpoint
\* metadata is preserved as a lossless logical JSON value": what a save has
\* accepted can be read back, whatever its metadata.
AcceptedIsReadable == \A p \in Proc : result[p] # "integrity"

\* Once recovery is over, the operation that ran it sees exactly the
\* committed chain: nothing of an interrupted save is left half way in an
\* index, and nothing in an index is beyond the head.
RecoveredIsExact ==
  \A p \in Proc : pc[p] = "act" => /\ byId = byRev
                                   /\ {f.desc : f \in byId} = Committed

\* Two saves never race for a name under the stream lock: the branches of
\* save that find the id or the revision taken, after the head was checked
\* and the intent announced, are unreachable.
NoLostRace ==
  \A p \in Proc :
    /\ pc[p] = "link_id" => SameId(byId, file[p].desc.req.id) = {}
    /\ pc[p] \in {"link_id", "link_rev"} => SameRev(byRev, file[p].desc.rev) = {}

\* A save that repeats a committed request is answered with success, however
\* far the stream has moved on and whatever interrupted the first attempt;
\* only a new fault, or an oversized record, can get in its way.
RetryIsIdempotent ==
  [][\A p \in Proc :
       /\ pc[p] # "idle" /\ pc'[p] = "idle"
       /\ op[p].kind = "save"
       /\ \E d \in Committed : d.req = op[p].req
       => result'[p] \in {"ok", "io_error", "crashed"} \/ Oversized # {}]_vars

\* The file store implements the append-only stream: a save takes effect at
\* the replacement of head.json, in its own call or in the recovery of
\* somebody else's.
Stream == INSTANCE CheckpointStream WITH chain <- Committed, tip <- head
ImplementsStream == Stream!Spec

\* Every operation that has the stream lock ends and gives it back, also when
\* it fails or its process dies.
LockIsGivenBack == \A p \in Proc : lock = p ~> lock # p

\* An interrupted save does not stay undecided: as long as operations keep
\* arriving, of any kind and by anyone, its intent is completed or dropped.
IntentsAreResolved ==
  ([]<> \E p \in Proc : pc[p] = "recover") => []<>(pending = None \/ Oversized # {})
=============================================================================
