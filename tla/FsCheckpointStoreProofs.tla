---------------------- MODULE FsCheckpointStoreProofs -----------------------
(***************************************************************************)
(* Proofs about FsCheckpointStore, for every set of threads, requests and  *)
(* inodes and any number of faults.                                        *)
(***************************************************************************)
EXTENDS FsCheckpointStore, TLAPS

-----------------------------------------------------------------------------
(* The inductive invariant *)

\* Only the holder of the stream lock is inside an operation.
LockInv == \A p \in Proc : pc[p] # "idle" => lock = p

\* A directory has one file per name.
NamesInv ==
  /\ \A f, g \in byId : f.desc.req.id = g.desc.req.id => f = g
  /\ \A f, g \in byRev : f.desc.rev = g.desc.rev => f = g

\* A record is linked by id first.  Up to the head it has both links; the one
\* beyond the head is the one the intent announces.
IndexInv ==
  /\ byRev \subseteq byId
  /\ \A f \in byId :
       /\ BodyPresent(f)
       /\ \/ f \in byRev /\ f.desc.rev <= HeadRev
          \/ f.desc.rev = HeadRev + 1 /\ pending = f.desc

\* A descriptor extends the record before it, or starts the stream.
Follows(d) ==
  IF d.rev = 1 THEN d.req.parent = None
  ELSE \E g \in byRev : g.desc.rev = d.rev - 1 /\ d.req.parent = g.desc.req.id

ChainInv ==
  /\ head # None => \E f \in byRev : f.desc = head
  /\ \A n \in 1..HeadRev : \E f \in byRev : f.desc.rev = n
  /\ \A f \in byId : Follows(f.desc)

\* An intent is that of the head (it was completed and not removed), or of
\* the next revision, whose id no other record has.
PendingInv ==
  pending # None =>
    \/ pending = head
    \/ /\ pending.rev = HeadRev + 1
       /\ \A f \in byId : f.desc.req.id = pending.req.id => f.desc = pending

\* No record is beyond the head.
Settled == \A f \in byId : f.desc.rev <= HeadRev

\* The record of a thread that is about to publish it.
Fresh(f) ==
  /\ f \in File
  /\ f.desc.rev = HeadRev + 1
  /\ Follows(f.desc)
  /\ SameId(byId, f.desc.req.id) = {}

\* The record of a thread that is about to move the head to it.
Complete(f) ==
  /\ f \in byRev
  /\ f.desc = pending
  /\ f.desc.rev = HeadRev + 1

\* What a thread knows at each of its steps.
ThreadInv(p) ==
  /\ pc[p] # "idle" => op[p] \in Op
  /\ pc[p] = "relink" => /\ file[p] \in byId \ byRev
                         /\ file[p].desc = pending
                         /\ file[p].desc.rev = HeadRev + 1
  /\ pc[p] \in {"relink_head", "sync_head", "save_head"} => Complete(file[p])
  /\ pc[p] \in {"relink_unlink", "sync_unlink", "save_unlink", "validate", "act"} => Settled
  /\ pc[p] \in {"body", "intend", "link_id"} => /\ Settled
                                             /\ Fresh(file[p])
                                             /\ file[p].desc.req = op[p].req
  /\ pc[p] \in {"intend", "link_id"} => BodyPresent(file[p])
  /\ pc[p] = "link_id" => pending = file[p].desc
  /\ pc[p] = "link_rev" => /\ file[p] \in byId \ byRev
                           /\ file[p].desc = pending
                           /\ file[p].desc.rev = HeadRev + 1
  /\ pc[p] \in {"save_unlink", "reply"} => file[p] \in byRev /\ file[p].desc = head
  /\ pc[p] = "reply" => Settled

DiskInv == NamesInv /\ IndexInv /\ ChainInv /\ PendingInv

IInv ==
  /\ TypeOK
  /\ LockInv
  /\ DiskInv
  /\ \A p \in Proc : ThreadInv(p)
  /\ ReturnedStaysLoadable
  /\ NeverCondemned
-----------------------------------------------------------------------------
(* What the invariant says of the disk *)

\* head.json names a record of both indexes, and so does an intent that is
\* already carried out.
LEMMA HeadRecord ==
  ASSUME TypeOK, DiskInv, head # None
  PROVE  /\ head \in Desc
         /\ HeadRev = head.rev
         /\ \E f \in byId \cap byRev : f.desc = head
BY DEF TypeOK, DiskInv, ChainInv, IndexInv, HeadRev

\* What recovery finds of a pending record is that record, the same file in
\* both indexes if it is in both.
LEMMA PendingFound ==
  ASSUME TypeOK, DiskInv, pending # None
  PROVE  /\ \A f \in PendingById \cup PendingByRev : f \in byId /\ f.desc = pending
         /\ \A f \in PendingById, g \in PendingByRev : f = g
<1>1. \A f \in PendingById : f \in byId /\ f.desc = pending
  <2>1. SUFFICES ASSUME NEW f \in byId, f.desc.req.id = pending.req.id
                 PROVE  f.desc = pending
    BY DEF PendingById, SameId
  <2>2. CASE pending = head
    BY <2>1, <2>2, HeadRecord DEF DiskInv, NamesInv
  <2>3. CASE pending # head
    BY <2>1, <2>3 DEF DiskInv, PendingInv
  <2>4. QED BY <2>2, <2>3
<1>2. \A f \in PendingByRev : f \in byId /\ f.desc = pending
  <2>1. SUFFICES ASSUME NEW f \in byRev, f.desc.rev = pending.rev
                 PROVE  f \in byId /\ f.desc = pending
    BY DEF PendingByRev, SameRev
  <2>2. CASE pending = head
    BY <2>1, <2>2, HeadRecord DEF DiskInv, NamesInv, IndexInv
  <2>3. CASE pending # head
    BY <2>1, <2>3 DEF DiskInv, PendingInv, IndexInv, TypeOK, File, Desc, HeadRev
  <2>4. QED BY <2>2, <2>3
<1>3. \A f \in PendingById, g \in PendingByRev : f = g
  BY <1>1, <1>2 DEF DiskInv, NamesInv
<1>4. QED BY <1>1, <1>2, <1>3

\* A record that is short enough to be read passes when its body is there.
LEMMA AllIntact ==
  ASSUME DiskInv, Oversized = {}
  PROVE  \A f \in byId : Intact(f)
BY DEF DiskInv, IndexInv, Oversized, Intact

\* Recovery accepts the disk: it finds no record without a head, no intent
\* behind the head, and no record that contradicts the intent or is too long.
LEMMA DiskAccepted ==
  ASSUME TypeOK, DiskInv, Oversized = {}
  PROVE  ~DiskRejected
<1>1. CASE pending = None
  BY <1>1, NoneAssumption DEF DiskRejected, DiskInv, IndexInv, TypeOK, File, Desc, HeadRev
<1>2. CASE pending # None
  <2>1. HeadRev <= pending.rev
    BY <1>2 DEF DiskInv, PendingInv, TypeOK, HeadRev, Desc
  <2>2. \A f \in PendingById \cup PendingByRev : Names(f, pending) /\ Intact(f)
    BY <1>2, PendingFound, AllIntact DEF Names
  <2>3. PendingById # {} /\ PendingByRev # {} => PendingById = PendingByRev
    BY <1>2, PendingFound
  <2>4. QED
    BY <1>2, <2>1, <2>2, <2>3 DEF DiskRejected, TypeOK, HeadRev, Desc
<1>3. QED BY <1>1, <1>2

\* The committed chain passes _validate_committed_chain.
LEMMA ChainAccepted ==
  ASSUME TypeOK, DiskInv, head # None, Oversized = {}
  PROVE  ChainValid(head)
<1>1. head \in Desc /\ HeadRev = head.rev
  BY HeadRecord
<1>2. ASSUME NEW n \in 1..head.rev
      PROVE  \E f \in byRev :
               /\ f.desc.rev = n
               /\ f \in byId
               /\ Intact(f)
               /\ IF n = 1 THEN f.desc.req.parent = None
                  ELSE \E g \in byRev : /\ g.desc.rev = n - 1
                                        /\ f.desc.req.parent = g.desc.req.id
  BY <1>1, AllIntact DEF DiskInv, IndexInv, ChainInv, Follows
<1>3. QED
  BY <1>2, HeadRecord DEF ChainValid

\* When no record is beyond the head, both indexes are the committed chain,
\* and every read passes its checks.
LEMMA SettledIsExact ==
  ASSUME TypeOK, DiskInv, Settled
  PROVE  /\ byId = byRev
         /\ \A f \in byRev : f.desc.rev <= HeadRev
         /\ {f.desc : f \in byId} = Committed
<1>1. ASSUME NEW f \in byId PROVE f \in byRev
  BY DEF TypeOK, File, Desc, HeadRev, DiskInv, IndexInv, Settled
<1>2. byId = byRev
  BY <1>1 DEF DiskInv, IndexInv
<1>3. QED
  BY <1>2 DEF Settled, Committed

LEMMA AnswerIsLinked ==
  ASSUME TypeOK, DiskInv, Settled, NEW o \in Op, o.kind # "save"
  PROVE  \A f \in Answer(o) : f \in byId \cap byRev
BY SettledIsExact DEF Answer, SameRev, SameId, Op

LEMMA ReadAccepted ==
  ASSUME TypeOK, DiskInv, Settled, NEW o \in Op, o.kind # "save", Oversized = {}
  PROVE  ~AnswerRejected(o)
<1>1. byId = byRev /\ \A f \in byRev : f.desc.rev <= HeadRev
  BY SettledIsExact
<1>2. Answer(o) \subseteq byRev
  BY AnswerIsLinked
<1>3. \A f \in byRev : Intact(f)
  BY <1>1, AllIntact
<1>4. CASE head = None
  BY <1>1, <1>2, <1>4 DEF AnswerRejected
<1>5. CASE head # None
  <2>1. head \in Desc /\ HeadRev = head.rev /\ \E f \in byRev : f.desc = head
    BY <1>5, HeadRecord
  <2>2. CASE o.kind = "load_latest"
    BY <1>1, <1>2, <1>3, <1>5, <2>1, <2>2 DEF AnswerRejected, Answer, SameRev
  <2>3. CASE o.kind = "load_checkpoint"
    <3>1. \A f \in byRev : f.desc.rev = head.rev => f.desc = head
      BY <2>1 DEF DiskInv, NamesInv
    <3>2. QED BY <1>1, <1>2, <1>3, <2>1, <2>3, <3>1 DEF AnswerRejected, TypeOK, File, Desc
  <2>4. CASE o.kind = "list_for_run"
    <3>1. Answer(o) = byRev
      BY <1>1, <2>4 DEF Answer
    <3>2. QED BY <1>1, <1>3, <1>5, <2>4, <3>1, ChainAccepted DEF AnswerRejected
  <2>5. QED BY <2>2, <2>3, <2>4 DEF Op
<1>6. QED BY <1>4, <1>5
-----------------------------------------------------------------------------
(* What a step of one thread leaves alone *)

\* The thread inside an operation is alone there.
LEMMA Alone ==
  ASSUME LockInv, NEW p \in Proc, pc[p] # "idle"
  PROVE  lock = p /\ \A q \in Proc : q # p => pc[q] = "idle"
BY DEF LockInv

\* A step that keeps the files keeps what the invariant says of them.
LEMMA DiskKept ==
  ASSUME UNCHANGED disk, DiskInv
  PROVE  DiskInv' /\ (Settled => Settled') /\ (ReturnedStaysLoadable /\ UNCHANGED returned => ReturnedStaysLoadable')
BY DEF disk, DiskInv, NamesInv, IndexInv, ChainInv, Follows, PendingInv, HeadRev,
       BodyPresent, Settled, ReturnedStaysLoadable

\* No file is ever removed from an index, an oversized one neither.
LEMMA OversizedStays ==
  ASSUME byId \subseteq byId', byRev \subseteq byRev'
  PROVE  Oversized \subseteq Oversized'
BY DEF Oversized

\* The end of an operation, whatever its outcome, keeps the invariant when it
\* changes no file and reports corruption only of an oversized record.
LEMMA FinishKeeps ==
  ASSUME IInv, NEW p \in Proc, pc[p] # "idle",
         NEW outcome \in Outcome, outcome = "integrity" => Oversized # {},
         Finish(p, outcome), UNCHANGED disk,
         returned' \subseteq Desc, ReturnedStaysLoadable', faults' \in Nat
  PROVE  IInv'
<1>1. TypeOK'
  BY DEF IInv, TypeOK, Finish, Goto, disk, Stage
<1>2. \A q \in Proc : pc'[q] = "idle"
  BY Alone DEF IInv, TypeOK, Finish, Goto
<1>3. LockInv' /\ \A q \in Proc : ThreadInv(q)'
  BY <1>2 DEF LockInv, ThreadInv
<1>4. NeverCondemned'
  <2>1. Oversized' = Oversized
    BY DEF disk, Oversized
  <2>2. \A q \in Proc : result'[q] = IF q = p THEN outcome ELSE result[q]
    BY DEF IInv, TypeOK, Finish
  <2>3. QED BY <2>1, <2>2 DEF IInv, NeverCondemned
<1>5. QED BY <1>1, <1>3, <1>4, DiskKept DEF IInv

\* An operation that ends with an integrity error changes nothing.
LEMMA RejectKeeps ==
  ASSUME IInv, NEW p \in Proc, pc[p] # "idle", Finish(p, "integrity"), Oversized # {},
         UNCHANGED <<disk, returned, faults>>
  PROVE  IInv'
<1>1. ReturnedStaysLoadable' /\ returned' \subseteq Desc /\ faults' \in Nat
  BY DiskKept DEF IInv, TypeOK
<1>2. QED BY <1>1, FinishKeeps DEF Outcome

\* A step inside an operation keeps the invariant when it keeps what it says
\* of the files and of its own thread.
LEMMA ContinueKeeps ==
  ASSUME IInv, NEW p \in Proc, pc[p] # "idle", NEW stage \in Stage, Continue(p, stage),
         file' \in [Proc -> File \cup {None}], faults' \in Nat,
         body' \subseteq Body, byId' \subseteq File, byRev' \subseteq File,
         byId \subseteq byId', byRev \subseteq byRev',
         head' \in Desc \cup {None}, pending' \in Desc \cup {None},
         DiskInv', ReturnedStaysLoadable', ThreadInv(p)'
  PROVE  IInv'
<1>1. TypeOK'
  BY DEF IInv, TypeOK, Continue, Goto
<1>2. \A q \in Proc : q # p => pc'[q] = "idle"
  BY Alone DEF IInv, TypeOK, Continue, Goto
<1>3. \A q \in Proc : ThreadInv(q)'
  BY <1>2 DEF ThreadInv
<1>4. LockInv'
  BY <1>2, Alone DEF IInv, LockInv, Continue
<1>5. NeverCondemned'
  BY OversizedStays DEF IInv, NeverCondemned, Continue
<1>6. QED BY <1>1, <1>3, <1>4, <1>5 DEF IInv
-----------------------------------------------------------------------------
(* Every action keeps the invariant *)

LEMMA InitEstablishes == Init => IInv
<1>1. SUFFICES ASSUME Init PROVE IInv
  OBVIOUS
<1>2. TypeOK
  BY <1>1 DEF Init, TypeOK, Stage, Outcome
<1>3. DiskInv
  BY <1>1 DEF Init, DiskInv, NamesInv, IndexInv, ChainInv, PendingInv, HeadRev
<1>4. LockInv /\ (\A p \in Proc : ThreadInv(p)) /\ ReturnedStaysLoadable /\ NeverCondemned
  BY <1>1 DEF Init, LockInv, ThreadInv, ReturnedStaysLoadable, NeverCondemned
<1>5. QED BY <1>2, <1>3, <1>4 DEF IInv

LEMMA BeginKeeps ==
  ASSUME IInv, NEW p \in Proc, Begin(p)
  PROVE  IInv'
<1>1. \A q \in Proc : q # p => pc'[q] = "idle"
  BY NoneAssumption DEF IInv, TypeOK, LockInv, Begin, Goto
<1>2. TypeOK'
  BY DEF IInv, TypeOK, Begin, Goto, Stage, Outcome, disk
<1>3. pc'[p] = "recover" /\ op'[p] \in Op /\ lock' = p
  BY DEF IInv, TypeOK, Begin, Goto
<1>4. LockInv' /\ \A q \in Proc : ThreadInv(q)'
  BY <1>1, <1>3 DEF LockInv, ThreadInv
<1>5. NeverCondemned'
  <2>1. Oversized' = Oversized
    BY DEF Begin, disk, Oversized
  <2>2. \A q \in Proc : result'[q] = "integrity" => result[q] = "integrity"
    BY DEF IInv, TypeOK, Begin
  <2>3. QED BY <2>1, <2>2 DEF IInv, NeverCondemned
<1>6. QED BY <1>2, <1>4, <1>5, DiskKept DEF IInv, Begin

LEMMA InspectKeeps ==
  ASSUME IInv, NEW p \in Proc, Inspect(p)
  PROVE  IInv'
<1>1. pc[p] = "recover" /\ UNCHANGED <<disk, faults>>
  BY DEF Inspect, Working
<1>2. DiskInv' /\ (Settled => Settled') /\ op[p] \in Op
  BY <1>1, DiskKept DEF IInv, ThreadInv
<1>3. CASE pending = None /\ Continue(p, "validate") /\ UNCHANGED file
  <2>1. Settled
    BY <1>3, NoneAssumption DEF IInv, TypeOK, File, Desc, DiskInv, IndexInv, Settled, HeadRev
  <2>2. ThreadInv(p)'
    BY <1>2, <1>3, <2>1 DEF ThreadInv, Continue, Goto, IInv, TypeOK
  <2>3. QED
    BY <1>1, <1>2, <1>3, <2>2, DiskKept, ContinueKeeps DEF IInv, TypeOK, disk, Stage, Continue
<1>4. CASE pending # None /\ PendingById \cup PendingByRev = {} /\ Continue(p, "sync_unlink") /\ UNCHANGED file
  <2>1. Settled
    BY <1>4 DEF IInv, TypeOK, File, Desc, DiskInv, IndexInv, Settled, HeadRev, PendingById, SameId
  <2>2. ThreadInv(p)'
    BY <1>2, <1>4, <2>1 DEF ThreadInv, Continue, Goto, IInv, TypeOK
  <2>3. QED
    BY <1>1, <1>2, <1>4, <2>2, DiskKept, ContinueKeeps DEF IInv, TypeOK, disk, Stage, AfterUnlink, Continue
<1>5. CASE /\ pending # None /\ (PendingById = {}) # (PendingByRev = {})
           /\ \E f \in PendingById \cup PendingByRev : file' = [file EXCEPT ![p] = f]
           /\ Continue(p, "relink")
  <2>1. PICK f \in PendingById \cup PendingByRev : file' = [file EXCEPT ![p] = f]
    BY <1>5
  <2>2. f \in byId /\ f.desc = pending
    BY <1>1, <1>5, PendingFound DEF IInv
  <2>3. f \notin byRev /\ f.desc.rev = HeadRev + 1
    BY <2>2, <1>5 DEF PendingById, PendingByRev, SameId, SameRev, IInv, DiskInv, IndexInv
  <2>4. ThreadInv(p)'
    BY <1>1, <1>2, <1>5, <2>1, <2>2, <2>3 DEF ThreadInv, Continue, Goto, IInv, TypeOK, disk, HeadRev
  <2>5. QED
    BY <1>1, <1>2, <1>5, <2>1, <2>2, <2>4, DiskKept, ContinueKeeps
    DEF IInv, TypeOK, disk, Stage, Continue
<1>6. ASSUME pending # None, PendingById # {}, PendingByRev # {},
             NEW f \in PendingById, file' = [file EXCEPT ![p] = f],
             IF HeadRev < f.desc.rev \/ head.req.id # f.desc.req.id
             THEN Continue(p, "sync_head") ELSE Continue(p, "sync_unlink")
      PROVE  IInv'
  <2>1. f \in byId /\ f \in byRev /\ f.desc = pending
    BY <1>6, PendingFound DEF IInv, PendingByRev, SameRev
  <2>2. CASE Continue(p, "sync_head")
    <3>1. f.desc.rev = HeadRev + 1
      BY <1>6, <2>1, <2>2, HeadRecord
      DEF IInv, TypeOK, DiskInv, PendingInv, IndexInv, File, Desc, HeadRev, Continue, Goto
    <3>2. ThreadInv(p)'
      BY <1>1, <1>2, <1>6, <2>1, <2>2, <3>1 DEF ThreadInv, Complete, Continue, Goto, IInv, TypeOK, disk, HeadRev
    <3>3. QED
      BY <1>1, <1>2, <1>6, <2>1, <2>2, <3>2, DiskKept, ContinueKeeps
      DEF IInv, TypeOK, disk, Stage, AfterHead, Continue
  <2>3. CASE HeadRev >= f.desc.rev /\ Continue(p, "sync_unlink")
    <3>1. pending = head
      BY <1>6, <2>1, <2>3 DEF IInv, TypeOK, DiskInv, PendingInv, Desc, HeadRev
    <3>2. Settled
      BY <1>6, <3>1 DEF IInv, TypeOK, File, Desc, DiskInv, IndexInv, Settled, HeadRev
    <3>3. ThreadInv(p)'
      BY <1>2, <2>3, <3>2 DEF ThreadInv, Continue, Goto, IInv, TypeOK
    <3>4. QED
      BY <1>1, <1>2, <1>6, <2>1, <2>3, <3>3, DiskKept, ContinueKeeps
      DEF IInv, TypeOK, disk, Stage, AfterUnlink, Continue
  <2>4. QED
    BY <1>6, <2>1, <2>2, <2>3 DEF IInv, TypeOK, File, Desc, HeadRev
<1>7. CASE DiskRejected
  <2>1. Oversized # {}
    BY <1>7, DiskAccepted DEF IInv
  <2>2. QED BY <1>1, <1>7, <2>1, RejectKeeps DEF Inspect
<1>8. QED
  BY <1>1, <1>3, <1>4, <1>5, <1>6, <1>7 DEF Inspect

\* The second link of the pending record, made by save or by recovery.
LEMMA LinkRevision ==
  ASSUME TypeOK, DiskInv, ReturnedStaysLoadable,
         NEW f \in byId, f.desc = pending, f.desc.rev = HeadRev + 1,
         byRev' = byRev \cup {f}, UNCHANGED <<body, byId, head, pending, returned>>
  PROVE  DiskInv' /\ Complete(f)' /\ ReturnedStaysLoadable'
<1>1. HeadRev' = HeadRev /\ pending # None
  BY NoneAssumption DEF HeadRev, TypeOK, File
<1>2. NamesInv'
  <2>1. ASSUME NEW g \in byRev, g.desc.rev = f.desc.rev PROVE g = f
    <3>1. g \in byId /\ g.desc = pending
      BY <2>1 DEF DiskInv, IndexInv, TypeOK, File, Desc, HeadRev
    <3>2. QED BY <3>1 DEF DiskInv, NamesInv
  <2>2. QED BY <2>1 DEF DiskInv, NamesInv
<1>3. IndexInv'
  BY <1>1 DEF DiskInv, IndexInv, BodyPresent
<1>4. ChainInv'
  BY <1>1 DEF DiskInv, ChainInv, Follows
<1>5. PendingInv'
  BY <1>1 DEF DiskInv, PendingInv
<1>6. Complete(f)'
  BY <1>1 DEF Complete
<1>7. ReturnedStaysLoadable'
  BY <1>1 DEF ReturnedStaysLoadable, BodyPresent
<1>8. QED BY <1>2, <1>3, <1>4, <1>5, <1>6, <1>7 DEF DiskInv

LEMMA RelinkKeeps ==
  ASSUME IInv, NEW p \in Proc, Relink(p)
  PROVE  IInv'
<1>1. /\ pc[p] = "relink" /\ op[p] \in Op
      /\ file[p] \in byId /\ file[p].desc = pending /\ file[p].desc.rev = HeadRev + 1
  BY DEF IInv, ThreadInv, Relink, Working
<1>2. /\ byId' = byId /\ byRev' = byRev \cup {file[p]}
      /\ UNCHANGED <<body, head, pending, returned, file, op, faults>>
      /\ Continue(p, "relink_head")
  BY <1>1 DEF Relink, Working, Continue
<1>3. DiskInv' /\ Complete(file[p])' /\ ReturnedStaysLoadable'
  BY <1>1, <1>2, LinkRevision DEF IInv
<1>4. ThreadInv(p)'
  BY <1>1, <1>2, <1>3 DEF ThreadInv, IInv, TypeOK, Continue, Goto
<1>5. QED
  BY <1>1, <1>2, <1>3, <1>4, ContinueKeeps DEF IInv, TypeOK, Stage

\* The head moves to the next record: what was committed stays so, and the
\* intent is carried out.
LEMMA MoveHead ==
  ASSUME TypeOK, DiskInv, ReturnedStaysLoadable, NEW f, Complete(f),
         head' = f.desc, UNCHANGED <<body, byId, byRev, pending, returned>>
  PROVE  /\ DiskInv' /\ Settled' /\ ReturnedStaysLoadable'
         /\ HeadRev' = HeadRev + 1
<1>1. f \in byRev /\ f \in byId /\ f.desc = pending /\ f.desc \in Desc /\ f.desc.rev = HeadRev + 1
  BY DEF Complete, DiskInv, IndexInv, TypeOK, File
<1>2. HeadRev' = HeadRev + 1 /\ HeadRev \in Nat
  BY <1>1, NoneAssumption DEF HeadRev, TypeOK, Desc
<1>3. ASSUME NEW g \in byId PROVE g \in byRev /\ g.desc.rev <= HeadRev + 1
  <2>1. CASE g.desc.rev <= HeadRev
    BY <1>2, <2>1 DEF DiskInv, IndexInv, TypeOK, File, Desc
  <2>2. CASE g.desc = pending
    BY <1>1, <1>2, <2>2 DEF DiskInv, NamesInv
  <2>3. QED BY <2>1, <2>2 DEF DiskInv, IndexInv
<1>4. NamesInv' /\ IndexInv' /\ Settled'
  BY <1>2, <1>3 DEF DiskInv, NamesInv, IndexInv, BodyPresent, Settled
<1>5. ChainInv'
  <2>1. \A g \in byId : Follows(g.desc)'
    BY DEF DiskInv, ChainInv, Follows
  <2>2. \A n \in 1..(HeadRev + 1) : \E g \in byRev : g.desc.rev = n
    BY <1>1, <1>2 DEF DiskInv, ChainInv
  <2>3. QED BY <1>1, <1>2, <2>1, <2>2 DEF ChainInv
<1>6. PendingInv'
  BY <1>1 DEF PendingInv
<1>7. ReturnedStaysLoadable'
  BY <1>2 DEF ReturnedStaysLoadable, BodyPresent, TypeOK, Desc
<1>8. QED BY <1>2, <1>4, <1>5, <1>6, <1>7 DEF DiskInv

LEMMA WriteHeadKeeps ==
  ASSUME IInv, NEW p \in Proc, WriteHead(p)
  PROVE  IInv'
<1>1. pc[p] \in {"relink_head", "sync_head", "save_head"}
  BY DEF WriteHead, AfterHead
<1>2. /\ AfterHead[pc[p]] \in {"relink_unlink", "sync_unlink", "save_unlink"}
      /\ AfterHead[pc[p]] = "save_unlink" => pc[p] = "save_head"
  BY <1>1 DEF AfterHead
<1>3. Complete(file[p]) /\ op[p] \in Op
  BY <1>1 DEF IInv, ThreadInv
<1>4. /\ head' = file[p].desc /\ Continue(p, AfterHead[pc[p]])
      /\ UNCHANGED <<body, byId, byRev, pending, file, faults, returned, op>>
  BY DEF WriteHead, Continue
<1>5. DiskInv' /\ Settled' /\ ReturnedStaysLoadable'
  BY <1>3, <1>4, MoveHead DEF IInv
<1>6. file[p] \in byRev /\ file[p].desc \in Desc
  BY <1>3 DEF Complete, IInv, TypeOK, File
<1>7. ThreadInv(p)'
  BY <1>2, <1>3, <1>4, <1>5, <1>6 DEF ThreadInv, IInv, TypeOK, Continue, Goto
<1>8. QED
  BY <1>1, <1>2, <1>4, <1>5, <1>6, <1>7, ContinueKeeps DEF IInv, TypeOK, Stage

LEMMA UnlinkPendingKeeps ==
  ASSUME IInv, NEW p \in Proc, UnlinkPending(p)
  PROVE  IInv'
<1>1. pc[p] \in {"relink_unlink", "sync_unlink", "save_unlink"}
  BY DEF UnlinkPending, AfterUnlink
<1>2. /\ AfterUnlink[pc[p]] \in {"act", "validate", "reply"}
      /\ AfterUnlink[pc[p]] = "reply" => pc[p] = "save_unlink"
  BY <1>1 DEF AfterUnlink
<1>3. Settled /\ op[p] \in Op /\ (pc[p] = "save_unlink" => file[p] \in byRev /\ file[p].desc = head)
  BY <1>1 DEF IInv, ThreadInv
<1>4. /\ pending' \in {None, pending} /\ faults' \in Nat
      /\ Continue(p, AfterUnlink[pc[p]])
      /\ UNCHANGED <<body, byId, byRev, head, file, returned, op>>
  BY DEF UnlinkPending, Continue, IInv, TypeOK
<1>5. HeadRev' = HeadRev /\ Settled'
  BY <1>3, <1>4 DEF HeadRev, Settled
<1>6. DiskInv'
  <2>1. \A f \in byId : f \in byRev /\ f.desc.rev <= HeadRev
    BY <1>3, SettledIsExact DEF IInv
  <2>2. NamesInv' /\ ChainInv'
    BY <1>4, <1>5 DEF IInv, DiskInv, NamesInv, ChainInv, Follows
  <2>3. IndexInv'
    BY <1>4, <1>5, <2>1 DEF IInv, DiskInv, IndexInv, BodyPresent
  <2>4. PendingInv'
    BY <1>4, <1>5 DEF IInv, DiskInv, PendingInv
  <2>5. QED BY <2>2, <2>3, <2>4 DEF DiskInv
<1>7. ReturnedStaysLoadable'
  BY <1>4, <1>5 DEF IInv, ReturnedStaysLoadable, BodyPresent
<1>8. ThreadInv(p)'
  BY <1>2, <1>3, <1>4, <1>5 DEF ThreadInv, IInv, TypeOK, Continue, Goto
<1>9. QED
  BY <1>1, <1>2, <1>4, <1>6, <1>7, <1>8, ContinueKeeps DEF IInv, TypeOK, Stage

LEMMA ValidateKeeps ==
  ASSUME IInv, NEW p \in Proc, Validate(p)
  PROVE  IInv'
<1>1. pc[p] = "validate" /\ Settled /\ op[p] \in Op
  BY DEF IInv, ThreadInv, Validate, Working
<1>2. CASE head # None /\ ~ChainValid(head)
  <2>1. Oversized # {}
    BY <1>2, ChainAccepted DEF IInv
  <2>2. QED BY <1>1, <1>2, <2>1, RejectKeeps DEF Validate, Working
<1>3. CASE ~(head # None /\ ~ChainValid(head))
  <2>1. Continue(p, "act") /\ UNCHANGED <<disk, file, faults, returned, op>>
    BY <1>3 DEF Validate, Working, Continue
  <2>2. DiskInv' /\ Settled' /\ ReturnedStaysLoadable'
    BY <1>1, <2>1, DiskKept DEF IInv
  <2>3. ThreadInv(p)'
    BY <1>1, <2>1, <2>2 DEF ThreadInv, IInv, TypeOK, Continue, Goto
  <2>4. QED
    BY <1>1, <2>1, <2>2, <2>3, ContinueKeeps DEF IInv, TypeOK, Stage, disk
<1>4. QED BY <1>2, <1>3

\* More bodies, and every other file as before, keep what the invariant says
\* of the files and of a thread that stays where it is.
LEMMA BodyGrows ==
  ASSUME IInv, body \subseteq body', UNCHANGED <<byId, byRev, head, pending, returned>>
  PROVE  /\ DiskInv' /\ ReturnedStaysLoadable' /\ (Settled => Settled') /\ HeadRev' = HeadRev
         /\ \A f \in File : Fresh(f) => Fresh(f)'
<1>1. HeadRev' = HeadRev
  BY DEF HeadRev
<1>2. DiskInv'
  BY <1>1 DEF IInv, DiskInv, NamesInv, IndexInv, ChainInv, Follows, PendingInv, BodyPresent
<1>3. ReturnedStaysLoadable'
  BY <1>1 DEF IInv, ReturnedStaysLoadable, BodyPresent
<1>4. QED
  BY <1>1, <1>2, <1>3 DEF Settled, Fresh, Follows, SameId

LEMMA SaveDecideKeeps ==
  ASSUME IInv, NEW p \in Proc, SaveDecide(p)
  PROVE  IInv'
<1>1. /\ pc[p] = "act" /\ Settled /\ op[p] \in Op /\ op[p].kind = "save"
      /\ UNCHANGED <<disk, faults>>
  BY DEF IInv, ThreadInv, SaveDecide, Working
<1>2. op[p].req \in Request
  BY <1>1 DEF Op
<1>3. byId = byRev /\ (\A f \in byId : BodyPresent(f)) /\ DiskInv' /\ Settled' /\ HeadRev' = HeadRev
  BY <1>1, SettledIsExact, DiskKept DEF IInv, DiskInv, IndexInv, disk, HeadRev
<1>4. ASSUME NEW f \in Existing(op[p].req), f.desc.req = op[p].req,
             Finish(p, "ok"), returned' = returned \cup {f.desc}
      PROVE  IInv'
  <2>1. f \in byId \cap byRev /\ f.desc.rev <= HeadRev /\ BodyPresent(f) /\ f.desc \in Desc
    BY <1>1, <1>3 DEF Existing, SameId, Settled, IInv, TypeOK, File
  <2>2. ReturnedStaysLoadable' /\ returned' \subseteq Desc
    BY <1>1, <1>3, <1>4, <2>1 DEF IInv, TypeOK, ReturnedStaysLoadable, BodyPresent, disk
  <2>3. QED
    BY <1>1, <1>4, <2>2, FinishKeeps DEF IInv, TypeOK, Outcome
<1>5. ASSUME Finish(p, "conflict") \/ Finish(p, "stale_parent"), UNCHANGED returned
      PROVE  IInv'
  <2>1. ReturnedStaysLoadable' /\ returned' \subseteq Desc /\ faults' \in Nat
    BY <1>1, <1>5, DiskKept DEF IInv, TypeOK
  <2>2. QED
    BY <1>1, <1>5, <2>1, FinishKeeps DEF Outcome
<1>6. ASSUME Existing(op[p].req) = {}, ParentIsHead(op[p].req), NEW n \in Inode,
             file' = [file EXCEPT ![p] = [desc |-> Descriptor(op[p].req), ino |-> n]],
             Continue(p, "body")
      PROVE  IInv'
  <2> DEFINE d == Descriptor(op[p].req)
  <2>1. HeadRev \in Nat /\ d \in Desc /\ d.req = op[p].req /\ d.rev = HeadRev + 1
    BY <1>2 DEF IInv, TypeOK, HeadRev, Desc, Descriptor
  <2>2. Follows(d)
    <3>1. CASE head = None
      BY <1>6, <2>1, <3>1 DEF Follows, ParentIsHead, HeadRev
    <3>2. CASE head # None
      <4>1. head \in Desc /\ HeadRev = head.rev /\ \E g \in byRev : g.desc = head
        BY <3>2, HeadRecord DEF IInv
      <4>2. QED BY <1>6, <2>1, <3>2, <4>1 DEF Follows, ParentIsHead, Desc
    <3>3. QED BY <3>1, <3>2
  <2>3. file'[p] = [desc |-> d, ino |-> n] /\ file' \in [Proc -> File \cup {None}]
    BY <1>6, <2>1 DEF IInv, TypeOK, File
  <2>4. Fresh(file[p])'
    BY <1>1, <1>3, <1>6, <2>1, <2>2, <2>3
    DEF Fresh, Follows, SameId, Existing, File, disk
  <2>5. ThreadInv(p)'
    BY <1>1, <1>3, <1>6, <2>1, <2>3, <2>4 DEF ThreadInv, IInv, TypeOK, Continue, Goto
  <2>6. ReturnedStaysLoadable'
    BY <1>1, <1>6, DiskKept DEF IInv, Continue
  <2>7. QED
    BY <1>1, <1>3, <1>6, <2>3, <2>5, <2>6, ContinueKeeps DEF IInv, TypeOK, Stage, disk
<1>7. ASSUME NEW f \in Existing(op[p].req), ~Intact(f), Finish(p, "integrity"), UNCHANGED returned
      PROVE  IInv'
  <2>1. Oversized # {}
    BY <1>7, AllIntact DEF IInv, Existing, SameId
  <2>2. QED BY <1>1, <1>7, <2>1, RejectKeeps
<1>8. QED
  BY <1>4, <1>5, <1>6, <1>7 DEF SaveDecide

LEMMA PublishBodyKeeps ==
  ASSUME IInv, NEW p \in Proc, PublishBody(p)
  PROVE  IInv'
<1>1. /\ pc[p] = "body" /\ Settled /\ Fresh(file[p]) /\ file[p] \in File /\ op[p] \in Op
      /\ file[p].desc.req = op[p].req
  BY DEF IInv, ThreadInv, PublishBody, Working, Fresh
<1>2. /\ body' = body \cup {file[p].desc.req.body} /\ Continue(p, "intend")
      /\ UNCHANGED <<byId, byRev, head, pending, file, faults, returned, op>>
  BY DEF PublishBody, Working, Continue
<1>3. body' \subseteq Body
  BY <1>1, <1>2 DEF IInv, TypeOK, File, Desc, Body
<1>4. DiskInv' /\ ReturnedStaysLoadable' /\ Settled' /\ Fresh(file[p])'
  BY <1>1, <1>2, BodyGrows
<1>5. BodyPresent(file[p])'
  BY <1>2 DEF BodyPresent
<1>6. ThreadInv(p)'
  BY <1>1, <1>2, <1>4, <1>5 DEF ThreadInv, IInv, TypeOK, Continue, Goto
<1>7. QED
  BY <1>1, <1>2, <1>3, <1>4, <1>6, ContinueKeeps DEF IInv, TypeOK, Stage

LEMMA WritePendingKeeps ==
  ASSUME IInv, NEW p \in Proc, WritePending(p)
  PROVE  IInv'
<1>1. /\ pc[p] = "intend" /\ Settled /\ op[p] \in Op
      /\ Fresh(file[p]) /\ file[p] \in File /\ BodyPresent(file[p])
      /\ file[p].desc.req = op[p].req
      /\ UNCHANGED <<body, byId, byRev, head, faults>>
  BY DEF IInv, ThreadInv, WritePending, Working, Fresh
<1>2. CASE Finish(p, "pending_conflict") /\ UNCHANGED <<pending, returned>>
  BY <1>1, <1>2, DiskKept, FinishKeeps DEF IInv, TypeOK, Outcome, disk
<1>3. CASE pending' = file[p].desc /\ Continue(p, "link_id") /\ UNCHANGED file
  <2>1. HeadRev' = HeadRev /\ file[p].desc \in Desc
    BY <1>1 DEF HeadRev, File
  <2>2. \A f \in byId : f \in byRev /\ f.desc.rev <= HeadRev
    BY <1>1, SettledIsExact DEF IInv
  <2>3. NamesInv' /\ IndexInv' /\ ChainInv'
    BY <1>1, <2>1, <2>2 DEF IInv, DiskInv, NamesInv, IndexInv, ChainInv, Follows, BodyPresent
  <2>4. PendingInv'
    BY <1>1, <1>3, <2>1 DEF PendingInv, Fresh, SameId
  <2>5. ReturnedStaysLoadable' /\ UNCHANGED returned
    BY <1>1, <1>3, <2>1 DEF IInv, ReturnedStaysLoadable, BodyPresent, Continue
  <2>6. Settled' /\ Fresh(file[p])' /\ BodyPresent(file[p])'
    BY <1>1, <1>3, <2>1 DEF Settled, Fresh, Follows, SameId, BodyPresent
  <2>7. ThreadInv(p)'
    BY <1>1, <1>3, <2>6 DEF ThreadInv, IInv, TypeOK, Continue, Goto
  <2>8. QED
    BY <1>1, <1>3, <2>1, <2>3, <2>4, <2>5, <2>7, ContinueKeeps DEF IInv, TypeOK, Stage, DiskInv
<1>4. QED BY <1>2, <1>3 DEF WritePending

LEMMA LinkByIdKeeps ==
  ASSUME IInv, NEW p \in Proc, LinkById(p)
  PROVE  IInv'
<1>1. /\ pc[p] = "link_id" /\ Settled /\ op[p] \in Op
      /\ Fresh(file[p]) /\ file[p] \in File /\ BodyPresent(file[p])
      /\ file[p].desc.req = op[p].req
      /\ pending = file[p].desc /\ file[p].desc.rev = HeadRev + 1
      /\ SameId(byId, file[p].desc.req.id) = {}
  BY DEF IInv, ThreadInv, LinkById, Working, Fresh
<1>2. /\ byId' = byId \cup {file[p]} /\ Continue(p, "link_rev")
      /\ UNCHANGED <<body, byRev, head, pending, file, faults, returned, op>>
  BY <1>1 DEF LinkById, Working, Continue
<1>3. HeadRev' = HeadRev /\ HeadRev \in Nat
  BY <1>2 DEF HeadRev, IInv, TypeOK, Desc
<1>4. file[p] \notin byId /\ \A f \in byId : f.desc.req.id # file[p].desc.req.id
  BY <1>1 DEF SameId
<1>5. NamesInv' /\ IndexInv'
  BY <1>1, <1>2, <1>3, <1>4 DEF IInv, DiskInv, NamesInv, IndexInv, BodyPresent
<1>6. ChainInv'
  <2>1. /\ head # None => \E f \in byRev : f.desc = head
        /\ \A n \in 1..HeadRev : \E f \in byRev : f.desc.rev = n
        /\ \A f \in byId : Follows(f.desc)
    BY DEF IInv, DiskInv, ChainInv
  <2>2. \A f \in byId \cup {file[p]} : Follows(f.desc)
    BY <1>1, <2>1 DEF Fresh
  <2>3. \A f \in byId' : Follows(f.desc)'
    BY <1>2, <2>2 DEF Follows
  <2>4. QED BY <1>2, <1>3, <2>1, <2>3 DEF ChainInv
<1>7. PendingInv'
  BY <1>1, <1>2, <1>3, <1>4 DEF PendingInv
<1>8. ReturnedStaysLoadable'
  BY <1>2, <1>3 DEF IInv, ReturnedStaysLoadable, BodyPresent
<1>9. file[p] \in byId' \ byRev'
  BY <1>2, <1>4 DEF IInv, DiskInv, IndexInv
<1>10. ThreadInv(p)'
  BY <1>1, <1>2, <1>3, <1>9 DEF ThreadInv, IInv, TypeOK, Continue, Goto
<1>11. QED
  BY <1>1, <1>2, <1>5, <1>6, <1>7, <1>8, <1>10, ContinueKeeps DEF IInv, TypeOK, Stage, DiskInv

\* The revision of the announced record is free: a record that had it would
\* be that record.
LEMMA RevisionFree ==
  ASSUME TypeOK, DiskInv, NEW f \in byId \ byRev, f.desc = pending, f.desc.rev = HeadRev + 1
  PROVE  SameRev(byRev, f.desc.rev) = {}
<1>1. SUFFICES ASSUME NEW g \in byRev, g.desc.rev = HeadRev + 1 PROVE FALSE
  BY DEF SameRev
<1>2. g \in byId /\ g.desc = pending
  BY <1>1 DEF DiskInv, IndexInv, TypeOK, File, Desc, HeadRev
<1>3. QED BY <1>1, <1>2 DEF DiskInv, NamesInv

LEMMA LinkByRevisionKeeps ==
  ASSUME IInv, NEW p \in Proc, LinkByRevision(p)
  PROVE  IInv'
<1>1. /\ pc[p] = "link_rev" /\ op[p] \in Op
      /\ file[p] \in byId \ byRev /\ file[p].desc = pending /\ file[p].desc.rev = HeadRev + 1
  BY DEF IInv, ThreadInv, LinkByRevision, Working
<1>2. SameRev(byRev, file[p].desc.rev) = {}
  BY <1>1, RevisionFree DEF IInv
<1>3. /\ byRev' = byRev \cup {file[p]} /\ Continue(p, "save_head")
      /\ UNCHANGED <<body, byId, head, pending, file, faults, returned, op>>
  BY <1>2 DEF LinkByRevision, Working, Continue
<1>4. DiskInv' /\ Complete(file[p])' /\ ReturnedStaysLoadable'
  BY <1>1, <1>3, LinkRevision DEF IInv
<1>5. ThreadInv(p)'
  BY <1>1, <1>3, <1>4 DEF ThreadInv, IInv, TypeOK, Continue, Goto
<1>6. QED
  BY <1>1, <1>3, <1>4, <1>5, ContinueKeeps DEF IInv, TypeOK, Stage

LEMMA SaveReplyKeeps ==
  ASSUME IInv, NEW p \in Proc, SaveReply(p)
  PROVE  IInv'
<1>1. /\ pc[p] = "reply" /\ Settled /\ file[p] \in byRev
      /\ Finish(p, "ok") /\ returned' = returned \cup {file[p].desc}
      /\ UNCHANGED <<disk, faults>>
  BY DEF IInv, ThreadInv, SaveReply, Working
<1>2. file[p] \in byId /\ file[p].desc.rev <= HeadRev /\ BodyPresent(file[p]) /\ file[p].desc \in Desc
  BY <1>1 DEF IInv, DiskInv, IndexInv, Settled, TypeOK, File
<1>3. ReturnedStaysLoadable' /\ returned' \subseteq Desc
  BY <1>1, <1>2 DEF IInv, TypeOK, ReturnedStaysLoadable, BodyPresent, disk, HeadRev
<1>4. QED
  BY <1>1, <1>3, FinishKeeps DEF IInv, TypeOK, Outcome

LEMMA ReadKeeps ==
  ASSUME IInv, NEW p \in Proc, Read(p)
  PROVE  IInv'
<1>1. /\ pc[p] = "act" /\ Settled /\ op[p] \in Op /\ op[p].kind # "save"
      /\ UNCHANGED <<disk, faults>>
  BY DEF IInv, ThreadInv, Read, Working
<1>2. CASE AnswerRejected(op[p])
  <2>1. Oversized # {}
    BY <1>1, <1>2, ReadAccepted DEF IInv
  <2>2. QED BY <1>1, <1>2, <2>1, RejectKeeps DEF Read
<1>3. CASE ~AnswerRejected(op[p])
  <2>1. /\ Finish(p, "absent") \/ Finish(p, "ok")
        /\ returned' = returned \cup {f.desc : f \in Answer(op[p])}
    BY <1>3 DEF Read
  <2>2. \A f \in Answer(op[p]) : /\ f \in byId \cap byRev /\ f.desc.rev <= HeadRev
                                 /\ BodyPresent(f) /\ f.desc \in Desc
    BY <1>1, AnswerIsLinked DEF IInv, DiskInv, IndexInv, Settled, TypeOK, File
  <2>3. ReturnedStaysLoadable' /\ returned' \subseteq Desc
    BY <1>1, <2>1, <2>2 DEF IInv, TypeOK, ReturnedStaysLoadable, BodyPresent, disk, HeadRev
  <2>4. QED
    BY <1>1, <2>1, <2>3, FinishKeeps DEF IInv, TypeOK, Outcome
<1>4. QED BY <1>2, <1>3

LEMMA InterruptKeeps ==
  ASSUME IInv, NEW p \in Proc, Interrupt(p)
  PROVE  IInv'
<1>1. ReturnedStaysLoadable' /\ returned' \subseteq Desc /\ faults' \in Nat
  BY DiskKept DEF IInv, TypeOK, Interrupt
<1>2. QED
  BY <1>1, FinishKeeps DEF Interrupt, Outcome

LEMMA PublishElsewhereKeeps ==
  ASSUME IInv, PublishElsewhere \/ UNCHANGED vars
  PROVE  IInv'
<1>1. /\ body \subseteq body' /\ body' \subseteq Body
      /\ UNCHANGED <<byId, byRev, head, pending, lock, pc, op, file, result, returned, faults>>
  BY DEF PublishElsewhere, vars, IInv, TypeOK
<1>2. /\ DiskInv' /\ ReturnedStaysLoadable' /\ (Settled => Settled') /\ HeadRev' = HeadRev
      /\ \A f \in File : Fresh(f) => Fresh(f)'
  BY <1>1, BodyGrows
<1>3. ASSUME NEW p \in Proc PROVE ThreadInv(p)'
  <2>1. ThreadInv(p)
    BY DEF IInv
  <2>2. /\ Complete(file[p]) => Complete(file[p])'
        /\ Fresh(file[p]) => Fresh(file[p])'
        /\ BodyPresent(file[p]) => BodyPresent(file[p])'
    BY <1>1, <1>2 DEF Complete, BodyPresent, Fresh
  <2>3. QED BY <1>1, <1>2, <2>1, <2>2 DEF ThreadInv
<1>4. TypeOK' /\ LockInv' /\ NeverCondemned'
  BY <1>1 DEF IInv, TypeOK, LockInv, NeverCondemned, Oversized
<1>5. QED BY <1>2, <1>3, <1>4 DEF IInv

LEMMA NextKeeps == IInv /\ [Next]_vars => IInv'
<1>1. SUFFICES ASSUME IInv, [Next]_vars PROVE IInv'
  OBVIOUS
<1>2. ASSUME NEW p \in Proc, Step(p) PROVE IInv'
  BY <1>1, <1>2, InspectKeeps, RelinkKeeps, WriteHeadKeeps, UnlinkPendingKeeps, ValidateKeeps,
     SaveDecideKeeps, PublishBodyKeeps, WritePendingKeeps, LinkByIdKeeps,
     LinkByRevisionKeeps, SaveReplyKeeps, ReadKeeps DEF Step
<1>3. QED
  BY <1>1, <1>2, BeginKeeps, InterruptKeeps, PublishElsewhereKeeps DEF Next

-----------------------------------------------------------------------------
(* The theorems *)

\* The inductive invariant holds of every reachable state.
THEOREM Invariance == Spec => []IInv
<1>1. QED BY InitEstablishes, NextKeeps, PTL DEF Spec

\* Every variable keeps to its type; in particular every revision a thread
\* computes is a positive one.
THEOREM TypeCorrect == Spec => []TypeOK
<1>1. QED BY Invariance, PTL DEF IInv

\* What save or a read has returned stays loadable for ever, through any
\* number of crashes, repairs and later operations.
THEOREM Durability == Spec => []ReturnedStaysLoadable
<1>1. QED BY Invariance, PTL DEF IInv

\* No crash point makes a later operation report an integrity error, as long
\* as no record is too long to be read.
THEOREM NoFalseAlarm == Spec => []NeverCondemned
<1>1. QED BY Invariance, PTL DEF IInv

\* After its recovery an operation sees the committed chain in both indexes
\* and nothing else.
THEOREM RecoveryIsExact == Spec => []RecoveredIsExact
<1>1. IInv => RecoveredIsExact
  BY SettledIsExact DEF IInv, ThreadInv, RecoveredIsExact
<1>2. QED BY <1>1, Invariance, PTL

\* The names save links under are free when it links them: the branches of
\* save that find them taken are dead under the stream lock.
THEOREM LinksNeverCollide == Spec => []NoLostRace
<1>1. ASSUME IInv, NEW p \in Proc, pc[p] = "link_id"
      PROVE  SameId(byId, file[p].desc.req.id) = {} /\ SameRev(byRev, file[p].desc.rev) = {}
  <2>1. Settled /\ Fresh(file[p])
    BY <1>1 DEF IInv, ThreadInv
  <2>2. \A f \in byRev : f.desc.rev <= HeadRev
    BY <1>1, <2>1, SettledIsExact DEF IInv
  <2>3. QED
    BY <1>1, <2>1, <2>2 DEF Fresh, SameRev, IInv, TypeOK, HeadRev, Desc
<1>2. ASSUME IInv, NEW p \in Proc, pc[p] = "link_rev"
      PROVE  SameRev(byRev, file[p].desc.rev) = {}
  BY <1>2, RevisionFree DEF IInv, ThreadInv
<1>3. IInv => NoLostRace
  BY <1>1, <1>2 DEF NoLostRace
<1>4. QED BY <1>3, Invariance, PTL

\* A repeated request that is already committed ends in success unless a new
\* fault interrupts it or a record is too long to be read.
THEOREM RetryIdempotence == Spec => RetryIsIdempotent
<1> DEFINE Ends(p) == pc[p] # "idle" /\ pc'[p] = "idle"
           Repeats(p) == op[p].kind = "save" /\ \E d \in Committed : d.req = op[p].req
           Ok(p) == result'[p] \in {"ok", "io_error", "crashed"} \/ Oversized # {}
<1>1. ASSUME IInv, NEW p \in Proc, Repeats(p)
      PROVE  \E f \in byId : f.desc.req = op[p].req
  BY <1>1 DEF Committed, IInv, DiskInv, IndexInv
<1>2. ASSUME IInv, Next, NEW p \in Proc, Ends(p), Repeats(p), Oversized = {}
      PROVE  Ok(p)
  <2>1. Step(p) \/ Interrupt(p)
    <3>1. ASSUME NEW q \in Proc, q # p, Begin(q) \/ Step(q) \/ Interrupt(q)
          PROVE  pc'[p] = pc[p]
      BY <1>2, <3>1 DEF IInv, TypeOK, Begin, Step, Interrupt, Inspect, Relink, WriteHead,
         UnlinkPending, Validate, SaveDecide, PublishBody, WritePending, LinkById,
         LinkByRevision, SaveReply, Read, Finish, Continue, Goto
    <3>2. ~Begin(p) /\ ~PublishElsewhere
      BY <1>2 DEF Begin, PublishElsewhere
    <3>3. QED BY <1>2, <3>1, <3>2 DEF Next
  <2>2. PICK f \in byId : f.desc.req = op[p].req
    BY <1>1, <1>2
  <2>3. ~ \E stage \in Stage \ {"idle"} : Continue(p, stage)
    BY <1>2 DEF IInv, TypeOK, Continue, Goto
  <2>4. CASE Interrupt(p) \/ SaveReply(p)
    BY <1>2, <2>4 DEF Interrupt, SaveReply, Finish, IInv, TypeOK
  <2>5. CASE SaveDecide(p)
    <3>1. f \in Existing(op[p].req) /\ \A g \in Existing(op[p].req) : g = f
      BY <1>2, <2>2 DEF Existing, SameId, IInv, DiskInv, NamesInv
    <3>2. Intact(f)
      BY <1>2, AllIntact DEF IInv
    <3>3. Finish(p, "ok")
      BY <1>2, <2>2, <2>3, <2>5, <3>1, <3>2 DEF SaveDecide, Stage
    <3>4. QED BY <1>2, <3>3 DEF Finish, IInv, TypeOK
  <2>6. ~WritePending(p) /\ ~LinkById(p)
    <3>1. pc[p] \in {"intend", "link_id"} => f.desc.req.id # op[p].req.id
      BY <1>2, <2>2 DEF IInv, ThreadInv, Fresh, SameId
    <3>2. QED BY <2>2, <3>1 DEF WritePending, LinkById, Working
  <2>7. ~Inspect(p) /\ ~Validate(p) /\ ~LinkByRevision(p)
    <3>1. ~DiskRejected /\ (head # None => ChainValid(head))
      BY <1>2, DiskAccepted, ChainAccepted DEF IInv
    <3>2. pc[p] = "link_rev" => SameRev(byRev, file[p].desc.rev) = {}
      BY <1>2, RevisionFree DEF IInv, ThreadInv
    <3>3. QED BY <2>3, <3>1, <3>2 DEF Inspect, Validate, LinkByRevision, Working, Stage
  <2>8. ~Relink(p) /\ ~WriteHead(p) /\ ~UnlinkPending(p) /\ ~PublishBody(p)
    BY <2>3 DEF Relink, WriteHead, UnlinkPending, PublishBody, AfterHead, AfterUnlink, Stage
  <2>9. ~Read(p)
    BY <1>2 DEF Read
  <2>10. QED BY <2>1, <2>4, <2>5, <2>6, <2>7, <2>8, <2>9 DEF Step
<1>3. ASSUME IInv, [Next]_vars, NEW p \in Proc, Ends(p), Repeats(p)
      PROVE  Ok(p)
  BY <1>2, <1>3 DEF vars
<1>4. IInv /\ [Next]_vars =>
        [\A p \in Proc :
           /\ pc[p] # "idle" /\ pc'[p] = "idle"
           /\ op[p].kind = "save"
           /\ \E d \in Committed : d.req = op[p].req
           => result'[p] \in {"ok", "io_error", "crashed"} \/ Oversized # {}]_vars
  BY <1>3
<1>5. QED BY <1>4, Invariance, PTL DEF Spec, RetryIsIdempotent

-----------------------------------------------------------------------------
(* The file store implements the append-only stream *)

\* Returning committed versions is what the abstract stream allows.
LEMMA ReturnMaps ==
  ASSUME NEW V \in SUBSET Committed, UNCHANGED disk, returned' = returned \cup V
  PROVE  Stream!Next
<1>1. Committed' = Committed /\ head' = head
  BY DEF disk, Committed, HeadRev
<1>2. QED BY <1>1 DEF Stream!Next, Stream!Return

\* A step that keeps the head and adds at most a record beyond it stutters.
LEMMA Unseen ==
  ASSUME HeadRev \in Nat, UNCHANGED <<head, returned>>, byRev \subseteq byRev',
         \A f \in byRev' \ byRev : f.desc.rev = HeadRev + 1
  PROVE  UNCHANGED Stream!vars
<1>1. HeadRev' = HeadRev
  BY DEF HeadRev
<1>2. ASSUME NEW f \in byRev', f.desc.rev <= HeadRev PROVE f \in byRev
  BY <1>2
<1>3. {g \in byRev' : g.desc.rev <= HeadRev} = {g \in byRev : g.desc.rev <= HeadRev}
  BY <1>2
<1>4. Committed' = Committed
  BY <1>1, <1>3 DEF Committed
<1>5. QED BY <1>4 DEF Stream!vars

\* Moving the head commits the announced request, under the next revision.
LEMMA HeadCommits ==
  ASSUME TypeOK, DiskInv, NEW f, Complete(f), head' = f.desc,
         UNCHANGED <<byRev, returned>>
  PROVE  Stream!Commit(f.desc.req) /\ f.desc.req \in Request
<1>1. /\ f \in byRev /\ f \in byId /\ f.desc \in Desc /\ f.desc.rev = HeadRev + 1
      /\ f.desc.req \in Request /\ HeadRev \in Nat
  BY DEF Complete, DiskInv, IndexInv, TypeOK, File, Desc, HeadRev
<1>2. HeadRev' = HeadRev + 1
  BY <1>1, NoneAssumption DEF HeadRev
<1>3. head # None => head \in Desc /\ HeadRev = head.rev /\ \E g \in byRev : g.desc = head
  BY HeadRecord
<1>4. f.desc.req.parent = IF head = None THEN None ELSE head.req.id
  <2>1. Follows(f.desc)
    BY <1>1 DEF DiskInv, ChainInv
  <2>2. CASE head = None
    BY <1>1, <2>1, <2>2 DEF Follows, HeadRev
  <2>3. CASE head # None
    <3>1. f.desc.rev # 1 /\ f.desc.rev - 1 = head.rev
      BY <1>1, <1>3, <2>3 DEF Desc
    <3>2. \A g \in byRev : g.desc.rev = head.rev => g.desc = head
      BY <1>3, <2>3 DEF DiskInv, NamesInv
    <3>3. QED BY <2>1, <2>3, <3>1, <3>2 DEF Follows
  <2>4. QED BY <2>2, <2>3
<1>5. \A v \in Committed : v.req.id # f.desc.req.id
  <2>1. SUFFICES ASSUME NEW g \in byRev, g.desc.rev <= HeadRev, g.desc.req.id = f.desc.req.id
                 PROVE  FALSE
    BY DEF Committed
  <2>2. g = f
    BY <1>1, <2>1 DEF DiskInv, NamesInv, IndexInv
  <2>3. QED BY <1>1, <2>1, <2>2
<1>6. f.desc = Stream!VersionOf(f.desc.req)
  <2>1. f.desc = [req |-> f.desc.req, rev |-> HeadRev + 1]
    BY <1>1 DEF Desc
  <2>2. QED BY <2>1 DEF Stream!VersionOf, HeadRev
<1>7. Committed' = Committed \cup {f.desc}
  <2>1. ASSUME NEW g \in byRev, g.desc.rev <= HeadRev + 1
        PROVE  g = f \/ g.desc.rev <= HeadRev
    <3>1. g.desc.rev = f.desc.rev => g = f
      BY <1>1, <2>1 DEF DiskInv, NamesInv
    <3>2. g.desc.rev \in Nat
      BY DEF TypeOK, File, Desc
    <3>3. QED BY <1>1, <2>1, <3>1, <3>2
  <2>2. ASSUME NEW g \in byRev, g.desc.rev <= HeadRev
        PROVE  g.desc.rev <= HeadRev + 1
    BY <1>1, <2>2 DEF TypeOK, File, Desc
  <2>3. {g \in byRev : g.desc.rev <= HeadRev + 1} = {g \in byRev : g.desc.rev <= HeadRev} \cup {f}
    BY <1>1, <2>1, <2>2
  <2>4. Committed' = {g.desc : g \in {h \in byRev : h.desc.rev <= HeadRev + 1}}
    BY <1>2 DEF Committed
  <2>5. QED BY <2>3, <2>4 DEF Committed
<1>8. QED
  BY <1>1, <1>4, <1>5, <1>6, <1>7 DEF Stream!Commit, Stream!Appendable

\* Every behaviour of the file store is one of the append-only stream: the
\* replacement of head.json commits, the answers return, all else stutters.
THEOREM Refinement == Spec => ImplementsStream
<1>1. Init => Stream!Init
  BY DEF Init, Stream!Init, Committed
<1>2. ASSUME IInv, [Next]_vars
      PROVE  [Stream!Next]_(Stream!vars)
  <2> USE <1>2
  <2>1. HeadRev \in Nat
    BY DEF IInv, TypeOK, HeadRev, Desc
  <2>2. ASSUME UNCHANGED <<byRev, head, returned>> PROVE UNCHANGED Stream!vars
    BY <2>1, <2>2, Unseen
  <2>3. ASSUME NEW p \in Proc, Step(p)
        PROVE  [Stream!Next]_(Stream!vars)
    <3>1. CASE Inspect(p) \/ Validate(p)
      BY <2>2, <3>1 DEF Inspect, Validate, Continue, disk
    <3>2. CASE UnlinkPending(p) \/ PublishBody(p) \/ WritePending(p) \/ LinkById(p)
      BY <2>2, <3>2 DEF UnlinkPending, PublishBody, WritePending, LinkById, Continue
    <3>3. CASE Relink(p) \/ LinkByRevision(p)
      <4>1. file[p].desc.rev = HeadRev + 1
        BY <3>3 DEF IInv, ThreadInv, Relink, LinkByRevision, Working
      <4>2. /\ byRev' \in {byRev, byRev \cup {file[p]}}
            /\ UNCHANGED <<head, returned>>
        BY <3>3 DEF Relink, LinkByRevision, Continue
      <4>3. QED BY <2>1, <4>1, <4>2, Unseen
    <3>4. CASE WriteHead(p)
      <4>1. /\ pc[p] \in {"relink_head", "sync_head", "save_head"}
            /\ head' = file[p].desc /\ UNCHANGED <<byRev, returned>>
        BY <3>4 DEF WriteHead, AfterHead, Continue
      <4>2. Complete(file[p])
        BY <4>1 DEF IInv, ThreadInv
      <4>3. QED BY <4>1, <4>2, HeadCommits DEF IInv, Stream!Next
    <3>5. CASE SaveDecide(p)
      <4>1. pc[p] = "act" /\ Settled /\ UNCHANGED disk
        BY <3>5 DEF IInv, ThreadInv, SaveDecide, Working
      <4>2. \/ UNCHANGED returned
            \/ \E f \in byId : returned' = returned \cup {f.desc}
        BY <3>5 DEF SaveDecide, Continue, Existing, SameId
      <4>3. \A f \in byId : f.desc \in Committed
        BY <4>1, SettledIsExact DEF IInv
      <4>4. QED BY <2>2, <4>1, <4>2, <4>3, ReturnMaps DEF disk
    <3>6. CASE SaveReply(p)
      <4>1. /\ UNCHANGED disk /\ returned' = returned \cup {file[p].desc}
            /\ Settled /\ file[p] \in byRev
        BY <3>6 DEF IInv, ThreadInv, SaveReply, Working
      <4>2. file[p].desc \in Committed
        BY <4>1 DEF Committed, Settled, IInv, DiskInv, IndexInv
      <4>3. QED BY <4>1, <4>2, ReturnMaps
    <3>7. CASE Read(p)
      <4>1. pc[p] = "act" /\ Settled /\ op[p] \in Op /\ op[p].kind # "save" /\ UNCHANGED disk
        BY <3>7 DEF IInv, ThreadInv, Read, Working
      <4>2. \A f \in Answer(op[p]) : f.desc \in Committed
        BY <4>1, AnswerIsLinked, SettledIsExact DEF IInv, Committed, Settled
      <4>3. \/ UNCHANGED returned
            \/ returned' = returned \cup {f.desc : f \in Answer(op[p])}
        BY <3>7 DEF Read
      <4>4. {f.desc : f \in Answer(op[p])} \in SUBSET Committed
        BY <4>2
      <4>5. QED BY <2>2, <4>1, <4>3, <4>4, ReturnMaps DEF disk
    <3>8. QED BY <2>3, <3>1, <3>2, <3>3, <3>4, <3>5, <3>6, <3>7 DEF Step
  <2>4. ASSUME (\E p \in Proc : Begin(p) \/ Interrupt(p)) \/ PublishElsewhere \/ UNCHANGED vars
        PROVE  UNCHANGED Stream!vars
    BY <2>2, <2>4 DEF Begin, Interrupt, PublishElsewhere, vars, disk
  <2>5. QED BY <2>3, <2>4 DEF Next
<1>3. QED
  BY <1>1, <1>2, Invariance, PTL DEF Spec, ImplementsStream, Stream!Spec
=============================================================================
