------------------------- MODULE ArtifactStoresProofs ------------------------
(***************************************************************************)
(* Proofs about ArtifactStores, for every set of clients, names, bodies    *)
(* and metadata, and any number of calls and faults: each of the three     *)
(* backends implements ArtifactStore, what is recorded is stored, and the  *)
(* filesystem store raises no false alarm.                                 *)
(***************************************************************************)
EXTENDS ArtifactStores, TLAPS

-----------------------------------------------------------------------------
(* The inductive invariant *)

StoresTyped ==
  /\ backend \in {"memory", "filesystem", "s3"}
  /\ items \in Holdings /\ manifests \in Holdings /\ bucket \in Holdings

Stages == {"idle", "begin", "insert", "iterate", "body", "manifest", "again", "read", "check",
           "send", "emit"}

CallsTyped ==
  /\ call \in [Client -> Calls \cup {None}]
  /\ answer \in [Client -> Results \cup {None}]
  /\ stage \in [Client -> Stages]
  /\ saw = [c \in Client |-> saw[c]]

\* A durable store never loses what it has, and no manifest is without its body.
FilesSound == \A k \in Published : Intact(manifests[k])

\* The content of a record is that of the run its key names, and in a durable
\* store it is there.
Shows(record) ==
  /\ record \in Key \X Content
  /\ record[2].run = record[1][1]
  /\ Durable => Held[record[1]] = record[2]

\* A call in progress was asked for, and what the store held when it was made
\* is still there.
InProgress(c) ==
  /\ \A k \in Key : call[c].since[k] # None => Held[k] # None
  /\ call[c].op = "put" =>
       /\ <<call[c].target, call[c].content>> \in asked
       /\ call[c].content.run = call[c].target[1]

\* How far it has come, and what it has seen by then.
At(c) ==
  /\ stage[c] \in {"idle", "emit"} <=> call[c] = None
  /\ call[c] # None => InProgress(c)
  /\ stage[c] = "emit" => Shows(saw[c])
  /\ stage[c] \in {"insert", "body", "manifest", "again", "send"} => call[c].op = "put"
  /\ stage[c] \in {"iterate", "check"} => call[c].op = "list"
  /\ stage[c] = "manifest" => call[c].content.body \in bodies
  /\ stage[c] = "again" => call[c].target \in Published
  /\ stage[c] = "read" =>
       /\ call[c].op = "get" /\ call[c].target \in Published
       /\ saw[c] = manifests[call[c].target]
  /\ stage[c] = "check" =>
       /\ saw[c] \subseteq Published
       /\ \A k \in Key : call[c].since[k] # None => k \in saw[c]

\* Each stage belongs to one backend.
StageOf ==
  [memory |-> {"insert", "iterate"},
   filesystem |-> {"body", "manifest", "again", "read", "check"},
   s3 |-> {"send"}]

Staged(c) == stage[c] \in {"idle", "begin", "emit"} \cup StageOf[backend]

IInv ==
  /\ StoresTyped /\ CallsTyped /\ FilesSound
  /\ \A c \in Client : At(c) /\ Staged(c)
  /\ inflight \subseteq asked /\ asked \subseteq Key \X Content
  /\ \A r \in recorded : Shows(r)
  /\ NoFalseAlarm

-----------------------------------------------------------------------------
(* The selected store *)

\* What is held is what the selected backend holds.
LEMMA HeldIs ==
  /\ backend = "memory" => Held = items
  /\ backend = "filesystem" => Held = manifests
  /\ backend = "s3" => Held = bucket
BY DEF Held, MemoryObjects, FilesObjects, S3Objects

LEMMA HeldWillBe ==
  /\ (backend = "memory")' => Held' = items'
  /\ (backend = "filesystem")' => Held' = manifests'
  /\ (backend = "s3")' => Held' = bucket'
BY DEF Held, MemoryObjects, FilesObjects, S3Objects

LEMMA HeldTyped ==
  ASSUME StoresTyped
  PROVE  Held \in Holdings
BY HeldIs DEF StoresTyped

\* The fields of a call in progress.
LEMMA CallFields ==
  ASSUME CallsTyped, NEW c \in Client, call[c] # None
  PROVE  /\ call[c].op \in {"put", "get", "list"} /\ call[c].since \in Holdings
         /\ call[c].op \in {"put", "get"} => call[c].target \in Key
         /\ call[c].op = "put" => call[c].content \in Content
BY DEF CallsTyped, Calls

\* What a step may do to the stores: nothing that is there goes away, and in a
\* durable store it does not change.
Grows ==
  /\ backend' = backend
  /\ asked \subseteq asked' /\ bodies \subseteq bodies'
  /\ \A k \in Key : Held[k] # None => Held'[k] # None /\ (Durable => Held'[k] = Held[k])
  /\ \A k \in Key : manifests[k] # None => manifests'[k] = manifests[k]

LEMMA ShowsKeeps ==
  ASSUME Grows, NEW r, Shows(r)
  PROVE  Shows(r)'
<1>1. r \in Key \X Content /\ r[1] \in Key /\ r[2] \in Content /\ r[2] # None
  BY CallsAssumption DEF Shows
<1> QED
  BY <1>1 DEF Shows, Grows, Durable

LEMMA InProgressKeeps ==
  ASSUME Grows, NEW c \in Client, InProgress(c), call'[c] = call[c]
  PROVE  InProgress(c)'
BY DEF InProgress, Grows

\* The clients that a step leaves alone.
Idles(d) == call'[d] = call[d] /\ answer'[d] = answer[d] /\ stage'[d] = stage[d] /\ saw'[d] = saw[d]

LEMMA OthersKeep ==
  ASSUME CallsTyped, Grows, NEW d \in Client, At(d), Staged(d), Idles(d)
  PROVE  At(d)' /\ Staged(d)'
<1>1. Staged(d)'
  BY DEF Staged, Idles, Grows
<1>2. stage'[d] = stage[d] /\ call'[d] = call[d] /\ saw'[d] = saw[d]
  BY DEF Idles
<1>3. Published \subseteq Published'
  BY DEF Published, Grows
<1>4. \A k \in Published : manifests'[k] = manifests[k]
  BY DEF Published, Grows
<1>5. call'[d] # None => InProgress(d)'
  BY <1>2, InProgressKeeps DEF At
<1>6. PICK r : r = saw[d]
  OBVIOUS
<1>7. stage'[d] = "emit" => Shows(saw[d])'
  BY <1>2, <1>6, ShowsKeeps DEF At, Shows
<1>8. stage'[d] = "manifest" => call'[d].content.body \in bodies'
  BY <1>2 DEF At, Grows
<1>9. stage'[d] = "again" => call'[d].target \in Published'
  BY <1>2, <1>3 DEF At
<1>10. stage'[d] = "read" =>
         /\ call'[d].op = "get" /\ call'[d].target \in Published'
         /\ saw'[d] = manifests'[call'[d].target]
  BY <1>2, <1>3, <1>4 DEF At
<1>11. stage'[d] = "check" =>
         /\ saw'[d] \subseteq Published'
         /\ \A k \in Key : call'[d].since[k] # None => k \in saw'[d]
  BY <1>2, <1>3 DEF At
<1>12. At(d)'
  BY <1>2, <1>5, <1>7, <1>8, <1>9, <1>10, <1>11 DEF At
<1> QED
  BY <1>1, <1>12

\* Whatever has been told a caller of unreadable manifests stays true.
Unreadable == \E k \in Published : ~Readable(k)

LEMMA UnreadableKeeps ==
  ASSUME Grows, Unreadable
  PROVE  Unreadable'
BY DEF Grows, Unreadable, Published, Readable

\* What a step of one client has to show.
Only(c) ==
  /\ CallsTyped'
  /\ \A d \in Client \ {c} : Idles(d)

LEMMA StepKeeps ==
  ASSUME IInv, Grows, NEW c \in Client, Only(c), At(c)', Staged(c)',
         StoresTyped', FilesSound', recorded' = recorded,
         inflight' \subseteq asked', asked' \subseteq Key \X Content,
         answer'[c] # None /\ answer'[c].result = "integrity" => Unreadable
  PROVE  IInv'
<1>1. \A d \in Client : (At(d) /\ Staged(d))'
  <2> SUFFICES ASSUME NEW d \in Client PROVE (At(d) /\ Staged(d))'
    OBVIOUS
  <2>1. CASE d = c
    BY <2>1
  <2>2. CASE d # c
    BY <2>2, OthersKeep DEF Only, IInv
  <2> QED
    BY <2>1, <2>2
<1>2. \A r \in recorded' : Shows(r)'
  BY ShowsKeeps DEF IInv
<1>3. NoFalseAlarm'
  <2> SUFFICES ASSUME NEW d \in Client, answer'[d] # None, answer'[d].result = "integrity"
               PROVE  Unreadable'
    BY DEF NoFalseAlarm, Unreadable
  <2>1. Unreadable
    BY DEF Only, Idles, IInv, NoFalseAlarm, Unreadable
  <2> QED
    BY <2>1, UnreadableKeeps
<1> QED
  BY <1>1, <1>2, <1>3 DEF IInv, Only

\* A step that leaves the stores as they are.
LEMMA StillGrows ==
  ASSUME UNCHANGED <<backend, stores>>, asked \subseteq asked'
  PROVE  Grows /\ Held' = Held
<1>1. Held' = Held
  BY DEF Held, MemoryObjects, FilesObjects, S3Objects, stores, files, s3
<1> QED
  BY <1>1 DEF Grows, stores, files, s3

\* An answer ends the call.
LEMMA AnswerIs ==
  ASSUME CallsTyped, NEW c \in Client, NEW result, NEW value, Answer(c, result, value),
         [result |-> result, value |-> value] \in Results
  PROVE  /\ Only(c) /\ At(c)' /\ Staged(c)'
         /\ answer'[c] = [result |-> result, value |-> value]
         /\ call'[c] = None
<1>1. /\ answer'[c] = [result |-> result, value |-> value]
      /\ call'[c] = None /\ stage'[c] = "idle"
  BY DEF Answer, Goto, CallsTyped
<1>2. CallsTyped'
  BY DEF Answer, Goto, CallsTyped, Stages
<1>3. \A d \in Client \ {c} : Idles(d)
  BY DEF Answer, Goto, CallsTyped, Idles
<1> QED
  BY <1>1, <1>2, <1>3 DEF Only, At, Staged

\* Having put, the call has the descriptor to emit.
LEMMA PutReturnsIs ==
  ASSUME CallsTyped, NEW c \in Client, PutReturns(c), call[c] # None, call[c].op = "put"
  PROVE  /\ Only(c) /\ Staged(c)' /\ call'[c] = None /\ stage'[c] = "emit"
         /\ answer'[c] = [result |-> "stored", value |-> call[c].content]
         /\ saw'[c] = <<call[c].target, call[c].content>>
<1>1. /\ answer'[c] = [result |-> "stored", value |-> call[c].content]
      /\ call'[c] = None /\ stage'[c] = "emit" /\ saw'[c] = <<call[c].target, call[c].content>>
  BY DEF PutReturns, Goto, CallsTyped
<1>2. [result |-> "stored", value |-> call[c].content] \in Results
  BY CallFields DEF Results
<1>3. CallsTyped'
  BY <1>2 DEF PutReturns, Goto, CallsTyped, Stages
<1>4. \A d \in Client \ {c} : Idles(d)
  BY DEF PutReturns, Goto, CallsTyped, Idles
<1> QED
  BY <1>1, <1>3, <1>4 DEF Only, Staged

LEMMA ProceedsIs ==
  ASSUME CallsTyped, NEW c \in Client, NEW s \in Stages, Proceeds(c, s)
  PROVE  Only(c) /\ call'[c] = call[c] /\ answer'[c] = answer[c] /\ saw'[c] = saw[c] /\ stage'[c] = s
BY DEF Proceeds, Goto, CallsTyped, Only, Idles

LEMMA ReadsIs ==
  ASSUME CallsTyped, NEW c \in Client, NEW s \in Stages, NEW v, Reads(c, v, s)
  PROVE  Only(c) /\ call'[c] = call[c] /\ answer'[c] = answer[c] /\ saw'[c] = v /\ stage'[c] = s
BY DEF Reads, Goto, CallsTyped, Only, Idles

\* The stores after a step are sound.
StoresKept ==
  /\ StoresTyped' /\ FilesSound' /\ Grows
  /\ recorded' = recorded /\ asked' = asked /\ inflight' \subseteq asked'

LEMMA StillKept ==
  ASSUME IInv, UNCHANGED <<backend, stores, asked, recorded>>
  PROVE  StoresKept /\ Held' = Held
<1>1. Grows /\ Held' = Held
  BY StillGrows
<1>2. StoresTyped' /\ FilesSound' /\ inflight' \subseteq asked'
  BY DEF IInv, StoresTyped, FilesSound, Published, Intact, stores, files, s3
<1> QED
  BY <1>1, <1>2 DEF StoresKept

LEMMA AnswerKeeps ==
  ASSUME IInv, StoresKept, NEW c \in Client, NEW result, NEW value, Answer(c, result, value),
         [result |-> result, value |-> value] \in Results, result = "integrity" => Unreadable
  PROVE  IInv'
<1>1. /\ Only(c) /\ At(c)' /\ Staged(c)'
      /\ answer'[c] = [result |-> result, value |-> value]
  BY AnswerIs DEF IInv
<1>2. asked' \subseteq Key \X Content
  BY DEF IInv, StoresKept
<1> QED
  BY <1>1, <1>2, StepKeeps DEF StoresKept

LEMMA PutReturnsKeeps ==
  ASSUME IInv, StoresKept, NEW c \in Client, PutReturns(c), call[c] # None, call[c].op = "put",
         Held'[call[c].target] = call[c].content
  PROVE  IInv'
<1>1. /\ Only(c) /\ Staged(c)' /\ call'[c] = None /\ stage'[c] = "emit"
      /\ answer'[c] = [result |-> "stored", value |-> call[c].content]
      /\ saw'[c] = <<call[c].target, call[c].content>>
  BY PutReturnsIs DEF IInv
<1>2. call[c].target \in Key /\ call[c].content \in Content
  BY CallFields DEF IInv
<1>3. call[c].content.run = call[c].target[1]
  BY DEF IInv, At, InProgress
<1>4. Shows(saw[c])'
  BY <1>1, <1>2, <1>3 DEF Shows
<1>5. At(c)'
  BY <1>1, <1>4 DEF At
<1>6. asked' \subseteq Key \X Content
  BY DEF IInv, StoresKept
<1> QED
  BY <1>1, <1>5, <1>6, StepKeeps DEF StoresKept

\* A call that goes on is the same call; what it must know at its next stage
\* is for each step to say.
Knows(c) ==
  /\ stage[c] \notin {"idle", "emit"}
  /\ stage[c] \in {"insert", "body", "manifest", "again", "send"} => call[c].op = "put"
  /\ stage[c] \in {"iterate", "check"} => call[c].op = "list"
  /\ stage[c] = "manifest" => call[c].content.body \in bodies
  /\ stage[c] = "again" => call[c].target \in Published
  /\ stage[c] = "read" =>
       /\ call[c].op = "get" /\ call[c].target \in Published
       /\ saw[c] = manifests[call[c].target]
  /\ stage[c] = "check" =>
       /\ saw[c] \subseteq Published
       /\ \A k \in Key : call[c].since[k] # None => k \in saw[c]

LEMMA GoesOnKeeps ==
  ASSUME IInv, StoresKept, NEW c \in Client, call[c] # None,
         Only(c), call'[c] = call[c], answer'[c] = answer[c], Knows(c)', Staged(c)'
  PROVE  IInv'
<1>1. InProgress(c)'
  BY InProgressKeeps DEF IInv, At, StoresKept
<1>2. At(c)'
  BY <1>1 DEF At, Knows
<1>3. answer'[c] # None /\ answer'[c].result = "integrity" => Unreadable
  BY DEF IInv, NoFalseAlarm, Unreadable
<1>4. asked' \subseteq Key \X Content
  BY DEF IInv, StoresKept
<1> QED
  BY <1>2, <1>3, <1>4, StepKeeps DEF StoresKept

-----------------------------------------------------------------------------
(* The invariant holds initially, and every step keeps it *)

LEMMA InitEstablishes ==
  ASSUME Init
  PROVE  IInv
<1> USE DEF Init, CallInit, MemoryInit, FilesInit, S3Init
<1>1. StoresTyped
  BY DEF StoresTyped, Holdings
<1>2. CallsTyped
  BY DEF CallsTyped, Stages
<1>3. FilesSound
  BY DEF FilesSound, Published
<1>4. \A c \in Client : At(c) /\ Staged(c)
  BY DEF At, Staged
<1>5. NoFalseAlarm
  BY DEF NoFalseAlarm
<1> QED
  BY <1>1, <1>2, <1>3, <1>4, <1>5 DEF IInv

\* A call begins.
LEMMA BeginIs ==
  ASSUME IInv, NEW c \in Client, NEW op, NEW target, NEW content,
         [op |-> op, target |-> target, content |-> content, since |-> Held] \in Calls,
         Begin(c, op, target, content, Held)
  PROVE  /\ Only(c) /\ stage'[c] = "begin" /\ answer'[c] = None
         /\ call'[c] = [op |-> op, target |-> target, content |-> content, since |-> Held]
         /\ call[c] = None
<1>1. call[c] = None
  BY DEF IInv, At, Begin
<1>2. /\ call'[c] = [op |-> op, target |-> target, content |-> content, since |-> Held]
      /\ stage'[c] = "begin" /\ answer'[c] = None
  BY DEF Begin, Goto, IInv, CallsTyped
<1>3. CallsTyped'
  BY DEF Begin, Goto, IInv, CallsTyped, Stages
<1>4. \A d \in Client \ {c} : Idles(d)
  BY DEF Begin, Goto, IInv, CallsTyped, Idles
<1> QED
  BY <1>1, <1>2, <1>3, <1>4 DEF Only

LEMMA WriteArguments ==
  ASSUME NEW c \in Client, NEW n \in Name, NEW b \in Body, NEW m \in Metadata
  PROVE  /\ StorageKey(Identity(RunOf[c], n)) \in Key
         /\ Descriptor(RunOf[c], n, b, m) \in Content
         /\ Descriptor(RunOf[c], n, b, m).run = StorageKey(Identity(RunOf[c], n))[1]
BY CallsAssumption DEF StorageKey, Identity, Descriptor, Key, Content, Run, Slot

\* Every new call is a call of the interface, and a put is for the run of its key.
LEMMA NewCallIs ==
  ASSUME IInv, NEW c \in Client, NewCall(c)
  PROVE  /\ Only(c) /\ stage'[c] = "begin" /\ answer'[c] = None /\ call[c] = None
         /\ call'[c] \in Calls /\ call'[c].since = Held
         /\ call'[c].op = "put" => call'[c].content.run = call'[c].target[1]
         /\ UNCHANGED <<backend, recorded>>
<1>1. Held \in Holdings
  BY HeldTyped DEF IInv
<1>2. CASE \E n \in Name, b \in Body, m \in Metadata : Write(c, n, b, m, Held)
  <2>1. PICK n \in Name, b \in Body, m \in Metadata : Write(c, n, b, m, Held)
    BY <1>2
  <2> DEFINE k == StorageKey(Identity(RunOf[c], n))
             d == Descriptor(RunOf[c], n, b, m)
             q == [op |-> "put", target |-> k, content |-> d, since |-> Held]
  <2>2. k \in Key /\ d \in Content /\ d.run = k[1]
    BY WriteArguments
  <2>3. Begin(c, "put", k, d, Held)
    BY <2>1 DEF Write
  <2> HIDE DEF k, d
  <2>4. q \in Calls
    BY <2>2, <1>1 DEF Calls
  <2>5. Only(c) /\ stage'[c] = "begin" /\ answer'[c] = None /\ call'[c] = q /\ call[c] = None
    BY <2>3, <2>4, BeginIs
  <2>6. UNCHANGED <<backend, recorded>>
    BY <2>3 DEF Begin
  <2> QED
    BY <2>2, <2>4, <2>5, <2>6
<1>3. CASE Open(c, Held)
  <2>1. PICK r \in recorded : Begin(c, "get", r[1], None, Held)
    BY <1>3 DEF Open
  <2> DEFINE q == [op |-> "get", target |-> r[1], content |-> None, since |-> Held]
  <2>2. r[1] \in Key
    BY DEF IInv, Shows
  <2>3. q \in Calls
    BY <2>2, <1>1 DEF Calls
  <2>4. Only(c) /\ stage'[c] = "begin" /\ answer'[c] = None /\ call'[c] = q /\ call[c] = None
    BY <2>1, <2>3, BeginIs
  <2>5. UNCHANGED <<backend, recorded>>
    BY <2>1 DEF Begin
  <2> QED
    BY <2>3, <2>4, <2>5
<1>4. CASE List(c, Held)
  <2> DEFINE q == [op |-> "list", target |-> RunOf[c], content |-> None, since |-> Held]
  <2>1. Begin(c, "list", RunOf[c], None, Held)
    BY <1>4 DEF List
  <2>2. q \in Calls
    BY <1>1, CallsAssumption DEF Calls
  <2>3. Only(c) /\ stage'[c] = "begin" /\ answer'[c] = None /\ call'[c] = q /\ call[c] = None
    BY <2>1, <2>2, BeginIs
  <2>4. UNCHANGED <<backend, recorded>>
    BY <2>1 DEF Begin
  <2> QED
    BY <2>2, <2>3, <2>4
<1> QED
  BY <1>2, <1>3, <1>4 DEF NewCall

LEMMA NewCallKeeps ==
  ASSUME IInv, NEW c \in Client, NewCall(c)
  PROVE  IInv'
<1>1. /\ Only(c) /\ stage'[c] = "begin" /\ answer'[c] = None
      /\ call'[c] \in Calls /\ call'[c].since = Held
      /\ call'[c].op = "put" => call'[c].content.run = call'[c].target[1]
      /\ UNCHANGED <<backend, recorded>>
  BY NewCallIs
<1>2. /\ UNCHANGED stores
      /\ asked' = IF call'[c].op = "put" THEN asked \cup {<<call'[c].target, call'[c].content>>} ELSE asked
  BY DEF NewCall
<1>3. Grows /\ Held' = Held
  BY <1>1, <1>2, StillGrows
<1>4. StoresTyped' /\ FilesSound'
  BY <1>1, <1>2 DEF IInv, StoresTyped, FilesSound, Published, Intact, stores, files, s3
<1>5. call'[c].op = "put" => <<call'[c].target, call'[c].content>> \in Key \X Content
  BY <1>1 DEF Calls
<1>6. inflight' \subseteq asked' /\ asked' \subseteq Key \X Content
  BY <1>2, <1>5 DEF IInv, stores, s3
<1>7. InProgress(c)'
  BY <1>1, <1>2, <1>3 DEF InProgress
<1>8. call'[c] # None
  BY <1>1, NoneAssumption
<1>9. At(c)' /\ Staged(c)'
  BY <1>1, <1>7, <1>8 DEF At, Staged
<1> QED
  BY <1>1, <1>3, <1>4, <1>6, <1>9, StepKeeps

LEMMA CreatedKeeps ==
  ASSUME IInv, NEW c \in Client, Created(c)
  PROVE  IInv'
<1>1. /\ stage[c] = "emit" /\ UNCHANGED <<backend, call, answer>>
      /\ recorded' = recorded \/ recorded' = recorded \cup {saw[c]}
      /\ saw' = [saw EXCEPT ![c] = None] /\ stage' = [stage EXCEPT ![c] = "idle"]
      /\ UNCHANGED <<stores, asked>>
  BY DEF Created, EmitCreated, Goto
<1>2. Grows /\ Held' = Held
  BY <1>1, StillGrows
<1>3. StoresTyped' /\ FilesSound' /\ inflight' \subseteq asked' /\ asked' \subseteq Key \X Content
  BY <1>1 DEF IInv, StoresTyped, FilesSound, Published, Intact, stores, files, s3
<1>4. CallsTyped'
  BY <1>1 DEF IInv, CallsTyped, Stages
<1>5. \A d \in Client : (At(d) /\ Staged(d))'
  <2> SUFFICES ASSUME NEW d \in Client PROVE (At(d) /\ Staged(d))'
    OBVIOUS
  <2>1. CASE d = c
    <3>1. stage'[c] = "idle" /\ call'[c] = None
      BY <1>1 DEF IInv, CallsTyped, At
    <3> QED
      BY <2>1, <3>1 DEF At, Staged
  <2>2. CASE d # c
    <3>1. Idles(d)
      BY <1>1, <2>2 DEF IInv, CallsTyped, Idles
    <3> QED
      BY <3>1, <1>2, OthersKeep DEF IInv
  <2> QED
    BY <2>1, <2>2
<1>6. \A r \in recorded' : Shows(r)'
  <2>1. \A r \in recorded' : Shows(r)
    BY <1>1 DEF IInv, At
  <2> QED
    BY <2>1, <1>2, ShowsKeeps
<1>7. NoFalseAlarm'
  BY <1>1 DEF IInv, NoFalseAlarm, Published, Readable, stores, files
<1> QED
  BY <1>3, <1>4, <1>5, <1>6, <1>7 DEF IInv

\* The answers the stores give are answers of the interface.
LEMMA PlainAnswers ==
  /\ [result |-> "conflict", value |-> None] \in Results
  /\ [result |-> "failed", value |-> None] \in Results
  /\ [result |-> "absent", value |-> None] \in Results
  /\ [result |-> "integrity", value |-> None] \in Results
  /\ \A v \in Content : [result |-> "found", value |-> v] \in Results
  /\ \A S \in SUBSET Key : [result |-> "listed", value |-> S] \in Results
BY DEF Results

\* In a stage of a call there is a call.
LEMMA Calling ==
  ASSUME IInv, NEW c \in Client, stage[c] \notin {"idle", "emit"}
  PROVE  call[c] # None
BY DEF IInv, At

\* The memory store.
LEMMA MemoryKeeps ==
  ASSUME IInv, NEW c \in Client, MemoryNext(c)
  PROVE  IInv'
<1>1. backend = "memory" /\ MemoryStep(c) /\ UNCHANGED <<files, s3, asked>> /\ Held = items
  BY HeldIs DEF MemoryNext
<1>2. ASSUME UNCHANGED <<items, backend, recorded>>
      PROVE  StoresKept /\ Held' = Held
  BY <1>1, <1>2, StillKept DEF stores
<1>3. CASE MemoryPut(c)
  <2>1. call[c] # None /\ call[c].op = "put" /\ UNCHANGED <<items, backend, recorded>>
    BY <1>3, Calling DEF MemoryPut
  <2>2. StoresKept /\ Held' = Held
    BY <2>1, <1>2
  <2>3. CASE Proceeds(c, "insert")
    <3>1. Only(c) /\ call'[c] = call[c] /\ answer'[c] = answer[c] /\ stage'[c] = "insert"
      BY <2>3, ProceedsIs DEF IInv, Stages
    <3>2. Knows(c)' /\ Staged(c)'
      BY <2>1, <3>1, <1>1 DEF Knows, Staged, StageOf
    <3> QED
      BY <2>1, <2>2, <3>1, <3>2, GoesOnKeeps
  <2>4. CASE items[call[c].target] = call[c].content /\ PutReturns(c)
    BY <2>1, <2>2, <2>4, <1>1, PutReturnsKeeps
  <2>5. CASE Answer(c, "conflict", None)
    BY <2>2, <2>5, PlainAnswers, AnswerKeeps
  <2> QED
    BY <1>3, <2>3, <2>4, <2>5 DEF MemoryPut
<1>4. CASE MemoryInsert(c)
  <2>1. call[c] # None /\ call[c].op = "put"
    BY <1>4, Calling DEF MemoryInsert, IInv, At
  <2>2. call[c].target \in Key /\ call[c].content \in Content
    BY <2>1, CallFields DEF IInv
  <2>3. /\ items' = [items EXCEPT ![call[c].target] = call[c].content] /\ PutReturns(c)
        /\ UNCHANGED <<backend, recorded>>
    BY <1>4 DEF MemoryInsert
  <2>4. Held' = items'
    BY <1>1, <2>3, HeldWillBe
  <2>5. Held'[call[c].target] = call[c].content
    BY <2>2, <2>3, <2>4 DEF IInv, StoresTyped, Holdings
  <2>6. Grows
    <3>1. \A k \in Key : Held[k] # None => Held'[k] # None
      BY <1>1, <2>2, <2>3, <2>4, CallsAssumption DEF IInv, StoresTyped, Holdings
    <3> QED
      BY <1>1, <2>3, <3>1 DEF Grows, Durable, files
  <2>7. StoresTyped' /\ FilesSound' /\ inflight' \subseteq asked'
    BY <1>1, <2>2, <2>3 DEF IInv, StoresTyped, Holdings, FilesSound, Published, Intact, files, s3
  <2>8. StoresKept
    BY <1>1, <2>3, <2>6, <2>7 DEF StoresKept
  <2> QED
    BY <2>1, <2>3, <2>5, <2>8, PutReturnsKeeps
<1>5. CASE MemoryGet(c)
  <2>1. call[c] # None /\ call[c].op = "get" /\ UNCHANGED <<items, backend, recorded>>
    BY <1>5, Calling DEF MemoryGet
  <2>2. StoresKept
    BY <2>1, <1>2
  <2>3. items[call[c].target] \in Content \cup {None}
    BY <2>1, CallFields DEF IInv, StoresTyped, Holdings
  <2>4. ASSUME NEW v \in Content, Answer(c, "found", v) PROVE IInv'
    BY <2>2, <2>4, PlainAnswers, AnswerKeeps
  <2>5. ASSUME Answer(c, "absent", None) PROVE IInv'
    BY <2>2, <2>5, PlainAnswers, AnswerKeeps
  <2> QED
    BY <1>5, <2>3, <2>4, <2>5 DEF MemoryGet
<1>6. CASE MemoryList(c)
  <2>1. /\ call[c] # None /\ call[c].op = "list" /\ UNCHANGED <<items, backend, recorded>>
        /\ Reads(c, MemoryKeys, "iterate")
    BY <1>6, Calling DEF MemoryList
  <2>2. StoresKept
    BY <2>1, <1>2
  <2>3. Only(c) /\ call'[c] = call[c] /\ answer'[c] = answer[c] /\ stage'[c] = "iterate"
    BY <2>1, ReadsIs DEF IInv, Stages
  <2>4. Knows(c)' /\ Staged(c)'
    BY <2>1, <2>3, <1>1 DEF Knows, Staged, StageOf
  <2> QED
    BY <2>1, <2>2, <2>3, <2>4, GoesOnKeeps
<1>7. CASE MemoryListed(c)
  <2>1. UNCHANGED <<items, backend, recorded>>
    BY <1>7 DEF MemoryListed
  <2>2. StoresKept
    BY <2>1, <1>2
  <2>3. CASE saw[c] = MemoryKeys
    <3> DEFINE S == {k \in saw[c] : items[k].run = call[c].target}
    <3>1. S \in SUBSET Key
      BY <2>3 DEF MemoryKeys
    <3>2. Answer(c, "listed", S)
      BY <1>7, <2>3 DEF MemoryListed
    <3> HIDE DEF S
    <3>3. [result |-> "listed", value |-> S] \in Results
      BY <3>1, PlainAnswers
    <3> QED
      BY <2>2, <3>2, <3>3, AnswerKeeps
  <2>4. CASE saw[c] # MemoryKeys
    BY <1>7, <2>2, <2>4, PlainAnswers, AnswerKeeps DEF MemoryListed
  <2> QED
    BY <2>3, <2>4
<1> QED
  BY <1>1, <1>3, <1>4, <1>5, <1>6, <1>7 DEF MemoryStep

\* The files of a key that is published are there, whole.
LEMMA PublishedIntact ==
  ASSUME IInv, NEW k \in Published
  PROVE  k \in Key /\ manifests[k] \in Content /\ Intact(manifests[k]) /\ HasBody(k)
BY DEF IInv, FilesSound, Published, Intact, HasBody, StoresTyped, Holdings

\* The filesystem store: the answer of a put whose key is taken.
LEMMA ConvergesKeeps ==
  ASSUME IInv, StoresKept, Held' = manifests, NEW c \in Client, call[c] # None,
         call[c].op = "put", call[c].target \in Published, Converges(c)
  PROVE  IInv'
<1> DEFINE found == manifests[call[c].target]
<1>1. Intact(found)
  BY PublishedIntact
<1>2. CASE ~Readable(call[c].target)
  <2>1. Answer(c, "integrity", None)
    BY <1>2 DEF Converges
  <2>2. Unreadable
    BY <1>2 DEF Unreadable
  <2> QED
    BY <2>1, <2>2, PlainAnswers, AnswerKeeps
<1>3. CASE Readable(call[c].target) /\ found = call[c].content
  <2>1. PutReturns(c)
    BY <1>1, <1>3 DEF Converges
  <2> QED
    BY <2>1, <1>3, PutReturnsKeeps
<1>4. CASE Readable(call[c].target) /\ found # call[c].content
  <2>1. Answer(c, "conflict", None)
    BY <1>1, <1>4 DEF Converges
  <2> QED
    BY <2>1, PlainAnswers, AnswerKeeps
<1> QED
  BY <1>2, <1>3, <1>4

LEMMA FilesKeeps ==
  ASSUME IInv, NEW c \in Client, FilesNext(c)
  PROVE  IInv'
<1>1. backend = "filesystem" /\ FilesStep(c) /\ UNCHANGED <<items, s3, asked>> /\ Held = manifests
  BY HeldIs DEF FilesNext
<1>2. ASSUME UNCHANGED <<files, backend, recorded>>
      PROVE  StoresKept /\ Held' = manifests /\ UNCHANGED manifests
  BY <1>1, <1>2, StillKept DEF stores, files
<1>3. CASE FilesPut(c)
  <2>1. call[c] # None /\ call[c].op = "put" /\ UNCHANGED <<files, backend, recorded>>
    BY <1>3, Calling DEF FilesPut
  <2>2. StoresKept /\ Held' = manifests
    BY <2>1, <1>2
  <2>3. CASE call[c].target \in Published /\ Converges(c)
    BY <2>1, <2>2, <2>3, ConvergesKeeps
  <2>4. CASE Proceeds(c, "body")
    <3>1. Only(c) /\ call'[c] = call[c] /\ answer'[c] = answer[c] /\ stage'[c] = "body"
      BY <2>4, ProceedsIs DEF IInv, Stages
    <3>2. Knows(c)' /\ Staged(c)'
      BY <2>1, <3>1, <1>1 DEF Knows, Staged, StageOf
    <3> QED
      BY <2>1, <2>2, <3>1, <3>2, GoesOnKeeps
  <2> QED
    BY <1>3, <2>3, <2>4 DEF FilesPut
<1>4. CASE PublishBody(c)
  <2>1. /\ call[c] # None /\ call[c].op = "put" /\ UNCHANGED <<manifests, backend, recorded>>
        /\ bodies' = bodies \cup {call[c].content.body} /\ Proceeds(c, "manifest")
    BY <1>4, Calling DEF PublishBody, LinkBody, IInv, At
  <2>2. Held' = manifests
    BY <1>1, <2>1, HeldWillBe
  <2>3. Grows
    BY <1>1, <2>1, <2>2 DEF Grows
  <2>4. StoresTyped' /\ FilesSound' /\ inflight' \subseteq asked'
    BY <1>1, <2>1 DEF IInv, StoresTyped, FilesSound, Published, Intact, s3
  <2>5. StoresKept
    BY <1>1, <2>1, <2>3, <2>4 DEF StoresKept
  <2>6. Only(c) /\ call'[c] = call[c] /\ answer'[c] = answer[c] /\ stage'[c] = "manifest"
    BY <2>1, ProceedsIs DEF IInv, Stages
  <2>7. Knows(c)' /\ Staged(c)'
    BY <2>1, <2>6, <1>1 DEF Knows, Staged, StageOf
  <2> QED
    BY <2>1, <2>5, <2>6, <2>7, GoesOnKeeps
<1>5. CASE PublishManifest(c)
  <2>1. call[c] # None /\ call[c].op = "put" /\ UNCHANGED <<bodies, backend, recorded>>
    BY <1>5, Calling DEF PublishManifest, IInv, At
  <2>2. call[c].target \in Key /\ call[c].content \in Content /\ call[c].content.body \in bodies
    BY <1>5, <2>1, CallFields DEF IInv, At, PublishManifest
  <2>3. CASE call[c].target \in Published
    <3>1. UNCHANGED files /\ Proceeds(c, "again")
      BY <1>5, <2>1, <2>3 DEF PublishManifest, LinkManifest, files
    <3>2. StoresKept /\ UNCHANGED manifests
      BY <2>1, <3>1, <1>2
    <3>3. Only(c) /\ call'[c] = call[c] /\ answer'[c] = answer[c] /\ stage'[c] = "again"
      BY <3>1, ProceedsIs DEF IInv, Stages
    <3>4. Knows(c)' /\ Staged(c)'
      BY <2>1, <2>3, <3>2, <3>3, <1>1 DEF Knows, Staged, StageOf, Published
    <3> QED
      BY <2>1, <3>2, <3>3, <3>4, GoesOnKeeps
  <2>4. CASE call[c].target \notin Published
    <3>1. manifests' = [manifests EXCEPT ![call[c].target] = call[c].content] /\ PutReturns(c)
      BY <1>5, <2>4 DEF PublishManifest, LinkManifest
    <3>2. Held' = manifests'
      BY <1>1, <2>1, HeldWillBe
    <3>3. manifests[call[c].target] = None
      BY <2>2, <2>4 DEF Published
    <3>4. Held'[call[c].target] = call[c].content
      BY <2>2, <3>1, <3>2 DEF IInv, StoresTyped, Holdings
    <3>5. \A k \in Key : manifests[k] # None => manifests'[k] = manifests[k]
      BY <3>1, <3>3 DEF IInv, StoresTyped, Holdings
    <3>6. Grows
      BY <1>1, <2>1, <3>2, <3>5 DEF Grows
    <3>7. StoresTyped' /\ inflight' \subseteq asked'
      BY <1>1, <2>1, <2>2, <3>1 DEF IInv, StoresTyped, Holdings, s3
    <3>8. FilesSound'
      BY <2>1, <2>2, <3>1 DEF IInv, StoresTyped, Holdings, FilesSound, Published, Intact
    <3>9. StoresKept
      BY <1>1, <2>1, <3>6, <3>7, <3>8 DEF StoresKept
    <3> QED
      BY <2>1, <3>1, <3>4, <3>9, PutReturnsKeeps
  <2> QED
    BY <2>3, <2>4
<1>6. CASE PutAgain(c)
  <2>1. /\ call[c] # None /\ call[c].op = "put" /\ UNCHANGED <<files, backend, recorded>>
        /\ call[c].target \in Published /\ Converges(c)
    BY <1>6, Calling DEF PutAgain, IInv, At
  <2> QED
    BY <2>1, <1>2, ConvergesKeeps
<1>7. CASE FilesGet(c)
  <2>1. call[c] # None /\ call[c].op = "get" /\ UNCHANGED <<files, backend, recorded>>
    BY <1>7, Calling DEF FilesGet
  <2>2. StoresKept /\ UNCHANGED manifests
    BY <2>1, <1>2
  <2>3. CASE Answer(c, "absent", None)
    BY <2>2, <2>3, PlainAnswers, AnswerKeeps
  <2>4. CASE call[c].target \in Published /\ ~Readable(call[c].target) /\ Answer(c, "integrity", None)
    BY <2>2, <2>4, PlainAnswers, AnswerKeeps DEF Unreadable
  <2>5. CASE call[c].target \in Published /\ Reads(c, manifests[call[c].target], "read")
    <3>1. /\ Only(c) /\ call'[c] = call[c] /\ answer'[c] = answer[c] /\ stage'[c] = "read"
          /\ saw'[c] = manifests[call[c].target]
      BY <2>5, ReadsIs DEF IInv, Stages
    <3>2. Knows(c)' /\ Staged(c)'
      BY <2>1, <2>2, <2>5, <3>1, <1>1 DEF Knows, Staged, StageOf, Published
    <3> QED
      BY <2>1, <2>2, <3>1, <3>2, GoesOnKeeps
  <2> QED
    BY <1>7, <2>3, <2>4, <2>5 DEF FilesGet
<1>8. CASE ReadBody(c)
  <2>1. /\ call[c].target \in Published /\ saw[c] = manifests[call[c].target]
        /\ UNCHANGED <<files, backend, recorded>>
    BY <1>8 DEF ReadBody, IInv, At
  <2>2. StoresKept
    BY <2>1, <1>2
  <2>3. saw[c] \in Content /\ Intact(saw[c])
    BY <2>1, PublishedIntact
  <2>4. Answer(c, "found", saw[c])
    BY <1>8, <2>3 DEF ReadBody
  <2>5. [result |-> "found", value |-> saw[c]] \in Results
    BY <2>3, PlainAnswers
  <2> QED
    BY <2>2, <2>4, <2>5, AnswerKeeps
<1>9. CASE Walk(c)
  <2>1. /\ call[c] # None /\ call[c].op = "list" /\ UNCHANGED <<files, backend, recorded>>
    BY <1>9, Calling DEF Walk
  <2>2. StoresKept /\ UNCHANGED manifests
    BY <2>1, <1>2
  <2>3. PICK S \in Walked(Published, call[c].since) : Reads(c, S, "check")
    BY <1>9 DEF Walk
  <2>4. /\ Only(c) /\ call'[c] = call[c] /\ answer'[c] = answer[c] /\ stage'[c] = "check"
        /\ saw'[c] = S
    BY <2>3, ReadsIs DEF IInv, Stages
  <2>5. S \subseteq Published /\ \A k \in Published : call[c].since[k] # None => k \in S
    BY <2>3 DEF Walked
  <2>6. \A k \in Key : call[c].since[k] # None => k \in Published
    BY <1>1, <2>1 DEF IInv, At, InProgress, Published
  <2>7. Knows(c)' /\ Staged(c)'
    BY <2>1, <2>2, <2>4, <2>5, <2>6, <1>1 DEF Knows, Staged, StageOf, Published
  <2> QED
    BY <2>1, <2>2, <2>4, <2>7, GoesOnKeeps
<1>10. CASE Check(c)
  <2>1. saw[c] \subseteq Published /\ UNCHANGED <<files, backend, recorded>>
    BY <1>10 DEF Check, IInv, At
  <2>2. StoresKept
    BY <2>1, <1>2
  <2> DEFINE own == {k \in saw[c] : manifests[k].run = call[c].target}
  <2>3. own \in SUBSET Key
    BY <2>1 DEF Published
  <2>4. \A k \in saw[c] : HasBody(k)
    BY <2>1, PublishedIntact
  <2>5. CASE \A k \in saw[c] : Readable(k)
    <3>1. Answer(c, "listed", own)
      BY <1>10, <2>4, <2>5 DEF Check
    <3>2. [result |-> "listed", value |-> own] \in Results
      BY <2>3, PlainAnswers
    <3> HIDE DEF own
    <3> QED
      BY <2>2, <3>1, <3>2, AnswerKeeps
  <2>6. CASE ~\A k \in saw[c] : Readable(k)
    <3>1. Answer(c, "integrity", None)
      BY <1>10, <2>6 DEF Check
    <3>2. Unreadable
      BY <2>1, <2>6 DEF Unreadable
    <3> QED
      BY <2>2, <3>1, <3>2, PlainAnswers, AnswerKeeps
  <2> QED
    BY <2>5, <2>6
<1> QED
  BY <1>1, <1>3, <1>4, <1>5, <1>6, <1>7, <1>8, <1>9, <1>10 DEF FilesStep

\* The object store: what the service does with a conditional request.
LEMMA ArrivesKeeps ==
  ASSUME IInv, NEW r \in asked, Arrives(r), inflight' \subseteq asked,
         UNCHANGED <<items, files, backend, recorded, asked>>
  PROVE  /\ StoresKept
         /\ backend = "s3" => Held = bucket /\ Held' = bucket'
         /\ backend # "s3" => Held' = Held
<1>1. r[1] \in Key /\ r[2] \in Content
  BY DEF IInv
<1>2. bucket' \in Holdings /\ \A k \in Key : bucket[k] # None => bucket'[k] = bucket[k]
  BY <1>1 DEF Arrives, IInv, StoresTyped, Holdings
<1>3. backend = "s3" => Held = bucket /\ Held' = bucket'
  BY HeldIs, HeldWillBe
<1>4. backend # "s3" => Held' = Held
  BY HeldIs, HeldWillBe DEF IInv, StoresTyped, files
<1>5. \A k \in Key : Held[k] # None => Held'[k] = Held[k]
  BY <1>2, <1>3, <1>4
<1>6. Grows
  BY <1>5 DEF Grows, files
<1>7. StoresTyped' /\ FilesSound'
  BY <1>2 DEF IInv, StoresTyped, FilesSound, Published, Intact, files
<1> QED
  BY <1>3, <1>4, <1>6, <1>7 DEF StoresKept

LEMMA S3Keeps ==
  ASSUME IInv, NEW c \in Client, S3Next(c)
  PROVE  IInv'
<1>1. backend = "s3" /\ S3Step(c) /\ UNCHANGED <<items, files, asked>> /\ Held = bucket
  BY HeldIs DEF S3Next
<1>2. ASSUME UNCHANGED <<s3, backend, recorded>>
      PROVE  StoresKept /\ Held' = bucket
  BY <1>1, <1>2, StillKept DEF stores, s3
<1>3. CASE S3Put(c)
  <2>1. call[c] # None /\ call[c].op = "put" /\ UNCHANGED <<s3, backend, recorded>>
    BY <1>3, Calling DEF S3Put
  <2>2. StoresKept /\ Held' = bucket
    BY <2>1, <1>2
  <2>3. CASE Proceeds(c, "send")
    <3>1. Only(c) /\ call'[c] = call[c] /\ answer'[c] = answer[c] /\ stage'[c] = "send"
      BY <2>3, ProceedsIs DEF IInv, Stages
    <3>2. Knows(c)' /\ Staged(c)'
      BY <2>1, <3>1, <1>1 DEF Knows, Staged, StageOf
    <3> QED
      BY <2>1, <2>2, <3>1, <3>2, GoesOnKeeps
  <2>4. CASE bucket[call[c].target] = call[c].content /\ PutReturns(c)
    BY <2>1, <2>2, <2>4, <1>1, PutReturnsKeeps
  <2>5. CASE Answer(c, "conflict", None)
    BY <2>2, <2>5, PlainAnswers, AnswerKeeps
  <2> QED
    BY <1>3, <2>3, <2>4, <2>5 DEF S3Put
<1>4. CASE S3Send(c)
  <2> DEFINE request == <<call[c].target, call[c].content>>
  <2>1. /\ call[c] # None /\ call[c].op = "put" /\ request \in asked
        /\ Arrives(request) /\ UNCHANGED <<inflight, backend, recorded>>
    BY <1>4, Calling DEF S3Send, IInv, At, InProgress
  <2>2. call[c].target \in Key
    BY <2>1, CallFields DEF IInv
  <2>3. StoresKept /\ Held' = bucket'
    BY <1>1, <2>1, ArrivesKeeps DEF IInv
  <2>4. CASE bucket[call[c].target] = None /\ PutReturns(c)
    <3>1. bucket' = [bucket EXCEPT ![call[c].target] = call[c].content]
      BY <2>1, <2>4 DEF Arrives
    <3>2. Held'[call[c].target] = call[c].content
      BY <2>2, <2>3, <3>1 DEF IInv, StoresTyped, Holdings
    <3> QED
      BY <2>1, <2>3, <2>4, <3>2, PutReturnsKeeps
  <2>5. CASE Answer(c, "conflict", None)
    BY <2>3, <2>5, PlainAnswers, AnswerKeeps
  <2>6. CASE Proceeds(c, "send")
    <3>1. Only(c) /\ call'[c] = call[c] /\ answer'[c] = answer[c] /\ stage'[c] = "send"
      BY <2>6, ProceedsIs DEF IInv, Stages
    <3>2. Knows(c)' /\ Staged(c)'
      BY <2>1, <3>1, <1>1 DEF Knows, Staged, StageOf
    <3> QED
      BY <2>1, <2>3, <3>1, <3>2, GoesOnKeeps
  <2> QED
    BY <1>4, <2>4, <2>5, <2>6 DEF S3Send
<1>5. CASE S3GivesUp(c)
  <2>1. /\ call[c] # None /\ call[c].op = "put" /\ <<call[c].target, call[c].content>> \in asked
        /\ Answer(c, "failed", None) /\ UNCHANGED <<bucket, backend, recorded>>
        /\ inflight' = inflight \cup {<<call[c].target, call[c].content>>}
    BY <1>5, Calling DEF S3GivesUp, Fails, IInv, At, InProgress
  <2>2. Held' = bucket
    BY <1>1, <2>1, HeldWillBe
  <2>3. Grows
    BY <1>1, <2>1, <2>2 DEF Grows, files
  <2>4. StoresKept
    BY <1>1, <2>1, <2>3 DEF StoresKept, IInv, StoresTyped, FilesSound, Published, Intact, files
  <2> QED
    BY <2>1, <2>4, PlainAnswers, AnswerKeeps
<1>6. CASE S3Get(c)
  <2>1. call[c] # None /\ call[c].op = "get" /\ UNCHANGED <<s3, backend, recorded>>
    BY <1>6, Calling DEF S3Get
  <2>2. StoresKept
    BY <2>1, <1>2
  <2>3. bucket[call[c].target] \in Content \cup {None}
    BY <2>1, CallFields DEF IInv, StoresTyped, Holdings
  <2>4. ASSUME NEW v \in Content, Answer(c, "found", v) PROVE IInv'
    BY <2>2, <2>4, PlainAnswers, AnswerKeeps
  <2>5. ASSUME Answer(c, "absent", None) PROVE IInv'
    BY <2>2, <2>5, PlainAnswers, AnswerKeeps
  <2> QED
    BY <1>6, <2>3, <2>4, <2>5 DEF S3Get
<1>7. CASE S3List(c)
  <2>1. UNCHANGED <<s3, backend, recorded>>
    BY <1>7 DEF S3List
  <2>2. StoresKept
    BY <2>1, <1>2
  <2>3. PICK W \in Walked(Objects, call[c].since) :
          Answer(c, "listed", {k \in W : bucket[k].run = call[c].target})
    BY <1>7 DEF S3List
  <2> DEFINE S == {k \in W : bucket[k].run = call[c].target}
  <2>4. S \in SUBSET Key
    BY <2>3 DEF Walked, Objects
  <2>5. [result |-> "listed", value |-> S] \in Results
    BY <2>4, PlainAnswers
  <2>6. Answer(c, "listed", S)
    BY <2>3
  <2> HIDE DEF S
  <2> QED
    BY <2>2, <2>5, <2>6, AnswerKeeps
<1> QED
  BY <1>1, <1>3, <1>4, <1>5, <1>6, <1>7 DEF S3Step

\* A step that no caller sees.
LEMMA UnseenKeeps ==
  ASSUME IInv, StoresKept, UNCHANGED client
  PROVE  IInv'
<1>1. \A d \in Client : (At(d) /\ Staged(d))'
  <2> SUFFICES ASSUME NEW d \in Client PROVE (At(d) /\ Staged(d))'
    OBVIOUS
  <2>1. Idles(d)
    BY DEF client, Idles
  <2> QED
    BY <2>1, OthersKeep DEF IInv, StoresKept
<1>2. CallsTyped' /\ asked' \subseteq Key \X Content
  BY DEF IInv, CallsTyped, client, StoresKept
<1>3. \A r \in recorded' : Shows(r)'
  BY ShowsKeeps DEF IInv, StoresKept
<1>4. NoFalseAlarm'
  <2> SUFFICES ASSUME NEW d \in Client, answer'[d] # None, answer'[d].result = "integrity"
               PROVE  Unreadable'
    BY DEF NoFalseAlarm, Unreadable
  <2>1. Unreadable
    BY DEF client, IInv, NoFalseAlarm, Unreadable
  <2> QED
    BY <2>1, UnreadableKeeps DEF StoresKept
<1> QED
  BY <1>1, <1>2, <1>3, <1>4 DEF IInv, StoresKept

LEMMA LateKeeps ==
  ASSUME IInv, NEW r \in inflight, S3Late(r), UNCHANGED <<items, files, asked>>
  PROVE  IInv'
<1>1. r \in asked /\ Arrives(r) /\ inflight' \subseteq asked /\ UNCHANGED callVars
  BY DEF S3Late, IInv
<1>2. StoresKept
  BY <1>1, ArrivesKeeps DEF callVars
<1> QED
  BY <1>1, <1>2, UnseenKeeps DEF callVars

\* A call fails, or a process dies before it has emitted its event.
LEMMA BrokenKeeps ==
  ASSUME IInv, NEW c \in Client, Broken(c)
  PROVE  IInv'
<1>1. UNCHANGED <<backend, stores, asked, recorded>>
  BY DEF Broken, Fails, Dies
<1>2. StoresKept
  BY <1>1, StillKept
<1>3. CASE Fails(c)
  BY <1>2, <1>3, PlainAnswers, AnswerKeeps DEF Fails
<1>4. CASE stage[c] = "emit" /\ Dies({c})
  <2>1. call[c] = None
    BY <1>4 DEF IInv, At
  <2>2. /\ answer' = answer
        /\ call' = [d \in Client |-> IF d = c THEN None ELSE call[d]]
        /\ saw' = [d \in Client |-> IF d = c THEN None ELSE saw[d]]
        /\ stage' = [d \in Client |-> IF d = c THEN "idle" ELSE stage[d]]
    BY <1>4, <2>1 DEF Dies, IInv, CallsTyped
  <2>3. Only(c)
    BY <2>2 DEF Only, Idles, IInv, CallsTyped, Stages
  <2>4. At(c)' /\ Staged(c)'
    BY <2>2 DEF At, Staged
  <2>5. answer'[c] # None /\ answer'[c].result = "integrity" => Unreadable
    BY <2>2 DEF IInv, NoFalseAlarm, Unreadable
  <2>6. asked' \subseteq Key \X Content
    BY <1>1 DEF IInv
  <2> QED
    BY <1>2, <2>3, <2>4, <2>5, <2>6, StepKeeps DEF StoresKept
<1> QED
  BY <1>3, <1>4 DEF Broken

\* The process of the memory store goes, with all its callers and all it held.
LEMMA RestartIs ==
  ASSUME IInv, Restart
  PROVE  /\ backend = "memory" /\ UNCHANGED <<backend, files, s3, asked, recorded>>
         /\ items' = [k \in Key |-> None] /\ Held' = items'
         /\ call' = [d \in Client |-> None] /\ saw' = [d \in Client |-> None]
         /\ stage' = [d \in Client |-> "idle"]
         /\ answer' = [d \in Client |-> IF call[d] # None THEN [result |-> "failed", value |-> None]
                                        ELSE answer[d]]
<1>1. /\ backend = "memory" /\ UNCHANGED <<backend, files, s3, asked, recorded>>
      /\ items' = [k \in Key |-> None]
      /\ call' = [d \in Client |-> None] /\ saw' = [d \in Client |-> None]
      /\ stage' = [d \in Client |-> "idle"]
      /\ answer' = [d \in Client |-> IF call[d] # None THEN [result |-> "failed", value |-> None]
                                     ELSE answer[d]]
  BY DEF Restart, MemoryRestart, Dies, Durable
<1> QED
  BY <1>1, HeldWillBe

LEMMA RestartKeeps ==
  ASSUME IInv, Restart
  PROVE  IInv'
<1> USE RestartIs
<1>1. StoresTyped'
  BY DEF IInv, StoresTyped, Holdings, files, s3
<1>2. CallsTyped'
  <2>1. answer' \in [Client -> Results \cup {None}]
    BY PlainAnswers DEF IInv, CallsTyped
  <2> QED
    BY <2>1 DEF CallsTyped, Stages
<1>3. FilesSound'
  BY DEF IInv, FilesSound, Published, Intact, files
<1>4. \A d \in Client : At(d)' /\ Staged(d)'
  BY DEF At, Staged
<1>5. \A r \in recorded' : Shows(r)'
  BY DEF IInv, Shows, Durable
<1>6. NoFalseAlarm'
  BY DEF IInv, NoFalseAlarm, Published, Readable, files
<1>7. inflight' \subseteq asked' /\ asked' \subseteq Key \X Content
  BY DEF IInv, s3
<1> QED
  BY <1>1, <1>2, <1>3, <1>4, <1>5, <1>6, <1>7 DEF IInv

LEMMA NextKeeps ==
  ASSUME IInv, [Next]_vars
  PROVE  IInv'
<1>1. ASSUME NEW c \in Client,
             NewCall(c) \/ Created(c) \/ MemoryNext(c) \/ FilesNext(c) \/ S3Next(c) \/ Broken(c)
      PROVE  IInv'
  BY <1>1, NewCallKeeps, CreatedKeeps, MemoryKeeps, FilesKeeps, S3Keeps, BrokenKeeps
<1>2. ASSUME NEW r \in inflight, S3Late(r) /\ UNCHANGED <<items, files, asked>>
      PROVE  IInv'
  BY <1>2, LateKeeps
<1>3. ASSUME UNCHANGED vars
      PROVE  IInv'
  BY <1>3, StillKept, UnseenKeeps DEF vars, callVars
<1> QED
  BY <1>1, <1>2, <1>3, RestartKeeps DEF Next

\* In every reachable state, whatever has failed: what each call knows of the
\* store is still so, and what is recorded is stored.
THEOREM Invariance == Spec => []IInv
<1>1. IInv /\ [Next]_vars => IInv'
  BY NextKeeps
<1> QED
  BY InitEstablishes, <1>1, PTL DEF Spec

\* A filesystem store raises an integrity error for a manifest beyond the size
\* limit only, never for what puts, crashes and races have left behind.
THEOREM AlarmsAreTrue == Spec => []NoFalseAlarm
<1>1. IInv => NoFalseAlarm
  BY DEF IInv
<1> QED
  BY Invariance, <1>1, PTL

\* What the control plane shows of an artifact is in a durable store, with
\* that content and for that run.
THEOREM RecordsAreStored == Spec => []RecordedIsStored
<1>1. IInv => RecordedIsStored
  BY DEF IInv, Shows, RecordedIsStored
<1> QED
  BY Invariance, <1>1, PTL

-----------------------------------------------------------------------------
(* Every backend implements ArtifactStore *)

\* What the interface sees of an answer.
Failed == [result |-> "failed", value |-> None]
Shown(a) == IF a # None /\ a.result = "integrity" THEN Failed ELSE a

LEMMA InitMaps ==
  ASSUME Init
  PROVE  A!Init
<1> USE DEF Init, CallInit, MemoryInit, FilesInit, S3Init
<1>1. Held \in [Key -> {None}]
  BY HeldIs
<1>2. [c \in Client |-> Shown(answer[c])] = [c \in Client |-> None]
  BY DEF Shown
<1> QED
  BY <1>1, <1>2 DEF A!Init, Shown, Failed, Durable

\* Steps that the interface does not show.
LEMMA QuietMaps ==
  ASSUME UNCHANGED <<backend, asked, call, answer>>, Held' = Held
  PROVE  UNCHANGED A!vars
BY DEF A!vars, Durable

\* The step of a store that answers a call.
LEMMA AnswersMaps ==
  ASSUME IInv, NEW c \in Client, call[c] # None, NEW a \in Results,
         Shown(a) \in A!Permitted(c, Held'),
         call' = [call EXCEPT ![c] = None], answer' = [answer EXCEPT ![c] = a]
  PROVE  A!Answers(c, Held')
<1> DEFINE told == [d \in Client |-> Shown(answer[d])]
<1>1. [d \in Client |-> Shown(answer'[d])] = [told EXCEPT ![c] = Shown(a)]
  BY DEF IInv, CallsTyped
<1> QED
  BY <1>1 DEF A!Answers, Shown, Failed

LEMMA AnswerMaps ==
  ASSUME IInv, NEW c \in Client, call[c] # None, NEW result, NEW value, Answer(c, result, value),
         [result |-> result, value |-> value] \in Results,
         result = "integrity" \/ [result |-> result, value |-> value] \in A!Permitted(c, Held),
         UNCHANGED <<backend, asked>>, Held' = Held
  PROVE  A!Next
<1> DEFINE a == [result |-> result, value |-> value]
<1>1. Failed \in A!Permitted(c, Held)
  BY DEF A!Permitted, Failed
<1>2. Shown(a) \in A!Permitted(c, Held)
  BY <1>1, NoneAssumption DEF Shown
<1>3. call' = [call EXCEPT ![c] = None] /\ answer' = [answer EXCEPT ![c] = a]
  BY DEF Answer
<1>4. A!Answers(c, Held')
  BY <1>2, <1>3, AnswersMaps
<1>5. A!Answers(c, Held)
  BY <1>4 DEF A!Answers
<1>6. UNCHANGED <<Durable, Held, asked>>
  BY DEF Durable
<1> QED
  BY <1>5, <1>6 DEF A!Next

\* A call that fails is always permitted to.
LEMMA FailedMaps ==
  ASSUME IInv, NEW c \in Client, call[c] # None, Answer(c, "failed", None),
         UNCHANGED <<backend, asked>>, Held' = Held
  PROVE  A!Next
<1>1. [result |-> "failed", value |-> None] \in A!Permitted(c, Held)
  BY DEF A!Permitted
<1> QED
  BY <1>1, PlainAnswers, AnswerMaps

\* put finds the key taken.
LEMMA ConflictMaps ==
  ASSUME IInv, NEW c \in Client, call[c] # None, call[c].op = "put", Answer(c, "conflict", None),
         Held[call[c].target] # None, UNCHANGED <<backend, asked>>, Held' = Held
  PROVE  A!Next
<1>1. call[c].target \in Key
  BY CallFields DEF IInv
<1>2. [result |-> "conflict", value |-> None] \in A!Permitted(c, Held)
  BY <1>1 DEF A!Permitted
<1> QED
  BY <1>2, PlainAnswers, AnswerMaps

\* put finds its own artifact.
LEMMA StoredPermitted ==
  ASSUME IInv, NEW c \in Client, call[c] # None, call[c].op = "put",
         Held'[call[c].target] = call[c].content
  PROVE  [result |-> "stored", value |-> call[c].content] \in A!Permitted(c, Held')
BY DEF A!Permitted

LEMMA PutReturnsMaps ==
  ASSUME IInv, NEW c \in Client, call[c] # None, call[c].op = "put", PutReturns(c),
         Held'[call[c].target] = call[c].content, UNCHANGED <<backend, asked>>
  PROVE  A!Answers(c, Held')
<1> DEFINE a == [result |-> "stored", value |-> call[c].content]
<1>1. a \in Results
  BY CallFields DEF IInv, Results
<1>2. Shown(a) \in A!Permitted(c, Held')
  BY StoredPermitted DEF Shown
<1>3. call' = [call EXCEPT ![c] = None] /\ answer' = [answer EXCEPT ![c] = a]
  BY DEF PutReturns
<1> QED
  BY <1>1, <1>2, <1>3, AnswersMaps

LEMMA FoundHereMaps ==
  ASSUME IInv, NEW c \in Client, call[c] # None, call[c].op = "put", PutReturns(c),
         Held[call[c].target] = call[c].content, UNCHANGED <<backend, asked>>, Held' = Held
  PROVE  A!Next
<1>1. A!Answers(c, Held')
  BY PutReturnsMaps
<1>2. A!Answers(c, Held)
  BY <1>1 DEF A!Answers
<1>3. UNCHANGED <<Durable, Held, asked>>
  BY DEF Durable
<1> QED
  BY <1>2, <1>3 DEF A!Next

\* put stores its artifact.
LEMMA StoresMaps ==
  ASSUME IInv, NEW c \in Client, call[c] # None, call[c].op = "put", PutReturns(c),
         Held' = [Held EXCEPT ![call[c].target] = call[c].content],
         Held[call[c].target] = None \/ ~Durable, UNCHANGED <<backend, asked>>
  PROVE  A!Next
<1>1. call[c].target \in Key /\ Held \in Holdings
  BY CallFields, HeldTyped DEF IInv
<1>2. Held'[call[c].target] = call[c].content
  BY <1>1 DEF Holdings
<1>3. A!Answers(c, Held')
  BY <1>2, PutReturnsMaps
<1> DEFINE w == <<call[c].target, call[c].content>>
<1>4. w \in asked
  BY DEF IInv, At, InProgress
<1>5. A!Takes(w[1], w[2])
  BY <1>4 DEF A!Takes, Durable
<1> QED
  BY <1>3, <1>4, <1>5 DEF A!Next

\* get and list answer what the store holds.
LEMMA GetMaps ==
  ASSUME IInv, NEW c \in Client, call[c] # None, call[c].op = "get",
         UNCHANGED <<backend, asked>>, Held' = Held,
         NEW found, found = Held[call[c].target],
         IF found = None THEN Answer(c, "absent", None) ELSE Answer(c, "found", found)
  PROVE  A!Next
<1>1. call[c].target \in Key /\ Held \in Holdings
  BY CallFields, HeldTyped DEF IInv
<1>2. CASE found = None
  <2>1. call[c].since[call[c].target] = None
    BY <1>1, <1>2 DEF IInv, At, InProgress
  <2>2. [result |-> "absent", value |-> None] \in A!Permitted(c, Held)
    BY <2>1 DEF A!Permitted
  <2> QED
    BY <1>2, <2>2, PlainAnswers, AnswerMaps
<1>3. CASE found # None
  <2>1. [result |-> "found", value |-> found] \in A!Permitted(c, Held)
    BY <1>3 DEF A!Permitted
  <2>2. [result |-> "found", value |-> found] \in Results
    BY <1>1, <1>3, PlainAnswers DEF Holdings
  <2> QED
    BY <1>3, <2>1, <2>2, AnswerMaps
<1> QED
  BY <1>2, <1>3

LEMMA ListMaps ==
  ASSUME IInv, NEW c \in Client, call[c] # None, call[c].op = "list",
         UNCHANGED <<backend, asked>>, Held' = Held, NEW W,
         \A k \in W : k \in Key /\ Held[k] # None,
         \A k \in Key : call[c].since[k] # None => k \in W,
         Answer(c, "listed", {k \in W : Held[k].run = call[c].target})
  PROVE  A!Next
<1> DEFINE S == {k \in W : Held[k].run = call[c].target}
<1>1. S \in SUBSET Key
  OBVIOUS
<1>2. [result |-> "listed", value |-> S] \in A!Permitted(c, Held)
  BY DEF A!Permitted
<1>3. [result |-> "listed", value |-> S] \in Results
  BY <1>1, PlainAnswers
<1>4. Answer(c, "listed", S)
  OBVIOUS
<1> HIDE DEF S
<1> QED
  BY <1>2, <1>3, <1>4, AnswerMaps

\* A new call is asked for.
LEMMA NewCallMaps ==
  ASSUME IInv, NEW c \in Client, NewCall(c)
  PROVE  A!Next
<1>1. /\ Only(c) /\ answer'[c] = None /\ call[c] = None
      /\ call'[c] \in Calls /\ call'[c].since = Held
      /\ UNCHANGED <<backend, recorded>>
  BY NewCallIs
<1>2. /\ UNCHANGED stores
      /\ asked' = IF call'[c].op = "put" THEN asked \cup {<<call'[c].target, call'[c].content>>} ELSE asked
  BY DEF NewCall
<1>3. Held' = Held
  BY <1>1, <1>2 DEF Held, MemoryObjects, FilesObjects, S3Objects, stores, files, s3
<1>4. call'[c] # None
  BY <1>1, NoneAssumption
<1>5. UNCHANGED <<Durable, Held>>
  BY <1>1, <1>3 DEF Durable
<1>6. A!Ask(c)
  BY <1>1, <1>2, <1>4, <1>5 DEF A!Ask
<1>7. \A d \in Client \ {c} : call'[d] = call[d] /\ answer'[d] = answer[d]
  BY <1>1 DEF Only, Idles
<1>8. A!Others(c)
  BY <1>7 DEF A!Others
<1> QED
  BY <1>1, <1>6, <1>8 DEF A!Next

LEMMA MemoryMaps ==
  ASSUME IInv, NEW c \in Client, MemoryNext(c)
  PROVE  [A!Next]_A!vars
<1>1. backend = "memory" /\ MemoryStep(c) /\ UNCHANGED <<backend, files, s3, asked>>
  BY DEF MemoryNext, MemoryStep, MemoryPut, MemoryInsert, MemoryGet, MemoryList, MemoryListed
<1>2. Held = items /\ Held' = items'
  BY <1>1, HeldIs, HeldWillBe
<1>3. CASE MemoryPut(c)
  <2>1. call[c] # None /\ call[c].op = "put" /\ Held' = Held
    BY <1>2, <1>3, Calling DEF MemoryPut
  <2>2. CASE Proceeds(c, "insert")
    BY <1>1, <2>1, <2>2, QuietMaps DEF Proceeds
  <2>3. CASE items[call[c].target] = call[c].content /\ PutReturns(c)
    BY <1>1, <1>2, <2>1, <2>3, FoundHereMaps
  <2>4. CASE items[call[c].target] \notin {None, call[c].content} /\ Answer(c, "conflict", None)
    BY <1>1, <1>2, <2>1, <2>4, ConflictMaps
  <2> QED
    BY <1>3, <2>2, <2>3, <2>4 DEF MemoryPut
<1>4. CASE MemoryInsert(c)
  <2>1. call[c] # None /\ call[c].op = "put"
    BY <1>4, Calling DEF MemoryInsert, IInv, At
  <2>2. Held' = [Held EXCEPT ![call[c].target] = call[c].content] /\ PutReturns(c)
    BY <1>2, <1>4 DEF MemoryInsert
  <2> QED
    BY <1>1, <2>1, <2>2, StoresMaps DEF Durable
<1>5. CASE MemoryGet(c)
  <2>1. call[c] # None /\ call[c].op = "get" /\ Held' = Held
    BY <1>2, <1>5, Calling DEF MemoryGet
  <2> DEFINE found == items[call[c].target]
  <2>2. IF found = None THEN Answer(c, "absent", None) ELSE Answer(c, "found", found)
    BY <1>5 DEF MemoryGet
  <2>3. found = Held[call[c].target]
    BY <1>2
  <2> HIDE DEF found
  <2> QED
    BY <1>1, <2>1, <2>2, <2>3, GetMaps
<1>6. CASE MemoryList(c)
  BY <1>1, <1>2, <1>6, QuietMaps DEF MemoryList, Reads
<1>7. CASE MemoryListed(c)
  <2>1. call[c] # None /\ call[c].op = "list" /\ Held' = Held
    BY <1>2, <1>7, Calling DEF MemoryListed, IInv, At
  <2>2. CASE saw[c] = MemoryKeys
    <3>1. \A k \in MemoryKeys : k \in Key /\ Held[k] # None
      BY <1>2 DEF MemoryKeys
    <3>2. \A k \in Key : call[c].since[k] # None => k \in MemoryKeys
      BY <1>2, <2>1 DEF IInv, At, InProgress, MemoryKeys
    <3>3. Answer(c, "listed", {k \in MemoryKeys : Held[k].run = call[c].target})
      BY <1>2, <1>7, <2>2 DEF MemoryListed
    <3> QED
      BY <1>1, <2>1, <3>1, <3>2, <3>3, ListMaps
  <2>3. CASE saw[c] # MemoryKeys
    BY <1>1, <1>7, <2>1, <2>3, FailedMaps DEF MemoryListed
  <2> QED
    BY <2>2, <2>3
<1> QED
  BY <1>1, <1>3, <1>4, <1>5, <1>6, <1>7 DEF MemoryStep

\* The answer of a put whose key is taken.
LEMMA ConvergesMaps ==
  ASSUME IInv, NEW c \in Client, call[c] # None, call[c].op = "put",
         call[c].target \in Published, Converges(c),
         Held = manifests, Held' = Held, UNCHANGED <<backend, asked>>
  PROVE  A!Next
<1>1. CASE Answer(c, "integrity", None)
  BY <1>1, PlainAnswers, AnswerMaps
<1>2. CASE manifests[call[c].target] = call[c].content /\ PutReturns(c)
  BY <1>2, FoundHereMaps
<1>3. CASE Answer(c, "conflict", None)
  BY <1>3, ConflictMaps DEF Published
<1> QED
  BY <1>1, <1>2, <1>3 DEF Converges

LEMMA FilesMaps ==
  ASSUME IInv, NEW c \in Client, FilesNext(c)
  PROVE  [A!Next]_A!vars
<1>1. backend = "filesystem" /\ FilesStep(c) /\ UNCHANGED <<backend, items, s3, asked>>
  BY DEF FilesNext, FilesStep, FilesPut, PublishBody, PublishManifest, PutAgain, FilesGet, ReadBody, Walk, Check
<1>2. Held = manifests /\ Held' = manifests'
  BY <1>1, HeldIs, HeldWillBe
<1>3. CASE FilesPut(c)
  <2>1. call[c] # None /\ call[c].op = "put" /\ Held' = Held
    BY <1>2, <1>3, Calling DEF FilesPut, files
  <2>2. CASE call[c].target \in Published /\ Converges(c)
    BY <1>1, <1>2, <2>1, <2>2, ConvergesMaps
  <2>3. CASE Proceeds(c, "body")
    BY <1>1, <2>1, <2>3, QuietMaps DEF Proceeds
  <2> QED
    BY <1>3, <2>2, <2>3 DEF FilesPut
<1>4. CASE PublishBody(c)
  BY <1>1, <1>2, <1>4, QuietMaps DEF PublishBody, Proceeds
<1>5. CASE PublishManifest(c)
  <2>1. call[c] # None /\ call[c].op = "put"
    BY <1>5, Calling DEF PublishManifest, IInv, At
  <2>2. call[c].target \in Key
    BY <2>1, CallFields DEF IInv
  <2>3. CASE call[c].target \in Published
    BY <1>1, <1>2, <1>5, <2>3, QuietMaps DEF PublishManifest, LinkManifest, Proceeds
  <2>4. CASE call[c].target \notin Published
    <3>1. Held' = [Held EXCEPT ![call[c].target] = call[c].content] /\ PutReturns(c)
      BY <1>2, <1>5, <2>4 DEF PublishManifest, LinkManifest
    <3>2. Held[call[c].target] = None
      BY <1>2, <2>2, <2>4 DEF Published
    <3> QED
      BY <1>1, <2>1, <3>1, <3>2, StoresMaps
  <2> QED
    BY <2>3, <2>4
<1>6. CASE PutAgain(c)
  <2>1. /\ call[c] # None /\ call[c].op = "put" /\ Held' = Held
        /\ call[c].target \in Published /\ Converges(c)
    BY <1>2, <1>6, Calling DEF PutAgain, IInv, At, files
  <2> QED
    BY <1>1, <1>2, <2>1, ConvergesMaps
<1>7. CASE FilesGet(c)
  <2>1. call[c] # None /\ call[c].op = "get" /\ Held' = Held
    BY <1>2, <1>7, Calling DEF FilesGet, files
  <2>2. CASE call[c].target \notin Published /\ Answer(c, "absent", None)
    <3>1. Held[call[c].target] = None
      BY <1>2, <2>1, <2>2, CallFields DEF Published, IInv
    <3> QED
      BY <1>1, <2>1, <2>2, <3>1, GetMaps
  <2>3. CASE Answer(c, "integrity", None)
    BY <1>1, <2>1, <2>3, PlainAnswers, AnswerMaps
  <2>4. CASE Reads(c, manifests[call[c].target], "read")
    BY <1>1, <2>1, <2>4, QuietMaps DEF Reads
  <2> QED
    BY <1>7, <2>2, <2>3, <2>4 DEF FilesGet
<1>8. CASE ReadBody(c)
  <2>1. /\ call[c] # None /\ call[c].op = "get" /\ Held' = Held
        /\ call[c].target \in Published /\ saw[c] = manifests[call[c].target]
    BY <1>2, <1>8, Calling DEF ReadBody, IInv, At, files
  <2>2. Intact(saw[c]) /\ saw[c] # None
    BY <2>1, PublishedIntact DEF Published
  <2>3. Answer(c, "found", saw[c])
    BY <1>8, <2>2 DEF ReadBody
  <2>4. saw[c] = Held[call[c].target]
    BY <1>2, <2>1
  <2> QED
    BY <1>1, <2>1, <2>2, <2>3, <2>4, GetMaps
<1>9. CASE Walk(c)
  BY <1>1, <1>2, <1>9, QuietMaps DEF Walk, Reads, files
<1>10. CASE Check(c)
  <2>1. /\ call[c] # None /\ call[c].op = "list" /\ Held' = Held
        /\ saw[c] \subseteq Published
        /\ \A k \in Key : call[c].since[k] # None => k \in saw[c]
    BY <1>2, <1>10, Calling DEF Check, IInv, At, files
  <2>2. CASE Answer(c, "integrity", None)
    BY <1>1, <2>1, <2>2, PlainAnswers, AnswerMaps
  <2>3. CASE Answer(c, "listed", {k \in saw[c] : manifests[k].run = call[c].target})
    <3>1. \A k \in saw[c] : k \in Key /\ Held[k] # None
      BY <1>2, <2>1 DEF Published
    <3>2. Answer(c, "listed", {k \in saw[c] : Held[k].run = call[c].target})
      BY <1>2, <2>3
    <3> QED
      BY <1>1, <2>1, <3>1, <3>2, ListMaps
  <2> QED
    BY <1>10, <2>2, <2>3 DEF Check
<1> QED
  BY <1>1, <1>3, <1>4, <1>5, <1>6, <1>7, <1>8, <1>9, <1>10 DEF FilesStep

\* A conditional request takes effect as a write of the interface, once.
LEMMA ArrivesMaps ==
  ASSUME IInv, NEW r \in asked, Arrives(r), UNCHANGED <<backend, asked, call, answer>>,
         backend = "s3" => Held = bucket /\ Held' = bucket',
         backend # "s3" => Held' = Held
  PROVE  [A!Next]_A!vars
<1>1. CASE backend = "s3" /\ bucket[r[1]] = None
  <2>1. r = <<r[1], r[2]>>
    BY DEF IInv
  <2>2. Held[r[1]] = None /\ Held' = [Held EXCEPT ![r[1]] = r[2]]
    BY <1>1 DEF Arrives
  <2>3. A!Takes(r[1], r[2])
    BY <2>1, <2>2 DEF A!Takes, Durable
  <2> QED
    BY <2>3 DEF A!Next
<1>2. CASE ~(backend = "s3" /\ bucket[r[1]] = None)
  <2>1. Held' = Held
    BY <1>2 DEF Arrives
  <2> QED
    BY <2>1, QuietMaps
<1> QED
  BY <1>1, <1>2

LEMMA S3Maps ==
  ASSUME IInv, NEW c \in Client, S3Next(c)
  PROVE  [A!Next]_A!vars
<1>1. backend = "s3" /\ S3Step(c) /\ UNCHANGED <<backend, items, files, asked>>
  BY DEF S3Next, S3Step, S3Put, S3Send, S3GivesUp, S3Get, S3List, Fails
<1>2. Held = bucket /\ Held' = bucket'
  BY <1>1, HeldIs, HeldWillBe
<1>3. CASE S3Put(c)
  <2>1. call[c] # None /\ call[c].op = "put" /\ Held' = Held
    BY <1>2, <1>3, Calling DEF S3Put, s3
  <2>2. CASE Proceeds(c, "send")
    BY <1>1, <2>1, <2>2, QuietMaps DEF Proceeds
  <2>3. CASE bucket[call[c].target] = call[c].content /\ PutReturns(c)
    BY <1>1, <1>2, <2>1, <2>3, FoundHereMaps
  <2>4. CASE bucket[call[c].target] \notin {None, call[c].content} /\ Answer(c, "conflict", None)
    BY <1>1, <1>2, <2>1, <2>4, ConflictMaps
  <2> QED
    BY <1>3, <2>2, <2>3, <2>4 DEF S3Put
<1>4. CASE S3Send(c)
  <2> DEFINE request == <<call[c].target, call[c].content>>
  <2>1. call[c] # None /\ call[c].op = "put" /\ request \in asked /\ Arrives(request)
    BY <1>4, Calling DEF S3Send, IInv, At, InProgress
  <2>2. CASE bucket[call[c].target] = None /\ PutReturns(c)
    <3>1. Held' = [Held EXCEPT ![call[c].target] = call[c].content]
      BY <1>2, <2>1, <2>2 DEF Arrives
    <3> QED
      BY <1>1, <1>2, <2>1, <2>2, <3>1, StoresMaps
  <2>3. CASE bucket[call[c].target] # None /\ Answer(c, "conflict", None)
    <3>1. Held' = Held
      BY <1>2, <2>1, <2>3 DEF Arrives
    <3> QED
      BY <1>1, <1>2, <2>1, <2>3, <3>1, ConflictMaps
  <2>4. CASE Proceeds(c, "send")
    BY <1>1, <1>2, <2>1, <2>4, ArrivesMaps DEF Proceeds
  <2> QED
    BY <1>4, <2>2, <2>3, <2>4 DEF S3Send
<1>5. CASE S3GivesUp(c)
  BY <1>1, <1>2, <1>5, FailedMaps DEF S3GivesUp, Fails
<1>6. CASE S3Get(c)
  <2>1. call[c] # None /\ call[c].op = "get" /\ Held' = Held
    BY <1>2, <1>6, Calling DEF S3Get, s3
  <2> DEFINE found == bucket[call[c].target]
  <2>2. IF found = None THEN Answer(c, "absent", None) ELSE Answer(c, "found", found)
    BY <1>6 DEF S3Get
  <2>3. found = Held[call[c].target]
    BY <1>2
  <2> HIDE DEF found
  <2> QED
    BY <1>1, <2>1, <2>2, <2>3, GetMaps
<1>7. CASE S3List(c)
  <2>1. call[c] # None /\ call[c].op = "list" /\ Held' = Held
    BY <1>2, <1>7, Calling DEF S3List, s3
  <2>2. PICK W \in Walked(Objects, call[c].since) :
          Answer(c, "listed", {k \in W : bucket[k].run = call[c].target})
    BY <1>7 DEF S3List
  <2>3. \A k \in W : k \in Key /\ Held[k] # None
    BY <1>2, <2>2 DEF Walked, Objects
  <2>4. \A k \in Key : call[c].since[k] # None => k \in Objects
    BY <1>2, <2>1 DEF IInv, At, InProgress, Objects
  <2>5. \A k \in Key : call[c].since[k] # None => k \in W
    BY <2>2, <2>4 DEF Walked
  <2>6. Answer(c, "listed", {k \in W : Held[k].run = call[c].target})
    BY <1>2, <2>2
  <2> QED
    BY <1>1, <2>1, <2>3, <2>5, <2>6, ListMaps
<1> QED
  BY <1>1, <1>3, <1>4, <1>5, <1>6, <1>7 DEF S3Step

LEMMA BrokenMaps ==
  ASSUME IInv, NEW c \in Client, Broken(c)
  PROVE  [A!Next]_A!vars
<1>1. UNCHANGED <<backend, stores, asked, recorded>>
  BY DEF Broken, Fails, Dies
<1>2. Held' = Held
  BY <1>1, StillKept
<1>3. CASE Fails(c)
  BY <1>1, <1>2, <1>3, FailedMaps DEF Fails
<1>4. CASE stage[c] = "emit" /\ Dies({c})
  <2>1. call[c] = None
    BY <1>4 DEF IInv, At
  <2>2. answer' = answer /\ call' = call
    BY <1>4, <2>1 DEF Dies, IInv, CallsTyped
  <2> QED
    BY <1>1, <1>2, <2>2, QuietMaps
<1> QED
  BY <1>3, <1>4 DEF Broken

LEMMA RestartMaps ==
  ASSUME IInv, Restart
  PROVE  A!Next
<1> USE RestartIs
<1>1. ~Durable /\ UNCHANGED <<Durable, asked>> /\ Held' = [k \in Key |-> None]
  BY DEF Durable
<1>2. \A c \in Client : call'[c] = None
  OBVIOUS
<1>3. \A c \in Client : Shown(answer'[c]) \in {None, Shown(answer[c]), Failed}
  BY DEF Shown, Failed
<1>4. A!Lose
  BY <1>1, <1>2, <1>3 DEF A!Lose, Shown, Failed
<1> QED
  BY <1>4 DEF A!Next

LEMMA NextMaps ==
  ASSUME IInv, [Next]_vars
  PROVE  [A!Next]_A!vars
<1>1. ASSUME NEW c \in Client, Created(c)
      PROVE  [A!Next]_A!vars
  <2>1. UNCHANGED <<backend, asked, call, answer, stores>>
    BY <1>1 DEF Created, EmitCreated
  <2>2. Held' = Held
    BY <2>1, StillGrows
  <2> QED
    BY <2>1, <2>2, QuietMaps
<1>2. ASSUME NEW c \in Client,
             NewCall(c) \/ Created(c) \/ MemoryNext(c) \/ FilesNext(c) \/ S3Next(c) \/ Broken(c)
      PROVE  [A!Next]_A!vars
  BY <1>1, <1>2, NewCallMaps, MemoryMaps, FilesMaps, S3Maps, BrokenMaps
<1>3. ASSUME NEW r \in inflight, S3Late(r) /\ UNCHANGED <<items, files, asked>>
      PROVE  [A!Next]_A!vars
  <2>1. r \in asked /\ Arrives(r) /\ inflight' \subseteq asked /\ UNCHANGED callVars
    BY <1>3 DEF S3Late, IInv
  <2>2. UNCHANGED <<backend, asked, call, answer, recorded>>
    BY <1>3, <2>1 DEF callVars, client
  <2>3. /\ backend = "s3" => Held = bucket /\ Held' = bucket'
        /\ backend # "s3" => Held' = Held
    BY <1>3, <2>1, <2>2, ArrivesKeeps
  <2> QED
    BY <2>1, <2>2, <2>3, ArrivesMaps
<1>4. ASSUME UNCHANGED vars
      PROVE  [A!Next]_A!vars
  <2>1. UNCHANGED <<backend, asked, call, answer, stores>>
    BY <1>4 DEF vars, callVars, client
  <2>2. Held' = Held
    BY <2>1, StillGrows
  <2> QED
    BY <2>1, <2>2, QuietMaps
<1> QED
  BY <1>2, <1>3, <1>4, RestartMaps DEF Next

\* Each of the three backends is an artifact store: an object is written once
\* and never changes, and every answer is one the interface permits, through
\* races of puts, failures, crashes, requests sent again and requests that
\* arrive late.
THEOREM StoreRefinement == Spec => ImplementsStore
<1>1. Init => A!Init
  BY InitMaps
<1>2. IInv /\ [Next]_vars => [A!Next]_A!vars
  BY NextMaps
<1> QED
  BY Invariance, <1>1, <1>2, PTL DEF Spec, ImplementsStore, A!Spec
=============================================================================
