----------------------------- MODULE ArtifactCalls ----------------------------
(***************************************************************************)
(* The callers of an artifact store: workflows that write artifacts with   *)
(* ctx.artifact.write (native/helpers.py), readers and lists.  A write     *)
(* goes through the emission contract (integrations/artifact/emission.py), *)
(* which derives the key from the run and the name, and bounds the         *)
(* metadata.  The modules of the three stores say what a call does.        *)
(***************************************************************************)
EXTENDS Naturals, FiniteSets

CONSTANTS
  Client,      \* the calls that may be made at the same time
  RunOf,       \* the run each client works for
  Name,        \* artifact names
  SlotOf,      \* the slot of a name: _artifact_slot takes the stem of the file name
  BadName,     \* the names, and the slots of names, that are refused
  Body,
  Metadata,    \* metadata as the author gives it
  Canonical,   \* what redaction and normalisation make of it
  BadMetadata, \* the metadata beyond the bounds of the emission contract
  Huge,        \* the canonical metadata whose manifest is beyond _MAX_MANIFEST_BYTES
  None,
  MaxCalls,    \* bound on the calls
  MaxFaults    \* bound on I/O failures, lost messages and crashes

Run == {RunOf[c] : c \in Client}
Slot == {SlotOf[n] : n \in Name}
Key == Run \X Slot
Content == [run : Run, name : Name, body : Body, metadata : Metadata]

ASSUME CallsAssumption ==
  /\ RunOf \in [Client -> Run] /\ SlotOf \in [Name -> Slot] /\ BadName \subseteq Name
  /\ Canonical \in [Metadata -> Metadata] /\ BadMetadata \subseteq Metadata /\ Huge \subseteq Metadata
  /\ None \notin Content /\ MaxCalls \in Nat /\ MaxFaults \in Nat

\* What a store holds.
Holdings == [Key -> Content \cup {None}]

Calls ==
  [op : {"put"}, target : Key, content : Content, since : Holdings]
  \cup [op : {"get"}, target : Key, content : {None}, since : Holdings]
  \cup [op : {"list"}, target : Run, content : {None}, since : Holdings]

Results ==
  [result : {"stored", "conflict", "found", "absent", "failed", "integrity"}, value : Content \cup {None}]
  \cup [result : {"listed"}, value : SUBSET Key]

ASSUME NoneAssumption == None \notin Calls \cup Results

VARIABLES
  backend,     \* the store the configuration selects
  call,        \* the call of each client: [op, target, content, since], or None
  answer,      \* the last answer to each client: [result, value], or None
  stage,       \* how far its call is
  saw,         \* what the call has read: a descriptor, or a set of keys
  recorded,    \* the artifacts the control plane shows: <<key, content>>
  calls,       \* calls so far
  faults       \* faults so far

client == <<call, answer, stage, saw>>
callVars == <<backend, client, recorded, calls, faults>>

-----------------------------------------------------------------------------
(* The emission contract *)

\* build_artifact_identity: one artifact per run and slot.
Identity(run, n) == [run |-> run, slot |-> SlotOf[n]]

StorageKey(identity) == <<identity.run, identity.slot>>

\* The run, the name and its slot, the body and the content type are checked.
NameAllowed(n) == n \notin BadName

\* Metadata is bounded in depth, in breadth and in size.
MetadataAllowed(m) == m \notin BadMetadata

\* The descriptor of a write, and its body.
Descriptor(run, n, b, m) == [run |-> run, name |-> n, body |-> b, metadata |-> Canonical[m]]

-----------------------------------------------------------------------------
(* Calls and answers *)

CallInit ==
  /\ backend \in {"memory", "filesystem", "s3"}
  /\ call = [c \in Client |-> None]
  /\ answer = [c \in Client |-> None]
  /\ stage = [c \in Client |-> "idle"]
  /\ saw = [c \in Client |-> None]
  /\ recorded = {}
  /\ calls = 0
  /\ faults = 0

Fault == faults < MaxFaults /\ faults' = faults + 1

Goto(c, s) == stage' = [stage EXCEPT ![c] = s]

\* The call goes on to s, having read v.
Reads(c, v, s) ==
  /\ saw' = [saw EXCEPT ![c] = v]
  /\ Goto(c, s)
  /\ UNCHANGED <<call, answer>>

\* The call goes on to s.
Proceeds(c, s) == Goto(c, s) /\ UNCHANGED <<call, answer, saw>>

Answer(c, result, value) ==
  /\ answer' = [answer EXCEPT ![c] = [result |-> result, value |-> value]]
  /\ call' = [call EXCEPT ![c] = None]
  /\ saw' = [saw EXCEPT ![c] = None]
  /\ Goto(c, "idle")

\* put returns the descriptor.
PutReturns(c) ==
  /\ answer' = [answer EXCEPT ![c] = [result |-> "stored", value |-> call[c].content]]
  /\ call' = [call EXCEPT ![c] = None]
  /\ saw' = [saw EXCEPT ![c] = <<call[c].target, call[c].content>>]
  /\ Goto(c, "emit")

Begin(c, op, target, content, objects) ==
  /\ stage[c] = "idle" /\ calls < MaxCalls
  /\ calls' = calls + 1
  /\ call' = [call EXCEPT ![c] = [op |-> op, target |-> target, content |-> content, since |-> objects]]
  /\ answer' = [answer EXCEPT ![c] = None]
  /\ Goto(c, "begin")
  /\ UNCHANGED <<backend, saw, recorded, faults>>

\* ctx.artifact.write.  What the contract refuses raises before the store is
\* called, and changes nothing.
Write(c, n, b, m, objects) ==
  /\ NameAllowed(n) /\ MetadataAllowed(m)
  /\ Begin(c, "put", StorageKey(Identity(RunOf[c], n)), Descriptor(RunOf[c], n, b, m), objects)

\* Mutation: the event is emitted before put.
EmitEarly(c) ==
  /\ stage[c] = "begin" /\ call[c].op = "put"
  /\ recorded' = recorded \cup {<<call[c].target, call[c].content>>}
  /\ UNCHANGED <<backend, client, calls, faults>>

\* The artifact_created event of a write: a failure of it is suppressed.
EmitCreated(c) ==
  /\ stage[c] = "emit"
  /\ \/ recorded' = recorded \cup {saw[c]} /\ UNCHANGED faults
     \/ Fault /\ UNCHANGED recorded
  /\ saw' = [saw EXCEPT ![c] = None]
  /\ Goto(c, "idle")
  /\ UNCHANGED <<backend, call, answer, calls>>

\* The page of an artifact reads the body of one the control plane shows.
Open(c, objects) ==
  \E r \in recorded : Begin(c, "get", r[1], None, objects)

List(c, objects) ==
  Begin(c, "list", RunOf[c], None, objects)

\* The processes of the clients in C die.
Dies(C) ==
  /\ Fault
  /\ answer' = [c \in Client |-> IF c \in C /\ call[c] # None THEN [result |-> "failed", value |-> None] ELSE answer[c]]
  /\ call' = [c \in Client |-> IF c \in C THEN None ELSE call[c]]
  /\ saw' = [c \in Client |-> IF c \in C THEN None ELSE saw[c]]
  /\ stage' = [c \in Client |-> IF c \in C THEN "idle" ELSE stage[c]]
  /\ UNCHANGED <<backend, recorded, calls>>

\* An I/O error, or a lost answer, in the middle of a call.
Fails(c) ==
  /\ call[c] # None
  /\ Fault
  /\ Answer(c, "failed", None)
  /\ UNCHANGED <<backend, recorded, calls>>

\* What the state of the store was at the beginning of a listing must be in
\* it, what it is at the end may be.
Walked(keys, since) == {S \in SUBSET keys : \A k \in keys : since[k] # None => k \in S}
=============================================================================
