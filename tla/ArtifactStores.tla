---------------------------- MODULE ArtifactStores ----------------------------
(***************************************************************************)
(* The artifact stores of a deployment: the configuration selects one of   *)
(* three backends (runtime/artifact_store.py), and workflows, pages and    *)
(* lists use it at the same time.                                          *)
(***************************************************************************)
EXTENDS MemoryArtifacts, FilesystemArtifacts, S3Artifacts

VARIABLE asked     \* history: the writes that were asked for

stores == <<items, files, s3>>
vars == <<callVars, stores, asked>>

\* What the selected store holds.
Held == CASE backend = "memory" -> MemoryObjects
          [] backend = "filesystem" -> FilesObjects
          [] backend = "s3" -> S3Objects

Durable == backend # "memory"

Init == CallInit /\ MemoryInit /\ FilesInit /\ S3Init /\ asked = {}

NewCall(c) ==
  /\ \/ \E n \in Name, b \in Body, m \in Metadata : Write(c, n, b, m, Held)
     \/ Open(c, Held)
     \/ List(c, Held)
  /\ asked' = IF call'[c].op = "put" THEN asked \cup {<<call'[c].target, call'[c].content>>} ELSE asked
  /\ UNCHANGED stores

Created(c) == EmitCreated(c) /\ UNCHANGED <<stores, asked>>

MemoryNext(c) == backend = "memory" /\ MemoryStep(c) /\ UNCHANGED <<files, s3, asked>>
FilesNext(c) == backend = "filesystem" /\ FilesStep(c) /\ UNCHANGED <<items, s3, asked>>
S3Next(c) == backend = "s3" /\ S3Step(c) /\ UNCHANGED <<items, files, asked>>

\* A call fails, or its process dies, at any point; the store is what it has
\* become by then.
Broken(c) ==
  /\ Durable
  /\ Fails(c) \/ (stage[c] = "emit" /\ Dies({c}))
  /\ UNCHANGED <<stores, asked>>

Restart == ~Durable /\ MemoryRestart /\ UNCHANGED <<files, s3, asked>>

Next ==
  \/ \E c \in Client : NewCall(c) \/ Created(c) \/ MemoryNext(c) \/ FilesNext(c) \/ S3Next(c) \/ Broken(c)
  \/ \E r \in inflight : S3Late(r) /\ UNCHANGED <<items, files, asked>>
  \/ Restart

Spec == Init /\ [][Next]_vars

-----------------------------------------------------------------------------
(* Properties *)

\* A filesystem store that nobody tampers with raises an integrity error for
\* a manifest beyond the size limit only: whatever put, crash or race has left
\* behind, no reader meets a manifest without its body.
NoFalseAlarm ==
  \A c \in Client :
    answer[c] # None /\ answer[c].result = "integrity" => \E k \in Published : ~Readable(k)

\* What the control plane shows is in a durable store, with the content and
\* for the run it is shown with, whatever failed before or after the put.
RecordedIsStored ==
  Durable => \A r \in recorded : Held[r[1]] = r[2] /\ r[2].run = r[1][1]

\* Every backend is an artifact store: objects never change, and the answers
\* of concurrent calls are those of one store, through races of puts, I/O
\* failures, crashes, resent requests and requests that arrive late.
A == INSTANCE ArtifactStore WITH
       durable <- Durable,
       objects <- Held,
       answer <- [c \in Client |->
                    IF answer[c] # None /\ answer[c].result = "integrity"
                    THEN [result |-> "failed", value |-> None] ELSE answer[c]]

ImplementsStore == A!Spec
=============================================================================
