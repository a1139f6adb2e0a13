-------------------------- MODULE FilesystemArtifacts -------------------------
(***************************************************************************)
(* FilesystemArtifactStore (integrations/artifact/filesystem_store.py): a  *)
(* body is a file named by its digest, a manifest a file named by its key, *)
(* and both are published by a hard link of a temporary file, which never  *)
(* replaces a file.  Temporary files are not seen by any reader.           *)
(***************************************************************************)
EXTENDS ArtifactCalls

VARIABLES
  bodies,      \* the bodies that are published
  manifests    \* Key -> the descriptor its manifest holds, or None

files == <<bodies, manifests>>

FilesObjects == manifests

FilesInit == bodies = {} /\ manifests = [k \in Key |-> None]

Published == {k \in Key : manifests[k] # None}

\* A manifest that is too large is published, and refused by every reader.
Readable(k) == manifests[k].metadata \notin Huge

\* The body a descriptor names is there, and is the one.
Intact(d) == d.body \in bodies

\* A listing looks at the entry of a body, and does not read it.
HasBody(k) == manifests[k].body \in bodies

\* Mutation: an artifact that is there is taken for the caller's if its body is.
ConvergesOnBody(c) ==
  LET found == manifests[call[c].target] IN
  IF ~Readable(call[c].target) \/ ~Intact(found) THEN Answer(c, "integrity", None)
  ELSE IF found.body = call[c].content.body THEN PutReturns(c)
  ELSE Answer(c, "conflict", None)

\* What _load_existing_artifact makes of the manifest and the body of a key
\* that is taken: the answer of put.
Converges(c) ==
  LET found == manifests[call[c].target] IN
  IF ~Readable(call[c].target) \/ ~Intact(found) THEN Answer(c, "integrity", None)
  ELSE IF found = call[c].content THEN PutReturns(c)
  ELSE Answer(c, "conflict", None)

FilesPut(c) ==
  LET q == call[c] IN
  /\ stage[c] = "begin" /\ q.op = "put"
  /\ IF q.target \in Published THEN Converges(c) ELSE Proceeds(c, "body")
  /\ UNCHANGED <<files, backend, recorded, calls, faults>>

\* Mutation: the manifest is published, and the body is not.
ManifestFirst(c) ==
  LET q == call[c] IN
  /\ stage[c] = "body" /\ q.target \notin Published
  /\ manifests' = [manifests EXCEPT ![q.target] = q.content]
  /\ Proceeds(c, "manifest")
  /\ UNCHANGED <<bodies, backend, recorded, calls, faults>>

\* _publish_immutable_bytes: the link of a name that is taken fails.
LinkBody(b) == bodies' = bodies \cup {b}
LinkManifest(k, d) == manifests' = IF k \in Published THEN manifests ELSE [manifests EXCEPT ![k] = d]

\* A body that another put has published is compared and shared.
PublishBody(c) ==
  /\ stage[c] = "body"
  /\ LinkBody(call[c].content.body)
  /\ Proceeds(c, "manifest")
  /\ UNCHANGED <<manifests, backend, recorded, calls, faults>>

\* The put that does not create the manifest reads the one that is there.
PublishManifest(c) ==
  LET q == call[c] IN
  /\ stage[c] = "manifest"
  /\ LinkManifest(q.target, q.content)
  /\ IF q.target \in Published THEN Proceeds(c, "again") ELSE PutReturns(c)
  /\ UNCHANGED <<bodies, backend, recorded, calls, faults>>

PutAgain(c) ==
  /\ stage[c] = "again"
  /\ Converges(c)
  /\ UNCHANGED <<files, backend, recorded, calls, faults>>

\* get reads the manifest, and then the body it names.
FilesGet(c) ==
  LET k == call[c].target IN
  /\ stage[c] = "begin" /\ call[c].op = "get"
  /\ \/ k \notin Published /\ Answer(c, "absent", None)
     \/ k \in Published /\ ~Readable(k) /\ Answer(c, "integrity", None)
     \/ k \in Published /\ Readable(k) /\ Reads(c, manifests[k], "read")
  /\ UNCHANGED <<files, backend, recorded, calls, faults>>

ReadBody(c) ==
  /\ stage[c] = "read"
  /\ IF Intact(saw[c]) THEN Answer(c, "found", saw[c]) ELSE Answer(c, "integrity", None)
  /\ UNCHANGED <<files, backend, recorded, calls, faults>>

\* list_for_run walks the directories of all runs; a manifest published
\* meanwhile is seen or not.
Walk(c) ==
  /\ stage[c] = "begin" /\ call[c].op = "list"
  /\ \E S \in Walked(Published, call[c].since) : Reads(c, S, "check")
  /\ UNCHANGED <<files, backend, recorded, calls, faults>>

\* Every manifest is read, of whatever run; the bodies of the run's own ones
\* must be there.
Check(c) ==
  LET own == {k \in saw[c] : manifests[k].run = call[c].target} IN
  /\ stage[c] = "check"
  /\ IF \A k \in saw[c] : Readable(k) /\ (k \in own => HasBody(k))
     THEN Answer(c, "listed", own)
     ELSE Answer(c, "integrity", None)
  /\ UNCHANGED <<files, backend, recorded, calls, faults>>

FilesStep(c) ==
  FilesPut(c) \/ PublishBody(c) \/ PublishManifest(c) \/ PutAgain(c) \/ FilesGet(c) \/ ReadBody(c) \/ Walk(c) \/ Check(c)
=============================================================================
