------------------------------ MODULE S3Artifacts -----------------------------
(***************************************************************************)
(* S3ArtifactStore (integrations/artifact/s3_store.py): one object per     *)
(* artifact, with its descriptor as metadata, written by a conditional     *)
(* request.  The client library sends a request again when the response    *)
(* is lost, and a request it has given up may still arrive.                *)
(***************************************************************************)
EXTENDS ArtifactCalls

VARIABLES
  bucket,      \* Key -> the object, or None
  inflight     \* requests that were given up and may still arrive: <<key, content>>

s3 == <<bucket, inflight>>

S3Objects == bucket

S3Init == bucket = [k \in Key |-> None] /\ inflight = {}

Objects == {k \in Key : bucket[k] # None}

\* put reads the object first.
S3Put(c) ==
  LET q == call[c] IN
  /\ stage[c] = "begin" /\ q.op = "put"
  /\ \/ bucket[q.target] = None /\ Proceeds(c, "send")
     \/ bucket[q.target] = q.content /\ PutReturns(c)
     \/ bucket[q.target] \notin {None, q.content} /\ Answer(c, "conflict", None)
  /\ UNCHANGED <<s3, backend, recorded, calls, faults>>

\* The service applies a conditional request.
Arrives(r) == bucket' = IF bucket[r[1]] = None THEN [bucket EXCEPT ![r[1]] = r[2]] ELSE bucket

\* put_object: the precondition fails whoever has written the object, be it
\* this very put, whose first response was lost.
S3Send(c) ==
  LET q == call[c]
      request == <<q.target, q.content>> IN
  /\ stage[c] = "send"
  /\ Arrives(request)
  /\ \/ bucket[q.target] = None /\ PutReturns(c) /\ UNCHANGED faults
     \/ bucket[q.target] # None /\ Answer(c, "conflict", None) /\ UNCHANGED faults
     \/ Fault /\ Proceeds(c, "send")             \* the response is lost: sent again
  /\ UNCHANGED <<inflight, backend, recorded, calls>>

\* All the attempts of the library have failed; the last one is under way.
S3GivesUp(c) ==
  /\ stage[c] = "send"
  /\ Fails(c)
  /\ inflight' = inflight \cup {<<call[c].target, call[c].content>>}
  /\ UNCHANGED bucket

S3Late(r) ==
  /\ Arrives(r)
  /\ inflight' = inflight \ {r}
  /\ UNCHANGED callVars

S3Get(c) ==
  LET found == bucket[call[c].target] IN
  /\ stage[c] = "begin" /\ call[c].op = "get"
  /\ IF found = None THEN Answer(c, "absent", None) ELSE Answer(c, "found", found)
  /\ UNCHANGED <<s3, backend, recorded, calls, faults>>

\* list_for_run goes through the pages of the bucket, and gets every object.
S3List(c) ==
  /\ stage[c] = "begin" /\ call[c].op = "list"
  /\ \E S \in Walked(Objects, call[c].since) :
       Answer(c, "listed", {k \in S : bucket[k].run = call[c].target})
  /\ UNCHANGED <<s3, backend, recorded, calls, faults>>

S3Step(c) ==
  S3Put(c) \/ S3Send(c) \/ S3GivesUp(c) \/ S3Get(c) \/ S3List(c)
=============================================================================
