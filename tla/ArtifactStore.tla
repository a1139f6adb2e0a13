----------------------------- MODULE ArtifactStore ----------------------------
(***************************************************************************)
(* What an artifact store promises its callers (integrations/artifact/     *)
(* base.py, the ArtifactStore protocol): an object is written once and     *)
(* never changes; put answers "stored" when the object is there and is the *)
(* caller's, "conflict" when the key is taken; get and list_for_run answer *)
(* what was there at some moment of the call.  Any call may fail, and its  *)
(* write may take effect all the same.                                     *)
(***************************************************************************)
EXTENDS FiniteSets

CONSTANTS Client, Key, Content, None

VARIABLES
  durable,   \* the store outlives the process
  objects,   \* Key -> Content or None
  asked,     \* the writes that were asked for: <<key, content>>
  call,      \* the call of each client: [op, target, content, since], or None
  answer     \* the last answer to each client: [result, value], or None

vars == <<durable, objects, asked, call, answer>>

Stored == {k \in Key : objects[k] # None}

Init ==
  /\ durable \in BOOLEAN
  /\ objects \in [Key -> {None}]
  /\ asked = {}
  /\ call = [c \in Client |-> None]
  /\ answer = [c \in Client |-> None]

\* since is what the store held when the call was made.
Ask(c) ==
  /\ call[c] = None
  /\ call'[c] # None /\ call'[c].since = objects
  /\ asked' = IF call'[c].op = "put" THEN asked \cup {<<call'[c].target, call'[c].content>>} ELSE asked
  /\ UNCHANGED <<durable, objects>>

\* A write that was asked for takes effect: once, unless the store is not a
\* durable one, whose writers may overwrite one another.
Takes(k, v) ==
  /\ <<k, v>> \in asked
  /\ objects[k] = None \/ ~durable
  /\ objects' = [objects EXCEPT ![k] = v]
  /\ UNCHANGED <<durable, asked>>

\* The answers a call may get from a store that holds these objects.
Permitted(c, held) ==
  LET q == call[c]
      keys == {k \in Key : held[k] # None} IN
  [result : {"failed"}, value : {None}] \cup
  CASE q.op = "put" ->
         [result : {"stored"}, value : {q.content} \cap {held[q.target]}] \cup
         [result : {"conflict"}, value : IF q.target \in keys THEN {None} ELSE {}]
    [] q.op = "get" ->
         [result : {"found"}, value : {held[q.target]} \ {None}] \cup
         [result : {"absent"}, value : {None} \cap {q.since[q.target]}]
    [] q.op = "list" ->
         [result : {"listed"},
          value : {S \in SUBSET keys : \A k \in keys :
                     /\ k \in S => held[k].run = q.target
                     /\ held[k].run = q.target /\ q.since[k] # None => k \in S}]

Answers(c, held) ==
  /\ call[c] # None
  /\ call' = [call EXCEPT ![c] = None]
  /\ \E a \in Permitted(c, held) : answer' = [answer EXCEPT ![c] = a]

Others(c) ==
  \A d \in Client \ {c} : call'[d] = call[d] /\ answer'[d] = answer[d]

\* A store that is not durable is lost with its process, and so are its callers.
Lose ==
  /\ ~durable
  /\ objects' = [k \in Key |-> None]
  /\ UNCHANGED <<durable, asked>>
  /\ \A c \in Client : call'[c] = None /\ answer'[c] \in {None, answer[c], [result |-> "failed", value |-> None]}

Next ==
  \/ \E c \in Client : Ask(c) /\ answer'[c] = None /\ Others(c)
  \/ \E w \in asked : Takes(w[1], w[2]) /\ UNCHANGED <<call, answer>>
  \/ \E c \in Client : Answers(c, objects) /\ UNCHANGED <<durable, objects, asked>>
  \/ \E c \in Client, w \in asked : Takes(w[1], w[2]) /\ Answers(c, objects')
  \/ Lose

Spec == Init /\ [][Next]_vars
=============================================================================
