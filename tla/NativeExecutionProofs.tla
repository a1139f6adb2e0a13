------------------------- MODULE NativeExecutionProofs ------------------------
(***************************************************************************)
(* Proofs about NativeExecution, for every set of calls, every retry       *)
(* policy and any number of failures of the event sink: the record of      *)
(* every step is orderly, a stop is heeded, functions are awaited, and     *)
(* what the event sink shows in the end is what was recorded.              *)
(***************************************************************************)
EXTENDS NativeExecution, TLAPS

-----------------------------------------------------------------------------
(* The inductive invariant *)

\* The last record of an occurrence, if there is one, is such.
LastIs(o, status, n) ==
  /\ Entries(o) # {}
  /\ \A i \in Entries(o) :
       (\A j \in Entries(o) : j <= i) => buffer[i].status = status /\ buffer[i].attempt = n

\* What has been recorded of a call in progress, and how far it has come.
Recorded(c) ==
  LET o == Occurrence[c] IN
  /\ stage[c] = "attempt" =>
       IF attempt[c] = 1 THEN Entries(o) = {} ELSE LastIs(o, "retrying", attempt[c] - 1)
  /\ stage[c] \in {"call", "await", "resumed"} => LastIs(o, "running", attempt[c])
  /\ stage[c] = "delay" => LastIs(o, "retrying", attempt[c]) /\ attempt[c] < MaxAttempts[c]

\* A call in progress has its occurrence to itself.
Owns(c) ==
  /\ Occurrence[c] \in subjects /\ attempt[c] >= 1
  /\ \A d \in InProgress : Occurrence[d] = Occurrence[c] => d = c

\* Between its check and its function a call holds the event loop, and no check
\* has raised.
Holds(c) ==
  /\ stage[c] \in {"attempt", "call"} => turn = c
  /\ stage[c] = "call" => ~heard

\* Nothing is in progress when the coroutine has ended.
Ended == main # "running" => InProgress = {} /\ turn = None

\* What the event sink shows of the first n records.
Latest(n) == {i \in 1..n : \A j \in 1..n : buffer[j].occ = buffer[i].occ => j <= i}

Shows(n) ==
  /\ \A i \in Latest(n) : shown[buffer[i].occ] = buffer[i].status
  /\ \A o \in Subject : (\A i \in 1..n : buffer[i].occ # o) => shown[o] = None
  /\ open = {<<buffer[i].occ, buffer[i].attempt>> : i \in {i \in Latest(n) : buffer[i].status = "running"}}

IInv ==
  /\ TypeOK
  /\ \A c \in InProgress : Owns(c) /\ Recorded(c)
  /\ \A c \in Call : Holds(c)
  /\ \A i \in DOMAIN buffer : buffer[i].occ \in subjects
  /\ \A r \in late : r[1] \in Sync
  /\ heard => Stopped
  /\ Ended
  /\ main = "returned" => replayed = Len(buffer)
  /\ faults = 0 => Shows(replayed)
  /\ HistoryIsOrderly
  /\ FunctionsAreAwaited

-----------------------------------------------------------------------------
(* The buffer *)

Record == [occ : Subject, attempt : Nat, of : Nat, status : Status]

\* What a call records.
Entry(c, status) ==
  [occ |-> Occurrence[c], attempt |-> attempt[c], of |-> MaxAttempts[c], status |-> status]

LEMMA EntryTyped ==
  ASSUME TypeOK, NEW c \in Call, NEW status \in Status
  PROVE  Entry(c, status) \in Record
BY CallAssumption DEF TypeOK, Entry, Record

LEMMA BufferIs ==
  ASSUME TypeOK
  PROVE  /\ buffer \in Seq(Record) /\ Len(buffer) \in Nat /\ DOMAIN buffer = 1..Len(buffer)
         /\ \A i \in DOMAIN buffer : buffer[i] \in Record /\ i \in Nat
<1>1. buffer \in Seq(Record)
  BY DEF TypeOK, Record
<1> QED
  BY <1>1

LEMMA AppendIs ==
  ASSUME TypeOK, NEW e \in Record, buffer' = Append(buffer, e)
  PROVE  /\ buffer' \in Seq(Record) /\ Len(buffer') = Len(buffer) + 1
         /\ DOMAIN buffer' = 1..(Len(buffer) + 1)
         /\ \A i \in DOMAIN buffer : buffer'[i] = buffer[i]
         /\ buffer'[Len(buffer) + 1] = e
         /\ \A o : Entries(o)' = IF o = e.occ THEN Entries(o) \cup {Len(buffer) + 1} ELSE Entries(o)
<1>1. /\ buffer \in Seq(Record) /\ Len(buffer) \in Nat /\ DOMAIN buffer = 1..Len(buffer)
  BY BufferIs
<1>2. /\ buffer' \in Seq(Record) /\ Len(buffer') = Len(buffer) + 1
      /\ DOMAIN buffer' = 1..(Len(buffer) + 1)
      /\ \A i \in DOMAIN buffer : buffer'[i] = buffer[i]
      /\ buffer'[Len(buffer) + 1] = e
  BY <1>1
<1>3. ASSUME NEW o
      PROVE  Entries(o)' = IF o = e.occ THEN Entries(o) \cup {Len(buffer) + 1} ELSE Entries(o)
  BY <1>1, <1>2 DEF Entries
<1> QED
  BY <1>2, <1>3

\* A record that follows the last one of its occurrence keeps the history orderly.
LEMMA HistoryGrows ==
  ASSUME TypeOK, HistoryIsOrderly, NEW e \in Record, buffer' = Append(buffer, e),
         e.attempt <= e.of, e.status = "retrying" => e.attempt < e.of,
         Entries(e.occ) = {} => e.status = "running" /\ e.attempt = 1,
         \A i \in Entries(e.occ) :
           (\A j \in Entries(e.occ) : j <= i) => Follows(buffer[i], e)
  PROVE  HistoryIsOrderly'
<1> DEFINE n == Len(buffer) + 1
<1>1. /\ n \in Nat /\ \A i \in DOMAIN buffer : i \in Nat /\ i < n /\ buffer'[i] = buffer[i]
      /\ buffer'[n] = e
      /\ \A o : Entries(o)' = IF o = e.occ THEN Entries(o) \cup {n} ELSE Entries(o)
  BY BufferIs, AppendIs
<1>2. \A o : Entries(o) \subseteq DOMAIN buffer
  BY DEF Entries
<1> HIDE DEF n
<1> SUFFICES ASSUME NEW o \in Subject, NEW i \in Entries(o)'
             PROVE  /\ buffer'[i].attempt <= buffer'[i].of
                    /\ buffer'[i].status = "retrying" => buffer'[i].attempt < buffer'[i].of
                    /\ (\A j \in Entries(o)' : i <= j) =>
                         buffer'[i].status = "running" /\ buffer'[i].attempt = 1
                    /\ \A j \in Entries(o)' :
                         j < i /\ (\A k \in Entries(o)' : k <= j \/ i <= k) =>
                           Follows(buffer'[j], buffer'[i])
  BY DEF HistoryIsOrderly
<1>3. CASE i \in Entries(o)
  <2>1. i < n /\ i \in Nat /\ buffer'[i] = buffer[i]
    BY <1>1, <1>2, <1>3
  <2>2. /\ buffer[i].attempt <= buffer[i].of
        /\ buffer[i].status = "retrying" => buffer[i].attempt < buffer[i].of
        /\ (\A j \in Entries(o) : i <= j) => buffer[i].status = "running" /\ buffer[i].attempt = 1
        /\ \A j \in Entries(o) :
             j < i /\ (\A k \in Entries(o) : k <= j \/ i <= k) => Follows(buffer[j], buffer[i])
    BY <1>3 DEF HistoryIsOrderly
  <2>3. (\A j \in Entries(o)' : i <= j) => \A j \in Entries(o) : i <= j
    BY <1>1
  <2>4. ASSUME NEW j \in Entries(o)', j < i, \A k \in Entries(o)' : k <= j \/ i <= k
        PROVE  Follows(buffer'[j], buffer'[i])
    <3>1. j \in Entries(o)
      BY <1>1, <2>1, <2>4
    <3>2. \A k \in Entries(o) : k <= j \/ i <= k
      BY <1>1, <2>4
    <3>3. buffer'[j] = buffer[j]
      BY <1>1, <1>2, <3>1
    <3> QED
      BY <2>1, <2>2, <2>4, <3>1, <3>2, <3>3
  <2> QED
    BY <2>1, <2>2, <2>3, <2>4
<1>4. CASE i \notin Entries(o)
  <2>1. i = n /\ o = e.occ /\ buffer'[i] = e
    BY <1>1, <1>4
  <2>2. (\A j \in Entries(o)' : i <= j) => Entries(o) = {}
    BY <1>1, <1>2, <2>1
  <2>3. ASSUME NEW j \in Entries(o)', j < i, \A k \in Entries(o)' : k <= j \/ i <= k
        PROVE  Follows(buffer'[j], buffer'[i])
    <3>1. j \in Entries(o)
      BY <1>1, <2>1, <2>3
    <3>2. \A k \in Entries(o) : k <= j
      BY <1>1, <1>2, <2>1, <2>3
    <3>3. buffer'[j] = buffer[j]
      BY <1>1, <1>2, <3>1
    <3> QED
      BY <2>1, <3>1, <3>2, <3>3
  <2> QED
    BY <2>1, <2>2, <2>3
<1> QED
  BY <1>3, <1>4

-----------------------------------------------------------------------------
(* Types *)

LEMMA InitTyped ==
  ASSUME Init
  PROVE  TypeOK
<1>1. buffer \in Seq([occ : Subject, attempt : Nat, of : Nat, status : Status]) /\ Len(buffer) = 0
  BY DEF Init
<1>2. attempt \in [Call -> Nat] /\ \A c \in Call : attempt[c] <= MaxAttempts[c]
  BY CallAssumption DEF Init
<1>3. stage \in [Call -> Stage] /\ outcome \in [Call -> Outcome \cup {None}]
  BY DEF Init, Stage
<1>4. replayed \in 0..Len(buffer) /\ faults \in 0..MaxFaults
  BY <1>1, CallAssumption DEF Init
<1>5. /\ cancelled \in BOOLEAN /\ expired \in BOOLEAN /\ heard \in BOOLEAN
      /\ turn \in Call \cup {None} /\ subjects \subseteq Subject
      /\ running \subseteq Call \X Nat /\ late \subseteq running
      /\ main \in {"running", "draining", "replaying", "returned"}
      /\ open \subseteq Subject \X Nat /\ shown \in [Subject -> Status \cup {None}]
  BY DEF Init
<1> QED
  BY <1>1, <1>2, <1>3, <1>4, <1>5 DEF TypeOK

LEMMA Counts ==
  ASSUME NEW c \in Call
  PROVE  Occurrence[c] \in Subject /\ MaxAttempts[c] \in Nat /\ MaxAttempts[c] >= 1
BY CallAssumption

\* The parts of the state that the steps of the calls leave alone, or all do
\* the same to.
LEMMA GoBackTyped ==
  ASSUME TypeOK, NEW c \in Call, GoBack(c)
  PROVE  /\ stage' \in [Call -> Stage] /\ outcome' \in [Call -> Outcome \cup {None}]
         /\ attempt' \in [Call -> Nat] /\ \A d \in Call : attempt'[d] <= MaxAttempts[d]
         /\ turn' \in Call \cup {None}
BY Counts DEF TypeOK, GoBack, Goto, Stage

LEMMA ObserveTyped ==
  ASSUME TypeOK, NEW c \in Call, NEW status \in Status, Observe(c, status)
  PROVE  /\ buffer' = Append(buffer, Entry(c, status))
         /\ buffer' \in Seq([occ : Subject, attempt : Nat, of : Nat, status : Status])
         /\ replayed \in 0..Len(buffer')
<1>1. buffer' = Append(buffer, Entry(c, status))
  BY DEF Observe, Entry
<1>2. buffer' \in Seq(Record) /\ Len(buffer') = Len(buffer) + 1
  BY <1>1, EntryTyped, AppendIs
<1>3. replayed \in 0..Len(buffer')
  BY <1>2, BufferIs DEF TypeOK
<1> QED
  BY <1>1, <1>2, <1>3 DEF Record

LEMMA GiveUpTyped ==
  ASSUME TypeOK, NEW C, GiveUp(C), \A r \in late : r[1] \in Sync
  PROVE  /\ running' \subseteq running /\ late' \subseteq running'
         /\ \A r \in running' \ late' : r \in running \ late /\ r[1] \notin C
         /\ \A r \in late' : r[1] \in Sync
BY DEF TypeOK, GiveUp

LEMMA AbandonedTyped ==
  ASSUME TypeOK, NEW C, Abandoned(C)
  PROVE  /\ stage' \in [Call -> Stage] /\ outcome' \in [Call -> Outcome \cup {None}]
         /\ attempt' \in [Call -> Nat] /\ \A d \in Call : attempt'[d] <= MaxAttempts[d]
BY Counts DEF TypeOK, Abandoned, Stage

LEMMA TypeKeeps ==
  ASSUME TypeOK, \A r \in late : r[1] \in Sync, [Next]_vars,
         \A c \in Call : stage[c] = "delay" => attempt[c] < MaxAttempts[c]
  PROVE  TypeOK'
<1> USE DEF steps, sink
<1>1. CASE Cancel
  BY <1>1 DEF TypeOK, Cancel
<1>2. CASE Expire
  BY <1>2 DEF TypeOK, Expire
<1>3. ASSUME NEW c \in Call, Enter(c)
      PROVE  TypeOK'
  <2>1. CASE GoBack(c) /\ UNCHANGED <<subjects, heard>>
    BY <1>3, <2>1, GoBackTyped DEF Enter, TypeOK
  <2>2. CASE StopCall(c) /\ UNCHANGED subjects
    BY <1>3, <2>2, GoBackTyped DEF Enter, StopCall, TypeOK
  <2>3. CASE /\ subjects' = subjects \cup {Occurrence[c]}
             /\ attempt' = [attempt EXCEPT ![c] = 1]
             /\ Goto(c, "attempt")
             /\ turn' = c
             /\ UNCHANGED <<outcome, heard>>
    BY <1>3, <2>3, Counts DEF Enter, Goto, Stage, TypeOK
  <2> QED
    BY <1>3, <2>1, <2>2, <2>3 DEF Enter
<1>4. ASSUME NEW c \in Call, Attempt(c)
      PROVE  TypeOK'
  <2>1. CASE StopCall(c) /\ UNCHANGED buffer
    BY <1>4, <2>1, GoBackTyped DEF Attempt, StopCall, TypeOK
  <2>2. CASE Goto(c, "call") /\ Observe(c, "running") /\ UNCHANGED <<turn, attempt, outcome, heard>>
    <3>1. /\ buffer' \in Seq([occ : Subject, attempt : Nat, of : Nat, status : Status])
          /\ replayed \in 0..Len(buffer')
      BY <2>2, ObserveTyped DEF Status
    <3> QED
      BY <1>4, <2>2, <3>1 DEF Attempt, Goto, Stage, TypeOK
  <2> QED
    BY <1>4, <2>1, <2>2 DEF Attempt
<1>5. ASSUME NEW c \in Call, Invoke(c)
      PROVE  TypeOK'
  <2>1. CASE /\ Goto(c, "resumed")
             /\ outcome' = [outcome EXCEPT ![c] = StopError]
             /\ heard' = TRUE
             /\ UNCHANGED <<turn, running>>
    <3>1. StopError \in Outcome
      BY DEF StopError, Outcome
    <3> QED
      BY <1>5, <2>1, <3>1 DEF Invoke, Goto, Stage, TypeOK
  <2>2. CASE /\ Goto(c, "await")
             /\ running' = running \cup {<<c, attempt[c]>>}
             /\ turn' = None
             /\ UNCHANGED <<outcome, heard>>
    BY <1>5, <2>2 DEF Invoke, Goto, Stage, TypeOK
  <2> QED
    BY <1>5, <2>1, <2>2 DEF Invoke
<1>6. ASSUME NEW r \in running, FunctionEnds(r)
      PROVE  TypeOK'
  BY <1>6 DEF FunctionEnds, Goto, Stage, Outcome, TypeOK
<1>7. ASSUME NEW c \in Call, TimeOut(c)
      PROVE  TypeOK'
  <2>1. running' \subseteq running /\ late' \subseteq running'
    BY <1>7, GiveUpTyped DEF TimeOut
  <2> QED
    BY <1>7, <2>1 DEF TimeOut, Goto, Stage, Outcome, TypeOK
<1>8. ASSUME NEW c \in Call, Resume(c)
      PROVE  TypeOK'
  <2>1. /\ UNCHANGED <<cancelled, expired, subjects, running, late, main, sink>>
        /\ heard' \in BOOLEAN
    BY <1>8 DEF Resume, TypeOK
  <2>2. CASE /\ \E status \in {"succeeded", "failed"} : Observe(c, status)
             /\ GoBack(c)
    <3>1. /\ buffer' \in Seq([occ : Subject, attempt : Nat, of : Nat, status : Status])
          /\ replayed \in 0..Len(buffer')
      BY <2>2, ObserveTyped DEF Status
    <3> QED
      BY <2>1, <2>2, <3>1, GoBackTyped DEF TypeOK
  <2>3. CASE /\ Observe(c, "retrying")
             /\ Goto(c, "delay")
             /\ outcome' = [outcome EXCEPT ![c] = None]
             /\ turn' \in {None, c}
             /\ UNCHANGED attempt
    <3>1. /\ buffer' \in Seq([occ : Subject, attempt : Nat, of : Nat, status : Status])
          /\ replayed \in 0..Len(buffer')
      BY <2>3, ObserveTyped DEF Status
    <3> QED
      BY <2>1, <2>3, <3>1 DEF Goto, Stage, TypeOK
  <2> QED
    BY <1>8, <2>2, <2>3 DEF Resume
<1>9. ASSUME NEW c \in Call, Delay(c)
      PROVE  TypeOK'
  <2>1. CASE StopCall(c)
    BY <1>9, <2>1, GoBackTyped DEF Delay, StopCall, TypeOK
  <2>2. CASE /\ attempt' = [attempt EXCEPT ![c] = @ + 1]
             /\ Goto(c, "attempt")
             /\ turn' = c
             /\ UNCHANGED <<outcome, heard>>
    <3>1. attempt' \in [Call -> Nat] /\ \A d \in Call : attempt'[d] <= MaxAttempts[d]
      BY <1>9, <2>2, Counts DEF Delay, TypeOK
    <3> QED
      BY <1>9, <2>2, <3>1 DEF Delay, Goto, Stage, TypeOK
  <2> QED
    BY <1>9, <2>1, <2>2 DEF Delay
<1>10. ASSUME NEW c \in Call, Abandon(c)
       PROVE  TypeOK'
  <2>1. running' \subseteq running /\ late' \subseteq running'
    BY <1>10, GiveUpTyped DEF Abandon, Abandoned
  <2> QED
    BY <1>10, <2>1, AbandonedTyped DEF Abandon, TypeOK
<1>11. CASE End
  <2>1. running' \subseteq running /\ late' \subseteq running'
    BY <1>11, GiveUpTyped DEF End, Abandoned
  <2> QED
    BY <1>11, <2>1, AbandonedTyped DEF End, TypeOK
<1>12. CASE Drain
  BY <1>12 DEF Drain, TypeOK
<1>13. CASE Replay
  <2>1. replayed + 1 \in DOMAIN buffer /\ replayed \in Nat
    BY <1>13, BufferIs DEF Replay, TypeOK
  <2>2. buffer[replayed + 1] \in Record
    BY <2>1, BufferIs
  <2>3. /\ buffer[replayed + 1].occ \in Subject /\ buffer[replayed + 1].attempt \in Nat
        /\ buffer[replayed + 1].status \in Status
    BY <2>2 DEF Record
  <2>4. open' \subseteq Subject \X Nat /\ shown' \in [Subject -> Status \cup {None}]
    BY <1>13, <2>3 DEF Replay, TypeOK
  <2>5. faults' \in 0..MaxFaults
    BY <1>13, CallAssumption DEF Replay, SinkMay, TypeOK
  <2>6. replayed' \in 0..Len(buffer)
    BY <1>13, <2>1, BufferIs DEF Replay
  <2> QED
    BY <1>13, <2>4, <2>5, <2>6 DEF Replay, TypeOK
<1>14. CASE Return
  BY <1>14 DEF Return, TypeOK
<1>15. CASE UNCHANGED vars
  BY <1>15 DEF vars, TypeOK
<1> QED
  BY <1>1, <1>2, <1>3, <1>4, <1>5, <1>6, <1>7, <1>8, <1>9, <1>10, <1>11, <1>12, <1>13, <1>14, <1>15
     DEF Next, Proceed

-----------------------------------------------------------------------------
(* The event loop *)

Looped ==
  /\ \A c \in Call : Holds(c)
  /\ heard => Stopped
  /\ Ended
  /\ main = "returned" => replayed = Len(buffer)

\* A call that returns to the author's coroutine, or is stopped.
LEMMA GoBackLeaves ==
  ASSUME TypeOK, NEW c \in Call, GoBack(c)
  PROVE  /\ stage'[c] = "over" /\ attempt'[c] = 0 /\ turn' = None
         /\ \A d \in Call \ {c} : stage'[d] = stage[d] /\ attempt'[d] = attempt[d]
BY DEF TypeOK, GoBack, Goto

LEMMA LoopKeeps ==
  ASSUME TypeOK, Looped, [Next]_vars
  PROVE  Looped'
<1> USE DEF Holds, Ended, InProgress, steps, sink
<1>1. CASE Cancel
  BY <1>1 DEF Looped, Cancel, Stopped
<1>2. CASE Expire
  BY <1>2 DEF Looped, Expire, Stopped
<1>3. ASSUME NEW c \in Call, Enter(c)
      PROVE  Looped'
  <2>1. /\ main = "running" /\ turn = None
        /\ UNCHANGED <<cancelled, expired, running, buffer, late, main, sink>>
        /\ \A d \in Call : stage[d] \notin {"attempt", "call"}
    BY <1>3, CallAssumption DEF Enter, Free, Looped
  <2>2. CASE GoBack(c) /\ UNCHANGED <<subjects, heard>>
    BY <2>1, <2>2, GoBackLeaves DEF Looped, Stopped
  <2>3. CASE StopCall(c)
    BY <2>1, <2>3, GoBackLeaves DEF Looped, Stopped, StopCall
  <2>4. CASE Goto(c, "attempt") /\ turn' = c /\ UNCHANGED heard
    BY <2>1, <2>4 DEF Looped, Stopped, Goto, TypeOK
  <2> QED
    BY <1>3, <2>2, <2>3, <2>4 DEF Enter
<1>4. ASSUME NEW c \in Call, Attempt(c)
      PROVE  Looped'
  <2>1. /\ turn = c /\ main = "running" /\ UNCHANGED <<cancelled, expired, main, sink>>
        /\ \A d \in Call \ {c} : stage[d] \notin {"attempt", "call"}
    BY <1>4, CallAssumption DEF Attempt, Looped
  <2>2. CASE StopCall(c)
    BY <2>1, <2>2, GoBackLeaves DEF Looped, Stopped, StopCall
  <2>3. CASE ~Stopped /\ Goto(c, "call") /\ UNCHANGED <<turn, heard>>
    BY <2>1, <2>3 DEF Looped, Stopped, Goto, TypeOK
  <2> QED
    BY <1>4, <2>2, <2>3 DEF Attempt
<1>5. ASSUME NEW c \in Call, Invoke(c)
      PROVE  Looped'
  <2>1. /\ turn = c /\ main = "running" /\ UNCHANGED <<cancelled, expired, main, sink>>
        /\ \A d \in Call \ {c} : stage[d] \notin {"attempt", "call"}
    BY <1>5, CallAssumption DEF Invoke, Looped
  <2>2. CASE expired /\ Goto(c, "resumed") /\ heard' = TRUE /\ UNCHANGED turn
    BY <2>1, <2>2 DEF Looped, Stopped, Goto, TypeOK
  <2>3. CASE Goto(c, "await") /\ turn' = None /\ UNCHANGED heard
    BY <2>1, <2>3 DEF Looped, Stopped, Goto, TypeOK
  <2> QED
    BY <1>5, <2>2, <2>3 DEF Invoke
<1>6. ASSUME NEW r \in running, FunctionEnds(r)
      PROVE  Looped'
  <2>1. \A d \in Call : stage'[d] = stage[d] \/ (stage[d] = "await" /\ stage'[d] = "resumed")
    BY <1>6 DEF FunctionEnds, Goto, TypeOK
  <2>2. UNCHANGED <<cancelled, expired, turn, buffer, heard, main, sink>>
    BY <1>6 DEF FunctionEnds
  <2> QED
    BY <2>1, <2>2 DEF Looped, Stopped
<1>7. ASSUME NEW c \in Call, TimeOut(c)
      PROVE  Looped'
  BY <1>7 DEF TimeOut, Free, Looped, Stopped, Goto, TypeOK
<1>8. ASSUME NEW c \in Call, Resume(c)
      PROVE  Looped'
  <2>1. /\ main = "running" /\ turn \in {None, c} /\ stage[c] = "resumed"
        /\ UNCHANGED <<cancelled, expired, main, sink>>
        /\ \A d \in Call : stage[d] \notin {"attempt", "call"}
    BY <1>8, CallAssumption DEF Resume, Looped
  <2>2. heard' => Stopped
    BY <1>8 DEF Resume, Looped
  <2>3. CASE GoBack(c)
    BY <2>1, <2>2, <2>3, GoBackLeaves DEF Looped, Stopped
  <2>4. CASE Goto(c, "delay")
    BY <2>1, <2>2, <2>4 DEF Looped, Stopped, Goto, TypeOK
  <2> QED
    BY <1>8, <2>3, <2>4 DEF Resume
<1>9. ASSUME NEW c \in Call, Delay(c)
      PROVE  Looped'
  <2>1. /\ main = "running" /\ turn \in {None, c} /\ stage[c] = "delay"
        /\ UNCHANGED <<cancelled, expired, main, sink>>
        /\ \A d \in Call : stage[d] \notin {"attempt", "call"}
    BY <1>9, CallAssumption DEF Delay, Looped
  <2>2. CASE StopCall(c)
    BY <2>1, <2>2, GoBackLeaves DEF Looped, Stopped, StopCall
  <2>3. CASE Goto(c, "attempt") /\ turn' = c /\ UNCHANGED heard
    BY <2>1, <2>3 DEF Looped, Stopped, Goto, TypeOK
  <2> QED
    BY <1>9, <2>2, <2>3 DEF Delay
<1>10. ASSUME NEW c \in Call, Abandon(c)
       PROVE  Looped'
  BY <1>10 DEF Abandon, Abandoned, Free, Looped, Stopped
<1>11. CASE End
  BY <1>11 DEF End, Abandoned, Free, Looped, Stopped
<1>12. CASE Drain
  BY <1>12 DEF Drain, Looped, Stopped
<1>13. CASE Replay
  BY <1>13 DEF Replay, Looped, Stopped
<1>14. CASE Return
  BY <1>14 DEF Return, Looped, Stopped
<1>15. CASE UNCHANGED vars
  BY <1>15 DEF vars, Looped, Stopped
<1> QED
  BY <1>1, <1>2, <1>3, <1>4, <1>5, <1>6, <1>7, <1>8, <1>9, <1>10, <1>11, <1>12, <1>13, <1>14, <1>15
     DEF Next, Proceed

-----------------------------------------------------------------------------
(* The functions *)

Awaited ==
  /\ FunctionsAreAwaited
  /\ \A r \in late : r[1] \in Sync

\* A call in progress has its occurrence to itself.
Alone == \A c, d \in InProgress : Occurrence[c] = Occurrence[d] => c = d

\* When nothing new runs and the calls of what still runs have not moved.
LEMMA StillAwaited ==
  ASSUME Awaited, late' \subseteq running', \A r \in late' : r[1] \in Sync,
         \A r \in running' \ late' :
           /\ r \in running \ late
           /\ stage'[r[1]] = stage[r[1]] /\ attempt'[r[1]] = attempt[r[1]]
  PROVE  Awaited'
BY DEF Awaited, FunctionsAreAwaited

\* The functions are still those of calls that have not moved, since the call
\* that has moved was not waiting for one.
LEMMA OthersAwaited ==
  ASSUME TypeOK, Awaited, NEW c \in Call, stage[c] # "await",
         UNCHANGED <<running, late>>,
         \A d \in Call \ {c} : stage'[d] = stage[d] /\ attempt'[d] = attempt[d]
  PROVE  Awaited'
<1>1. \A r \in running \ late : r[1] \in Call /\ r[1] # c
  BY DEF Awaited, FunctionsAreAwaited, TypeOK
<1> QED
  BY <1>1, StillAwaited DEF TypeOK, Awaited

LEMMA AwaitedKeeps ==
  ASSUME TypeOK, Awaited, Alone, [Next]_vars
  PROVE  Awaited'
<1> USE DEF steps, sink
<1>1. ASSUME NEW c \in Call, Enter(c)
      PROVE  Awaited'
  <2>1. /\ stage[c] # "await" /\ UNCHANGED <<running, late>>
        /\ \A d \in Call \ {c} : stage'[d] = stage[d] /\ attempt'[d] = attempt[d]
    BY <1>1, GoBackLeaves DEF Enter, StopCall, Goto, TypeOK
  <2> QED
    BY <2>1, OthersAwaited
<1>2. ASSUME NEW c \in Call, Attempt(c)
      PROVE  Awaited'
  <2>1. /\ stage[c] # "await" /\ UNCHANGED <<running, late>>
        /\ \A d \in Call \ {c} : stage'[d] = stage[d] /\ attempt'[d] = attempt[d]
    BY <1>2, GoBackLeaves DEF Attempt, StopCall, Goto, TypeOK
  <2> QED
    BY <2>1, OthersAwaited
<1>3. ASSUME NEW c \in Call, Invoke(c)
      PROVE  Awaited'
  <2>1. CASE Goto(c, "resumed") /\ UNCHANGED running
    <3>1. /\ stage[c] # "await" /\ UNCHANGED <<running, late>>
          /\ \A d \in Call \ {c} : stage'[d] = stage[d] /\ attempt'[d] = attempt[d]
      BY <1>3, <2>1 DEF Invoke, Goto, TypeOK
    <3> QED
      BY <3>1, OthersAwaited
  <2>2. CASE Goto(c, "await") /\ running' = running \cup {<<c, attempt[c]>>}
    <3>1. /\ stage[c] = "call" /\ stage' = [stage EXCEPT ![c] = "await"]
          /\ UNCHANGED <<attempt, late>>
      BY <1>3, <2>2 DEF Invoke, Goto
    <3>2. c \in InProgress
      BY <3>1 DEF InProgress
    <3>3. ASSUME NEW r \in running' \ late'
          PROVE  /\ stage'[r[1]] = "await" /\ attempt'[r[1]] = r[2]
                 /\ r = <<c, attempt[c]>> \/ (r \in running \ late /\ r[1] # c /\ r[1] \in InProgress)
      BY <2>2, <3>1, <3>3 DEF Awaited, FunctionsAreAwaited, TypeOK, InProgress
    <3>4. ASSUME NEW r \in running' \ late', NEW q \in running' \ late', Occurrence[q[1]] = Occurrence[r[1]]
          PROVE  q = r
      <4>1. q[1] = r[1]
        BY <3>2, <3>3, <3>4 DEF Alone
      <4> QED
        BY <3>3, <4>1 DEF Awaited, FunctionsAreAwaited
    <3>5. FunctionsAreAwaited'
      BY <3>3, <3>4 DEF FunctionsAreAwaited
    <3> QED
      BY <3>1, <3>5 DEF Awaited
  <2> QED
    BY <1>3, <2>1, <2>2 DEF Invoke
<1>4. ASSUME NEW r \in running, FunctionEnds(r)
      PROVE  Awaited'
  <2>1. /\ running' = running \ {r} /\ late' = late \ {r} /\ UNCHANGED attempt
        /\ r = <<r[1], r[2]>> /\ r[1] \in Call
    BY <1>4 DEF FunctionEnds, TypeOK
  <2>2. \A d \in Call : stage'[d] = stage[d] \/ (d = r[1] /\ attempt[d] = r[2])
    BY <1>4 DEF FunctionEnds, Goto, TypeOK
  <2>3. ASSUME NEW q \in running' \ late'
        PROVE  q \in running \ late /\ stage'[q[1]] = stage[q[1]] /\ attempt'[q[1]] = attempt[q[1]]
    <3>1. q \in running \ late /\ q # r /\ q[1] \in Call /\ q = <<q[1], q[2]>> /\ attempt[q[1]] = q[2]
      BY <2>1, <2>3 DEF Awaited, FunctionsAreAwaited, TypeOK
    <3> QED
      BY <2>1, <2>2, <3>1
  <2>4. late' \subseteq running' /\ \A q \in late' : q[1] \in Sync
    BY <2>1 DEF Awaited, TypeOK
  <2> QED
    BY <2>3, <2>4, StillAwaited
<1>5. ASSUME NEW c \in Call, TimeOut(c)
      PROVE  Awaited'
  <2>1. /\ late' \subseteq running' /\ \A r \in late' : r[1] \in Sync
        /\ \A r \in running' \ late' : r \in running \ late /\ r[1] \notin {c}
    BY <1>5, GiveUpTyped DEF TimeOut, Awaited
  <2>2. \A d \in Call \ {c} : stage'[d] = stage[d] /\ attempt'[d] = attempt[d]
    BY <1>5 DEF TimeOut, Goto, TypeOK
  <2> QED
    BY <2>1, <2>2, StillAwaited DEF TypeOK
<1>6. ASSUME NEW c \in Call, Resume(c)
      PROVE  Awaited'
  <2>1. /\ stage[c] # "await" /\ UNCHANGED <<running, late>>
        /\ \A d \in Call \ {c} : stage'[d] = stage[d] /\ attempt'[d] = attempt[d]
    BY <1>6, GoBackLeaves DEF Resume, Goto, TypeOK
  <2> QED
    BY <2>1, OthersAwaited
<1>7. ASSUME NEW c \in Call, Delay(c)
      PROVE  Awaited'
  <2>1. /\ stage[c] # "await" /\ UNCHANGED <<running, late>>
        /\ \A d \in Call \ {c} : stage'[d] = stage[d] /\ attempt'[d] = attempt[d]
    BY <1>7, GoBackLeaves DEF Delay, StopCall, Goto, TypeOK
  <2> QED
    BY <2>1, OthersAwaited
<1>8. ASSUME NEW C, Abandoned(C)
      PROVE  Awaited'
  <2>1. /\ late' \subseteq running' /\ \A r \in late' : r[1] \in Sync
        /\ \A r \in running' \ late' : r \in running \ late /\ r[1] \notin C
    BY <1>8, GiveUpTyped DEF Abandoned, Awaited
  <2>2. \A d \in Call \ C : stage'[d] = stage[d] /\ attempt'[d] = attempt[d]
    BY <1>8 DEF Abandoned
  <2> QED
    BY <2>1, <2>2, StillAwaited DEF TypeOK
<1>9. ASSUME UNCHANGED <<stage, attempt, running, late>>
      PROVE  Awaited'
  BY <1>9, StillAwaited DEF TypeOK, Awaited
<1> QED
  BY <1>1, <1>2, <1>3, <1>4, <1>5, <1>6, <1>7, <1>8, <1>9
     DEF Next, Proceed, Abandon, End, Cancel, Expire, Drain, Replay, Return, vars

-----------------------------------------------------------------------------
(* The records of the calls *)

Progressing ==
  /\ \A c \in InProgress : Owns(c) /\ Recorded(c)
  /\ \A i \in DOMAIN buffer : buffer[i].occ \in subjects
  /\ HistoryIsOrderly

LEMMA LastIsStill ==
  ASSUME NEW o, NEW status, NEW n, LastIs(o, status, n),
         Entries(o)' = Entries(o), \A i \in Entries(o) : buffer'[i] = buffer[i]
  PROVE  LastIs(o, status, n)'
BY DEF LastIs

\* What has just been recorded is the last record.
LEMMA LastIsNew ==
  ASSUME TypeOK, NEW e \in Record, buffer' = Append(buffer, e),
         NEW o, NEW status, NEW n, o = e.occ, status = e.status, n = e.attempt
  PROVE  LastIs(o, status, n)'
<1> DEFINE k == Len(buffer) + 1
<1>1. /\ k \in Nat /\ \A i \in DOMAIN buffer : i \in Nat /\ i < k
      /\ buffer'[k] = e /\ Entries(o)' = Entries(o) \cup {k} /\ Entries(o) \subseteq DOMAIN buffer
  BY BufferIs, AppendIs DEF Entries
<1> HIDE DEF k
<1>2. ASSUME NEW i \in Entries(o)', \A j \in Entries(o)' : j <= i
      PROVE  i = k
  <2>1. k <= i
    BY <1>1, <1>2
  <2>2. i = k \/ (i \in Nat /\ i < k)
    BY <1>1, <1>2
  <2> QED
    BY <1>1, <2>1, <2>2
<1> QED
  BY <1>1, <1>2 DEF LastIs

LEMMA RecordedStill ==
  ASSUME NEW d \in Call, Recorded(d), stage'[d] = stage[d], attempt'[d] = attempt[d],
         Entries(Occurrence[d])' = Entries(Occurrence[d]),
         \A i \in Entries(Occurrence[d]) : buffer'[i] = buffer[i]
  PROVE  Recorded(d)'
<1> DEFINE o == Occurrence[d]
<1>1. PICK n : n = attempt[d]
  OBVIOUS
<1>3. stage[d] = "attempt" => IF n = 1 THEN Entries(o)' = {} ELSE LastIs(o, "retrying", n - 1)'
  BY <1>1, LastIsStill DEF Recorded
<1>4. stage[d] \in {"call", "await", "resumed"} => LastIs(o, "running", n)'
  BY <1>1, LastIsStill DEF Recorded
<1>5. stage[d] = "delay" => LastIs(o, "retrying", n)' /\ n < MaxAttempts[d]
  BY <1>1, LastIsStill DEF Recorded
<1>6. attempt'[d] = n /\ stage'[d] = stage[d]
  BY <1>1
<1> QED
  BY <1>3, <1>4, <1>5, <1>6 DEF Recorded, LastIs

\* A step of one call: it keeps its occurrence to itself, and the records of
\* the others are what they were.
LEMMA CallsKeep ==
  ASSUME TypeOK, Progressing, NEW c \in Call, subjects \subseteq subjects',
         \A d \in Call \ {c} : stage'[d] = stage[d] /\ attempt'[d] = attempt[d],
         c \in InProgress' => c \in InProgress \/ Occurrence[c] \notin subjects,
         \/ UNCHANGED buffer
         \/ c \in InProgress /\ \E status \in Status : buffer' = Append(buffer, Entry(c, status)),
         c \in InProgress' => Occurrence[c] \in subjects' /\ attempt'[c] >= 1 /\ Recorded(c)'
  PROVE  (\A d \in InProgress : Owns(d) /\ Recorded(d))'
<1>1. \A d \in Call \ {c} : d \in InProgress' <=> d \in InProgress
  BY DEF InProgress
<1>2. InProgress' \subseteq Call
  BY DEF InProgress
<1> SUFFICES ASSUME NEW d \in InProgress' PROVE Owns(d)' /\ Recorded(d)'
  OBVIOUS
<1>3. CASE d = c
  <2>1. \A f \in InProgress' : Occurrence[f] = Occurrence[c] => f = c
    BY <1>1, <1>2, <1>3 DEF Progressing, Owns
  <2> QED
    BY <1>3, <2>1 DEF Owns
<1>4. CASE d # c
  <2>1. d \in InProgress /\ Owns(d) /\ Recorded(d) /\ d \in Call
    BY <1>1, <1>2, <1>4 DEF Progressing
  <2>2. \A f \in InProgress' : Occurrence[f] = Occurrence[d] => f = d
    BY <1>1, <1>2, <1>4, <2>1 DEF Owns
  <2>3. Owns(d)'
    BY <1>4, <2>1, <2>2 DEF Owns
  <2>4. /\ Entries(Occurrence[d])' = Entries(Occurrence[d])
        /\ \A i \in Entries(Occurrence[d]) : buffer'[i] = buffer[i]
    <3>1. CASE UNCHANGED buffer
      BY <3>1 DEF Entries
    <3>2. ASSUME c \in InProgress, NEW status \in Status, buffer' = Append(buffer, Entry(c, status))
          PROVE  /\ Entries(Occurrence[d])' = Entries(Occurrence[d])
                 /\ \A i \in Entries(Occurrence[d]) : buffer'[i] = buffer[i]
      <4>1. Entry(c, status).occ # Occurrence[d]
        BY <1>4, <2>1, <3>2 DEF Entry, Owns
      <4>2. Entry(c, status) \in Record
        BY EntryTyped
      <4> QED
        BY <3>2, <4>1, <4>2, AppendIs DEF Entries
    <3> QED
      BY <3>1, <3>2
  <2> QED
    BY <1>4, <2>1, <2>3, <2>4, RecordedStill
<1> QED
  BY <1>3, <1>4

\* A step that records nothing.
LEMMA SilentKeeps ==
  ASSUME TypeOK, Progressing, NEW c \in Call, subjects \subseteq subjects', UNCHANGED buffer,
         \A d \in Call \ {c} : stage'[d] = stage[d] /\ attempt'[d] = attempt[d],
         c \in InProgress' => c \in InProgress \/ Occurrence[c] \notin subjects,
         c \in InProgress' => Occurrence[c] \in subjects' /\ attempt'[c] >= 1 /\ Recorded(c)'
  PROVE  Progressing'
<1>1. (\A d \in InProgress : Owns(d) /\ Recorded(d))'
  BY CallsKeep
<1>2. HistoryIsOrderly'
  BY DEF Progressing, HistoryIsOrderly, Entries
<1> QED
  BY <1>1, <1>2 DEF Progressing

\* A step that records what follows the last record of its occurrence.
LEMMA ObserveKeeps ==
  ASSUME TypeOK, Progressing, NEW c \in InProgress, NEW status \in Status, Observe(c, status),
         UNCHANGED subjects,
         \A d \in Call \ {c} : stage'[d] = stage[d] /\ attempt'[d] = attempt[d],
         status = "retrying" => attempt[c] < MaxAttempts[c],
         Entries(Occurrence[c]) = {} => status = "running" /\ attempt[c] = 1,
         \A i \in Entries(Occurrence[c]) :
           (\A j \in Entries(Occurrence[c]) : j <= i) => Follows(buffer[i], Entry(c, status)),
         c \in InProgress' => attempt'[c] >= 1 /\ Recorded(c)'
  PROVE  Progressing'
<1>1. c \in Call /\ Occurrence[c] \in subjects
  BY DEF InProgress, Progressing, Owns
<1>2. buffer' = Append(buffer, Entry(c, status)) /\ Entry(c, status) \in Record
  BY <1>1, ObserveTyped, EntryTyped
<1>3. (\A d \in InProgress : Owns(d) /\ Recorded(d))'
  BY <1>1, <1>2, CallsKeep
<1>4. HistoryIsOrderly'
  <2>1. PICK e \in Record : e = Entry(c, status)
    BY <1>2
  <2>2. /\ e.occ = Occurrence[c] /\ e.attempt = attempt[c] /\ e.of = MaxAttempts[c] /\ e.status = status
    BY <2>1 DEF Entry
  <2>3. e.attempt <= e.of
    BY <1>1, <2>2 DEF TypeOK
  <2> QED
    BY <1>2, <2>1, <2>2, <2>3, HistoryGrows DEF Progressing
<1>5. \A i \in DOMAIN buffer' : buffer'[i].occ \in subjects'
  <2>1. /\ DOMAIN buffer' = 1..(Len(buffer) + 1) /\ DOMAIN buffer = 1..Len(buffer) /\ Len(buffer) \in Nat
        /\ \A i \in DOMAIN buffer : buffer'[i] = buffer[i]
        /\ buffer'[Len(buffer) + 1].occ = Occurrence[c]
    BY <1>2, BufferIs, AppendIs DEF Entry
  <2> QED
    BY <1>1, <2>1 DEF Progressing
<1> QED
  BY <1>3, <1>4, <1>5 DEF Progressing

\* When the buffer has not changed, neither has what a call has recorded.
LEMMA SameRecords ==
  ASSUME UNCHANGED buffer
  PROVE  /\ \A o : Entries(o)' = Entries(o)
         /\ \A o, status, n : LastIs(o, status, n)' <=> LastIs(o, status, n)
BY DEF Entries, LastIs

\* The last record of a call that waits, or has waited, is the opening of its attempt.
LEMMA EnteredStage ==
  ASSUME NEW c \in Call, NEW n, attempt'[c] = n, LastIs(Occurrence[c], "running", n)',
         stage'[c] \in {"call", "await", "resumed"}
  PROVE  Recorded(c)'
BY DEF Recorded, LastIs

LEMMA RetriedStage ==
  ASSUME NEW c \in Call, NEW n, attempt'[c] = n, LastIs(Occurrence[c], "retrying", n)',
         stage'[c] = "delay", n < MaxAttempts[c]
  PROVE  Recorded(c)'
BY DEF Recorded, LastIs

\* A call that goes from its check to its function, or back.
LEMMA CallingKeeps ==
  ASSUME TypeOK, Progressing, NEW c \in Call, UNCHANGED <<buffer, attempt, subjects>>,
         stage[c] \in {"call", "await", "resumed"}, NEW s \in {"await", "resumed"}, Goto(c, s)
  PROVE  Progressing'
<1>1. c \in InProgress
  BY DEF InProgress
<1>2. /\ stage'[c] \in {"call", "await", "resumed"}
      /\ \A d \in Call \ {c} : stage'[d] = stage[d] /\ attempt'[d] = attempt[d]
  BY DEF Goto, TypeOK
<1>3. PICK n : n = attempt[c]
  OBVIOUS
<1>4. LastIs(Occurrence[c], "running", n)'
  BY <1>1, <1>3, SameRecords DEF Progressing, Recorded
<1>5. Recorded(c)'
  BY <1>2, <1>3, <1>4, EnteredStage
<1> QED
  BY <1>1, <1>2, <1>5, SilentKeeps DEF Progressing, Owns

LEMMA StopKeeps ==
  ASSUME TypeOK, Progressing, NEW c \in Call, GoBack(c), UNCHANGED <<buffer, subjects>>
  PROVE  Progressing'
<1>1. c \notin InProgress' /\ \A d \in Call \ {c} : stage'[d] = stage[d] /\ attempt'[d] = attempt[d]
  BY GoBackLeaves DEF InProgress
<1> QED
  BY <1>1, SilentKeeps

LEMMA EnterKeeps ==
  ASSUME TypeOK, Progressing, NEW c \in Call, Enter(c)
  PROVE  Progressing'
<1>1. CASE GoBack(c) /\ UNCHANGED subjects
  BY <1>1, StopKeeps DEF Enter
<1>2. CASE /\ Admissible(c)
           /\ subjects' = subjects \cup {Occurrence[c]}
           /\ attempt' = [attempt EXCEPT ![c] = 1]
           /\ Goto(c, "attempt")
  <2>1. UNCHANGED buffer /\ Occurrence[c] \notin subjects
    BY <1>2 DEF Enter, Admissible
  <2>2. /\ stage'[c] = "attempt" /\ attempt'[c] = 1
        /\ \A d \in Call \ {c} : stage'[d] = stage[d] /\ attempt'[d] = attempt[d]
    BY <1>2 DEF Goto, TypeOK
  <2>3. Entries(Occurrence[c])' = {}
    BY <2>1 DEF Entries, Progressing
  <2>4. Recorded(c)'
    BY <2>2, <2>3 DEF Recorded
  <2> QED
    BY <1>2, <2>1, <2>2, <2>4, SilentKeeps
<1> QED
  BY <1>1, <1>2 DEF Enter, StopCall

LEMMA AttemptKeeps ==
  ASSUME TypeOK, Progressing, NEW c \in Call, Attempt(c)
  PROVE  Progressing'
<1>1. CASE StopCall(c) /\ UNCHANGED buffer
  BY <1>1, StopKeeps DEF Attempt, StopCall
<1>2. CASE Goto(c, "call") /\ Observe(c, "running") /\ UNCHANGED attempt
  <2>1. c \in InProgress /\ UNCHANGED subjects
    BY <1>2 DEF Attempt, InProgress
  <2>2. PICK n \in Nat : n = attempt[c] /\ n >= 1
    BY <2>1 DEF TypeOK, Progressing, Owns
  <2>3. IF n = 1 THEN Entries(Occurrence[c]) = {} ELSE LastIs(Occurrence[c], "retrying", n - 1)
    BY <2>1, <2>2 DEF Attempt, Progressing, Recorded
  <2>4. ASSUME NEW i \in Entries(Occurrence[c]), \A j \in Entries(Occurrence[c]) : j <= i
        PROVE  Follows(buffer[i], Entry(c, "running"))
    <3>1. buffer[i].status = "retrying" /\ buffer[i].attempt = n - 1
      BY <2>3, <2>4 DEF LastIs
    <3> QED
      BY <2>2, <3>1 DEF Follows, Entry
  <2>5. Entries(Occurrence[c]) = {} => attempt[c] = 1
    BY <2>2, <2>3 DEF LastIs
  <2>6. LastIs(Occurrence[c], "running", n)'
    <3>1. Entry(c, "running") \in Record /\ buffer' = Append(buffer, Entry(c, "running"))
      BY <1>2, ObserveTyped, EntryTyped DEF Status
    <3>2. PICK e \in Record : e = Entry(c, "running")
      BY <3>1
    <3>3. e.occ = Occurrence[c] /\ e.status = "running" /\ e.attempt = n
      BY <2>2, <3>2 DEF Entry
    <3> QED
      BY <3>1, <3>2, <3>3, LastIsNew
  <2>7. /\ stage'[c] = "call" /\ attempt'[c] = n
        /\ \A d \in Call \ {c} : stage'[d] = stage[d] /\ attempt'[d] = attempt[d]
    BY <1>2, <2>2 DEF Goto, TypeOK
  <2>8. Recorded(c)'
    BY <2>6, <2>7, EnteredStage
  <2> QED
    BY <1>2, <2>1, <2>2, <2>4, <2>5, <2>7, <2>8, ObserveKeeps DEF Status
<1> QED
  BY <1>1, <1>2 DEF Attempt

LEMMA ResumeKeeps ==
  ASSUME TypeOK, Progressing, NEW c \in Call, Resume(c)
  PROVE  Progressing'
<1>1. c \in InProgress /\ UNCHANGED subjects
  BY DEF Resume, InProgress
<1>2. PICK n \in Nat : n = attempt[c] /\ n >= 1
  BY <1>1 DEF TypeOK, Progressing, Owns
<1>3. LastIs(Occurrence[c], "running", n)
  BY <1>1, <1>2 DEF Resume, Progressing, Recorded
<1>4. Entries(Occurrence[c]) # {}
  BY <1>3 DEF LastIs
<1>5. ASSUME NEW status \in {"succeeded", "failed", "retrying"},
             NEW i \in Entries(Occurrence[c]), \A j \in Entries(Occurrence[c]) : j <= i
      PROVE  Follows(buffer[i], Entry(c, status))
  <2>1. buffer[i].status = "running" /\ buffer[i].attempt = n
    BY <1>3, <1>5 DEF LastIs
  <2> QED
    BY <1>2, <2>1 DEF Follows, Entry
<1>6. ASSUME NEW status \in {"succeeded", "failed"}, Observe(c, status), GoBack(c)
      PROVE  Progressing'
  <2>1. c \notin InProgress' /\ \A d \in Call \ {c} : stage'[d] = stage[d] /\ attempt'[d] = attempt[d]
    BY <1>6, GoBackLeaves DEF InProgress
  <2>2. status \in Status /\ status # "retrying"
    BY DEF Status
  <2> QED
    BY <1>1, <1>4, <1>5, <1>6, <2>1, <2>2, ObserveKeeps
<1>7. CASE Observe(c, "retrying") /\ Goto(c, "delay") /\ UNCHANGED attempt /\ n < MaxAttempts[c]
  <2>1. /\ stage'[c] = "delay" /\ attempt'[c] = n
        /\ \A d \in Call \ {c} : stage'[d] = stage[d] /\ attempt'[d] = attempt[d]
    BY <1>2, <1>7 DEF Goto, TypeOK
  <2>2. LastIs(Occurrence[c], "retrying", n)'
    <3>1. Entry(c, "retrying") \in Record /\ buffer' = Append(buffer, Entry(c, "retrying"))
      BY <1>7, ObserveTyped, EntryTyped DEF Status
    <3>2. PICK e \in Record : e = Entry(c, "retrying")
      BY <3>1
    <3>3. e.occ = Occurrence[c] /\ e.status = "retrying" /\ e.attempt = n
      BY <1>2, <3>2 DEF Entry
    <3> QED
      BY <3>1, <3>2, <3>3, LastIsNew
  <2>3. Recorded(c)'
    BY <1>7, <2>1, <2>2, RetriedStage
  <2> QED
    BY <1>1, <1>2, <1>4, <1>5, <1>7, <2>1, <2>3, ObserveKeeps DEF Status
<1> QED
  BY <1>2, <1>6, <1>7 DEF Resume, MayRetry

LEMMA DelayKeeps ==
  ASSUME TypeOK, Progressing, NEW c \in Call, Delay(c)
  PROVE  Progressing'
<1>1. CASE StopCall(c)
  BY <1>1, StopKeeps DEF Delay, StopCall
<1>2. CASE attempt' = [attempt EXCEPT ![c] = @ + 1] /\ Goto(c, "attempt")
  <2>1. c \in InProgress /\ UNCHANGED <<subjects, buffer>>
    BY DEF Delay, InProgress
  <2>2. PICK n \in Nat : n = attempt[c] /\ n >= 1
    BY <2>1 DEF TypeOK, Progressing, Owns
  <2>3. /\ stage'[c] = "attempt" /\ attempt'[c] = n + 1
        /\ \A d \in Call \ {c} : stage'[d] = stage[d] /\ attempt'[d] = attempt[d]
    BY <1>2, <2>2 DEF Goto, TypeOK
  <2>4. LastIs(Occurrence[c], "retrying", n)'
    BY <2>1, <2>2, SameRecords DEF Delay, Progressing, Recorded
  <2>5. attempt'[c] # 1 /\ attempt'[c] - 1 = n
    BY <2>2, <2>3
  <2>6. Recorded(c)'
    BY <2>3, <2>4, <2>5 DEF Recorded, LastIs
  <2> QED
    BY <2>1, <2>2, <2>3, <2>6, SilentKeeps DEF Progressing, Owns
<1> QED
  BY <1>1, <1>2 DEF Delay

\* Calls are given up: those that are left are where they were.
LEMMA AbandonedKeeps ==
  ASSUME TypeOK, Progressing, NEW C, Abandoned(C), UNCHANGED <<buffer, subjects>>
  PROVE  Progressing'
<1>1. \A d \in InProgress' : d \in InProgress /\ d \in Call /\ stage'[d] = stage[d] /\ attempt'[d] = attempt[d]
  BY DEF Abandoned, InProgress
<1>2. \A d \in InProgress' : Recorded(d)'
  BY <1>1, RecordedStill, SameRecords DEF Progressing
<1>3. \A d \in InProgress' : Owns(d)'
  BY <1>1 DEF Progressing, Owns
<1>4. HistoryIsOrderly'
  BY DEF Progressing, HistoryIsOrderly, Entries
<1> QED
  BY <1>2, <1>3, <1>4 DEF Progressing

LEMMA ProgressKeeps ==
  ASSUME TypeOK, Progressing, [Next]_vars
  PROVE  Progressing'
<1> USE DEF steps, sink
<1>1. ASSUME NEW c \in Call, Invoke(c)
      PROVE  Progressing'
  BY <1>1, CallingKeeps DEF Invoke
<1>2. ASSUME NEW c \in Call, TimeOut(c)
      PROVE  Progressing'
  BY <1>2, CallingKeeps DEF TimeOut
<1>3. ASSUME UNCHANGED <<stage, attempt, buffer, subjects>>
      PROVE  Progressing'
  <2>1. InProgress' = InProgress
    BY <1>3 DEF InProgress
  <2>2. \A d \in InProgress : Recorded(d)'
    BY <1>3, RecordedStill, SameRecords DEF Progressing, InProgress
  <2>3. \A d \in InProgress : Owns(d)'
    BY <1>3, <2>1 DEF Progressing, Owns
  <2>4. HistoryIsOrderly'
    BY <1>3 DEF Progressing, HistoryIsOrderly, Entries
  <2> QED
    BY <1>3, <2>1, <2>2, <2>3, <2>4 DEF Progressing
<1>4. ASSUME NEW r \in running, FunctionEnds(r)
      PROVE  Progressing'
  <2>1. CASE stage[r[1]] = "await" /\ Goto(r[1], "resumed")
    BY <1>4, <2>1, CallingKeeps DEF FunctionEnds, TypeOK
  <2>2. CASE UNCHANGED stage
    BY <1>4, <2>2, <1>3 DEF FunctionEnds
  <2> QED
    BY <1>4, <2>1, <2>2 DEF FunctionEnds
<1>5. ASSUME NEW c \in Call, Abandon(c)
      PROVE  Progressing'
  BY <1>5, AbandonedKeeps DEF Abandon
<1>6. CASE End
  BY <1>6, AbandonedKeeps DEF End
<1>7. CASE Cancel \/ Expire \/ Drain \/ Replay \/ Return \/ UNCHANGED vars
  BY <1>7, <1>3 DEF Cancel, Expire, Drain, Replay, Return, vars
<1> QED
  BY <1>1, <1>2, <1>4, <1>5, <1>6, <1>7, EnterKeeps, AttemptKeeps, ResumeKeeps, DelayKeeps
     DEF Next, Proceed

-----------------------------------------------------------------------------
(* The event sink *)

Sunk == faults = 0 => Shows(replayed)

\* What has been replayed does not change when more is recorded.
LEMMA SinkStill ==
  ASSUME TypeOK, Sunk, UNCHANGED sink, \A i \in DOMAIN buffer : buffer'[i] = buffer[i]
  PROVE  Sunk'
<1>1. PICK n \in Nat : n = replayed /\ n <= Len(buffer)
  BY BufferIs DEF TypeOK
<1>2. \A i \in 1..n : buffer'[i] = buffer[i]
  BY <1>1, BufferIs
<1>3. Latest(n)' = Latest(n)
  BY <1>2 DEF Latest
<1>4. ASSUME Shows(n)
      PROVE  Shows(n)'
  <2>1. \A i \in Latest(n) : buffer'[i] = buffer[i]
    BY <1>2 DEF Latest
  <2> QED
    BY <1>2, <1>3, <1>4, <2>1 DEF Shows, sink
<1> QED
  BY <1>1, <1>4 DEF Sunk, Shows, sink

\* A record that is replayed takes the place of the last one of its occurrence.
LEMMA LatestGrows ==
  ASSUME NEW n \in Nat
  PROVE  Latest(n + 1) = {i \in Latest(n) : buffer[i].occ # buffer[n + 1].occ} \cup {n + 1}
<1>1. \A i : i \in 1..(n + 1) <=> (i \in 1..n \/ i = n + 1)
  OBVIOUS
<1>2. \A i \in 1..n : i < n + 1 /\ ~(n + 1 <= i)
  OBVIOUS
<1> QED
  BY <1>1, <1>2 DEF Latest

LEMMA ReplayKeeps ==
  ASSUME TypeOK, HistoryIsOrderly, Sunk, Replay
  PROVE  Sunk'
<1> SUFFICES ASSUME faults' = 0 PROVE Shows(replayed)'
  BY DEF Sunk
<1>1. PICK n \in Nat : n = replayed /\ n + 1 \in DOMAIN buffer
  BY BufferIs DEF TypeOK, Replay
<1>2. PICK e \in Record : e = buffer[n + 1]
  BY <1>1, BufferIs
<1>3. /\ replayed' = n + 1 /\ UNCHANGED buffer /\ faults = 0
      /\ open' = IF e.status = "running" THEN open \cup {<<e.occ, e.attempt>>} ELSE open \ {<<e.occ, e.attempt>>}
      /\ shown' = [shown EXCEPT ![e.occ] = e.status]
  <2>1. PICK spanFails, projectionFails \in {0, 1} :
          /\ SinkMay(spanFails + projectionFails)
          /\ open' = IF spanFails = 1 THEN open
                     ELSE IF e.status = "running" THEN open \cup {<<e.occ, e.attempt>>}
                     ELSE open \ {<<e.occ, e.attempt>>}
          /\ shown' = IF projectionFails = 1 THEN shown ELSE [shown EXCEPT ![e.occ] = e.status]
    BY <1>1, <1>2 DEF Replay
  <2>2. faults \in Nat /\ faults' = faults + (spanFails + projectionFails)
    BY <2>1, CallAssumption DEF SinkMay, TypeOK
  <2>3. spanFails = 0 /\ projectionFails = 0 /\ faults = 0
    BY <2>2
  <2>4. replayed' = n + 1 /\ UNCHANGED buffer
    BY <1>1 DEF Replay, steps
  <2>5. 0 # 1
    OBVIOUS
  <2> QED
    BY <2>1, <2>3, <2>4, <2>5
<1>4. Shows(n)
  BY <1>1, <1>3 DEF Sunk
<1>5. /\ e.occ \in Subject /\ e.attempt \in Nat /\ e.status \in Status
      /\ shown \in [Subject -> Status \cup {None}]
  BY <1>2 DEF Record, TypeOK
<1>6. \A i \in 1..n : i \in DOMAIN buffer /\ i < n + 1 /\ i \in Nat
  BY <1>1, BufferIs
<1>7. ASSUME NEW i \in Latest(n), buffer[i].occ = e.occ
      PROVE  Follows(buffer[i], e)
  <2>1. i \in 1..n /\ \A j \in 1..n : buffer[j].occ = e.occ => j <= i
    BY <1>7 DEF Latest
  <2>2. i \in Entries(e.occ) /\ n + 1 \in Entries(e.occ) /\ i < n + 1
    BY <1>1, <1>2, <1>6, <1>7, <2>1 DEF Entries
  <2>3. ASSUME NEW k \in Entries(e.occ)
        PROVE  k <= i \/ n + 1 <= k
    <3>1. k \in Nat /\ k >= 1 /\ buffer[k].occ = e.occ
      BY BufferIs DEF Entries
    <3>2. k \in 1..n \/ n + 1 <= k
      BY <3>1
    <3> QED
      BY <2>1, <3>1, <3>2
  <2> QED
    BY <1>2, <1>5, <2>2, <2>3 DEF HistoryIsOrderly
<1>8. Latest(n + 1) = {i \in Latest(n) : buffer[i].occ # e.occ} \cup {n + 1}
  BY <1>2, LatestGrows
<1>9. \A i \in Latest(n) : i \in 1..n /\ buffer[i].occ \in Subject
  <2>1. \A i \in Latest(n) : i \in 1..n
    BY DEF Latest
  <2>2. \A i \in 1..n : buffer[i].occ \in Subject
    BY <1>6, BufferIs DEF Record
  <2> QED
    BY <2>1, <2>2
<1>10. \A i \in Latest(n + 1) : shown'[buffer[i].occ] = buffer[i].status
  BY <1>2, <1>3, <1>4, <1>5, <1>8, <1>9 DEF Shows
<1>11. ASSUME NEW o \in Subject, \A i \in 1..(n + 1) : buffer[i].occ # o
       PROVE  shown'[o] = None
  <2>1. (\A i \in 1..n : buffer[i].occ # o) /\ e.occ # o
    BY <1>2, <1>11
  <2> QED
    BY <1>3, <1>4, <1>5, <2>1 DEF Shows
<1>12. open' = {<<buffer[i].occ, buffer[i].attempt>> : i \in {i \in Latest(n + 1) : buffer[i].status = "running"}}
  <2>1. CASE e.status = "running"
    <3>1. \A i \in Latest(n) : buffer[i].occ = e.occ => buffer[i].status # "running"
      BY <1>7, <2>1 DEF Follows
    <3> QED
      BY <1>2, <1>3, <1>4, <1>8, <2>1, <3>1 DEF Shows
  <2>2. CASE e.status # "running"
    <3>1. \A i \in Latest(n) : buffer[i].occ = e.occ => buffer[i].attempt = e.attempt
      BY <1>7, <2>2 DEF Follows
    <3> QED
      BY <1>2, <1>3, <1>4, <1>8, <2>2, <3>1 DEF Shows
  <2> QED
    BY <2>1, <2>2
<1>13. Latest(n + 1)' = Latest(n + 1)
  BY <1>3 DEF Latest
<1> QED
  BY <1>3, <1>10, <1>11, <1>12, <1>13 DEF Shows

LEMMA SinkKeeps ==
  ASSUME TypeOK, Progressing, Sunk, [Next]_vars
  PROVE  Sunk'
<1> USE DEF steps
<1>1. ASSUME NEW c \in Call, Attempt(c) \/ Resume(c)
      PROVE  Sunk'
  <2>1. UNCHANGED buffer \/ \E status \in Status : Observe(c, status)
    BY <1>1 DEF Attempt, Resume, Status
  <2>2. \A i \in DOMAIN buffer : buffer'[i] = buffer[i]
    <3>1. ASSUME NEW status \in Status, Observe(c, status)
          PROVE  \A i \in DOMAIN buffer : buffer'[i] = buffer[i]
      BY <3>1, ObserveTyped, EntryTyped, AppendIs
    <3> QED
      BY <2>1, <3>1
  <2> QED
    BY <1>1, <2>2, SinkStill DEF Attempt, Resume
<1>2. ASSUME UNCHANGED <<buffer, sink>>
      PROVE  Sunk'
  BY <1>2, SinkStill
<1>3. CASE Replay
  BY <1>3, ReplayKeeps DEF Progressing
<1> QED
  BY <1>1, <1>2, <1>3
     DEF Next, Proceed, Enter, Invoke, TimeOut, Delay, Abandon, End, FunctionEnds,
         Cancel, Expire, Drain, Return, vars

-----------------------------------------------------------------------------
(* The theorems *)

LEMMA InvParts ==
  IInv <=> TypeOK /\ Looped /\ Awaited /\ Progressing /\ Sunk
BY DEF IInv, Looped, Awaited, Progressing, Sunk

LEMMA InitEstablishes ==
  ASSUME Init
  PROVE  IInv
<1> USE DEF Init
<1>1. TypeOK
  BY InitTyped
<1>2. InProgress = {}
  BY DEF InProgress
<1>3. Looped
  BY <1>2, CallAssumption DEF Looped, Holds, Ended
<1>4. Awaited
  BY DEF Awaited, FunctionsAreAwaited
<1>5. Progressing
  BY <1>2 DEF Progressing, HistoryIsOrderly, Entries
<1>6. Sunk
  <2>1. 1..0 = {}
    OBVIOUS
  <2>2. Latest(0) = {}
    BY <2>1 DEF Latest
  <2> QED
    BY <2>1, <2>2 DEF Sunk, Shows
<1> QED
  BY <1>1, <1>3, <1>4, <1>5, <1>6, InvParts

LEMMA NextKeeps ==
  ASSUME IInv, [Next]_vars
  PROVE  IInv'
<1>1. TypeOK /\ Looped /\ Awaited /\ Progressing /\ Sunk
  BY InvParts
<1>2. \A c \in Call : stage[c] = "delay" => attempt[c] < MaxAttempts[c]
  BY <1>1 DEF Progressing, Recorded, InProgress
<1>3. TypeOK'
  BY <1>1, <1>2, TypeKeeps DEF Awaited
<1>4. Looped'
  BY <1>1, LoopKeeps
<1>5. Awaited'
  BY <1>1, AwaitedKeeps DEF Progressing, Owns, Alone
<1>6. Progressing'
  BY <1>1, ProgressKeeps
<1>7. Sunk'
  BY <1>1, SinkKeeps
<1> QED
  BY <1>3, <1>4, <1>5, <1>6, <1>7 DEF IInv, Looped, Awaited, Progressing, Sunk

\* In every reachable state the records of a call in progress are those of its
\* stage, and the event sink shows what has been replayed.
THEOREM Invariance == Spec => []IInv
<1>1. IInv /\ [Next]_vars => IInv'
  BY NextKeeps
<1> QED
  BY InitEstablishes, <1>1, PTL DEF Spec

\* The state has its types; in particular no attempt is beyond the policy of
\* its step, and no more is replayed than was recorded.
THEOREM TypeCorrect == Spec => []TypeOK
<1>1. IInv => TypeOK
  BY DEF IInv
<1> QED
  BY Invariance, <1>1, PTL

\* The records of every step are those of one call, attempt after attempt, each
\* opened before it is closed and only the last one closed for good.
THEOREM OrderlyHistory == Spec => []HistoryIsOrderly
<1>1. IInv => HistoryIsOrderly
  BY DEF IInv
<1> QED
  BY Invariance, <1>1, PTL

\* A function that runs is awaited, alone for its occurrence, unless it is a
\* synchronous one that was given up.
THEOREM NoStrayFunctions == Spec => []FunctionsAreAwaited
<1>1. IInv => FunctionsAreAwaited
  BY DEF IInv
<1> QED
  BY Invariance, <1>1, PTL

\* When execute returns without a failure of the sink, the event sink shows the
\* last status of every step, and the spans of the attempts never closed.
THEOREM SinkIsTrue == Spec => []ShownIsRecorded
<1>1. IInv => ShownIsRecorded
  <2> SUFFICES ASSUME IInv, main = "returned", faults = 0
               PROVE  /\ \A i \in Latest(Len(buffer)) : shown[buffer[i].occ] = buffer[i].status
                      /\ \A o \in Subject : Entries(o) = {} => shown[o] = None
                      /\ open = {<<buffer[i].occ, buffer[i].attempt>> :
                                   i \in {i \in Latest(Len(buffer)) : buffer[i].status = "running"}}
    <3>1. ASSUME TypeOK
          PROVE  Latest(Len(buffer)) =
                   {i \in DOMAIN buffer : \A j \in Entries(buffer[i].occ) : j <= i}
      BY <3>1, BufferIs DEF Latest, Entries
    <3> QED
      BY <3>1 DEF ShownIsRecorded, IInv
  <2>1. Shows(Len(buffer))
    BY DEF IInv
  <2>2. \A o : Entries(o) = {} => \A i \in 1..Len(buffer) : buffer[i].occ # o
    BY BufferIs DEF IInv, Entries
  <2> QED
    BY <2>1, <2>2 DEF Shows
<1> QED
  BY Invariance, <1>1, PTL

\* Once a check of the token has stopped one step, no function of any step is called.
THEOREM StopHeeded == Spec => StopIsHeeded
<1>1. IInv /\ [Next]_vars => [heard => running' \subseteq running]_vars
  <2> SUFFICES ASSUME IInv, heard, Next
               PROVE  running' \subseteq running
    BY DEF vars
  <2>1. ASSUME NEW c \in Call, Invoke(c)
        PROVE  running' \subseteq running
    <3>1. FALSE
      BY <2>1 DEF Invoke, IInv, Holds
    <3> QED
      BY <3>1
  <2>2. ASSUME NEW C, GiveUp(C)
        PROVE  running' \subseteq running
    BY <2>2 DEF GiveUp
  <2>3. ASSUME NEW r, FunctionEnds(r)
        PROVE  running' \subseteq running
    BY <2>3 DEF FunctionEnds
  <2>4. CASE UNCHANGED running
    BY <2>4
  <2> QED
    BY <2>1, <2>2, <2>3, <2>4
       DEF Next, Proceed, Enter, Attempt, TimeOut, Resume, Delay, Abandon, Abandoned, End,
           Cancel, Expire, Drain, Replay, Return, steps
<1> QED
  BY Invariance, <1>1, PTL DEF Spec, StopIsHeeded
=============================================================================
