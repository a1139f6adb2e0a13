--------------------------- MODULE ProviderRecords --------------------------
(***************************************************************************)
(* What a workflow integration records about one execution: a span for     *)
(* each run of a unit (a LangGraph node, a LlamaIndex step), and snapshots *)
(* of the unit's state, of which the pages show the latest as its current  *)
(* state.  A report to the event sink may fail, and is suppressed.         *)
(***************************************************************************)
EXTENDS Naturals, Sequences, TLC

CONSTANTS
  None,
  Unit,         \* nodes or steps
  MaxFaults     \* bound on the reports that fail

ASSUME FaultAssumption == MaxFaults \in Nat

\* The states of a unit, and what a page shows of one.
Statuses == {"running", "waiting", "succeeded", "failed"}
Snapshots == [status: Statuses, sequence: Nat, fresh: BOOLEAN]

ASSUME NoneAssumption == None \notin Unit \cup Nat \cup Snapshots

VARIABLES
  rows,         \* the spans: their status, and whether the report of an end failed
  current,      \* the snapshot of each unit that the pages show, or None
  unknown,      \* history: the units with a snapshot that was not recorded
  faults        \* reports that have failed

records == <<rows, current, unknown, faults>>

\* Whether a report is recorded.
Works == IF faults < MaxFaults THEN BOOLEAN ELSE {TRUE}
Cost(works) == IF works THEN 0 ELSE 1

-----------------------------------------------------------------------------
(* Spans *)

Started(works) ==
  IF works THEN Append(rows, [status |-> "running", lost |-> FALSE]) ELSE rows

\* The reference of a span, or None if it could not be started.
RefIf(works) == IF works THEN Len(rows) + 1 ELSE None

Ended(table, refs, status, works) ==
  [i \in DOMAIN table |->
     IF i \notin refs THEN table[i]
     ELSE IF works THEN [table[i] EXCEPT !.status = status]
     ELSE [table[i] EXCEPT !.lost = TRUE]]

-----------------------------------------------------------------------------
(* Snapshots *)

\* _build_current_state takes the latest by time, sequence and key.  Records
\* are created in order, and two of them at the same time unless the clock
\* has ticked; fresh says that it has not since this one.
Shown(table, unit, status, sequence, tick) ==
  LET top == table[unit]
      wins == top = None \/ tick \/ ~top.fresh \/ sequence >= top.sequence
  IN  [u \in Unit |->
        IF u = unit /\ wins
        THEN [status |-> status, sequence |-> sequence, fresh |-> TRUE]
        ELSE IF table[u] = None THEN None
        ELSE [table[u] EXCEPT !.fresh = @ /\ ~tick]]

\* integration_projection, with kind snapshot.
Snapshot(unit, status, sequence, works) ==
  IF works
  THEN /\ \E tick \in BOOLEAN : current' = Shown(current, unit, status, sequence, tick)
       /\ UNCHANGED unknown
  ELSE unknown' = unknown \cup {unit} /\ UNCHANGED current

RecordsInit ==
  /\ rows = <<>>
  /\ current = [u \in Unit |-> None]
  /\ unknown = {}
  /\ faults = 0
=============================================================================
