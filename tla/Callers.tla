------------------------------- MODULE Callers ------------------------------
(* The threads of a process, which execute workflows and call its stores. *)
CONSTANTS
  Thread,
  None          \* no version, no engine, no artifact
=============================================================================
