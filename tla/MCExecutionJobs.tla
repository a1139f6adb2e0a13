--------------------------- MODULE MCExecutionJobs --------------------------
(* Two workers and one web process; three jobs of one run. *)
EXTENDS ExecutionJobs, TLC

CONSTANTS w1, w2, j1, j2, j3

Symmetry == Permutations({w1, w2}) \cup Permutations({j1, j2, j3})
=============================================================================
