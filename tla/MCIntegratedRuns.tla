-------------------------- MODULE MCIntegratedRuns --------------------------
(* Three tasks of two nodes, or two steps with two workers; two users. *)
EXTENDS IntegratedRuns

CONSTANTS n1, n2, t1, t2, t3, u1, u2

MCNodeOf == (t1 :> n1) @@ (t2 :> n1) @@ (t3 :> n2)

\* Two of the tasks have the same node.
Symmetry == Permutations({u1, u2}) \cup Permutations({t1, t2})
=============================================================================
