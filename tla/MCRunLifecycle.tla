--------------------------- MODULE MCRunLifecycle ---------------------------
(* Three threads in two processes execute, cancel and retry one run. *)
EXTENDS RunLifecycle, TLC

CONSTANTS t1, t2, t3, p1, p2

MCHome == t1 :> p1 @@ t2 :> p1 @@ t3 :> p2

\* t1 and t2 are alike.
Symmetry == Permutations({t1, t2})
=============================================================================
