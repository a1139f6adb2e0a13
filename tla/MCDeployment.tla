---------------------------- MODULE MCDeployment ----------------------------
(* Two threads; a saga of two operations; five configurations: the table or  *)
(* memory for the checkpoints and the durable store or memory for the        *)
(* artifacts, with the samples installed or given, the default ones with     *)
(* nothing but the saga, and one that is refused, since its plugin offers a  *)
(* tool once more.                                                           *)
EXTENDS Deployment, TLC

CONSTANTS t1, t2, o1, o2, on_table, on_memory, forgets, default, refused

Samples ==
  [name |-> "samples",
   offers |-> <<[scope |-> "workflow", name |-> "saga"], [scope |-> "workflow", name |-> "approval"]>>]

Saga == [name |-> "saga", offers |-> <<[scope |-> "workflow", name |-> "saga"]>>]

Clashing == [name |-> "clashing", offers |-> <<Tool("echo")>>]

Of(plugins, discover, store, kept) ==
  [plugins |-> plugins, discover |-> discover, enabled |-> {}, uses |-> {Tool("echo")},
   configured |-> {}, store |-> store, artifacts |-> kept]

MCSettings ==
  (on_table :> Of(<<>>, TRUE, "postgres", "durable"))
  @@ (on_memory :> Of(<<Samples>>, TRUE, "memory", "durable"))
  @@ (forgets :> Of(<<>>, TRUE, "postgres", "memory"))
  @@ (default :> Of(<<Saga>>, FALSE, "memory", "memory"))
  @@ (refused :> Of(<<Clashing>>, TRUE, "postgres", "durable"))

MCSignatureOf == [config \in Config |-> config]
MCInstalled == <<Samples>>
MCFit == {Tool("echo")}

Symmetry == Permutations({t1, t2}) \cup Permutations({o1, o2})
=============================================================================
