----------------------------- MODULE EngineOwner ----------------------------
(***************************************************************************)
(* DeploymentEngineOwner (services/runtime.py) of one process: the engine  *)
(* is created by the first execution that needs it and replaced by         *)
(* reconfigure.  A prepared workflow keeps the engine it was prepared on,  *)
(* with the stores that engine has built.                                  *)
(***************************************************************************)
EXTENDS Naturals, Sequences, EngineConstruction

CONSTANTS
  Config,       \* package configurations
  Settings,     \* what each of them says
  SignatureOf,  \* the hash of a configuration and of what is installed
  MaxEngines    \* bound on the engines built

ASSUME ConfigAssumption ==
  /\ \A config, other \in Config :
       SignatureOf[config] = SignatureOf[other] => config = other
  /\ MaxEngines \in Nat

Signatures == {SignatureOf[config] : config \in Config}

\* What a workflow is prepared with.
Handles == [engine : Nat, generation : Nat, signature : Signatures]

ASSUME HandleAssumption == None \notin Handles

VARIABLES
  raw,          \* raw_config
  engine,       \* _engine: a number, or None
  generation,   \* _generation
  signature,    \* _signature, or None
  built,        \* history: the configuration of every engine
  candidate,    \* the configuration reconfigure builds an engine of, or None
  step,         \* where each thread is in prepare
  handle        \* the engine, generation and signature it has taken, or None

owner == <<raw, engine, generation, signature, built, candidate, step, handle>>

OwnerStarts(settings) ==
  /\ raw' = settings
  /\ engine' = None /\ generation' = 0 /\ signature' = None
  /\ candidate' = None
  /\ step' = [t \in Thread |-> "none"]
  /\ handle' = [t \in Thread |-> None]

OwnerInit ==
  /\ raw \in Config
  /\ engine = None /\ generation = 0 /\ signature = None
  /\ built = <<>>
  /\ candidate = None
  /\ step = [t \in Thread |-> "none"]
  /\ handle = [t \in Thread |-> None]

Goes(t, next) == step' = [step EXCEPT ![t] = next]

-----------------------------------------------------------------------------
(* create_engine: under the lock, or on its own for a candidate *)

Makes == [config \in Config |-> Constructed(Settings[config])]

Builds(config) == Makes[config] /\ Len(built) < MaxEngines

NewEngine(config) ==
  /\ built' = Append(built, config)
  /\ engine' = Len(built) + 1

-----------------------------------------------------------------------------
(* prepare *)

Prepare(t) ==
  /\ step' = [step EXCEPT ![t] = "lookup"]
  /\ handle' = [handle EXCEPT ![t] = None]
  /\ UNCHANGED <<raw, engine, generation, signature, built, candidate>>

\* get_engine reads the engine without the lock.
LookUp(t) ==
  /\ step[t] = "lookup"
  /\ Goes(t, IF engine = None THEN "create" ELSE "take")
  /\ UNCHANGED <<raw, engine, generation, signature, built, candidate, handle>>

\* Mutation: the engine is not looked at again under the lock.
CreateUnchecked(t) ==
  /\ step[t] = "create"
  /\ \/ /\ Builds(raw)
        /\ NewEngine(raw)
        /\ generation' = 1 /\ signature' = SignatureOf[raw]
        /\ Goes(t, "take")
     \/ /\ ~Makes[raw]
        /\ Goes(t, "failed")
        /\ UNCHANGED <<engine, generation, signature, built>>
  /\ UNCHANGED <<raw, candidate, handle>>

\* The engine is built under the lock, which every other operation on the
\* owner but the look-up waits for, unless another thread has built it.
Create(t) ==
  /\ step[t] = "create"
  /\ \/ /\ engine = None /\ Builds(raw)
        /\ NewEngine(raw)
        /\ generation' = 1 /\ signature' = SignatureOf[raw]
        /\ Goes(t, "take")
     \/ /\ engine = None /\ ~Makes[raw]
        /\ Goes(t, "failed")
        /\ UNCHANGED <<engine, generation, signature, built>>
     \/ /\ engine # None
        /\ Goes(t, "take")
        /\ UNCHANGED <<engine, generation, signature, built>>
  /\ UNCHANGED <<raw, candidate, handle>>

\* Under the lock again: what the workflow is prepared with, outside it.
Take(t) ==
  /\ step[t] = "take"
  /\ handle' = [handle EXCEPT ![t] =
       [engine |-> engine, generation |-> generation, signature |-> signature]]
  /\ Goes(t, "prepared")
  /\ UNCHANGED <<raw, engine, generation, signature, built, candidate>>

OwnerStep(t) == LookUp(t) \/ Create(t) \/ Take(t)

-----------------------------------------------------------------------------
(* reconfigure, one at a time *)

\* An engine of the same signature is kept, and nothing done, unless force is
\* given.
Reconfigure(config, force) ==
  /\ candidate = None
  /\ force \/ SignatureOf[config] # signature
  /\ candidate' = config
  /\ UNCHANGED <<raw, engine, generation, signature, built, step, handle>>

\* Built outside the lock, the candidate is swapped in under it.
Swap ==
  /\ candidate # None /\ Builds(candidate)
  /\ NewEngine(candidate)
  /\ raw' = candidate /\ signature' = SignatureOf[candidate]
  /\ generation' = generation + 1
  /\ candidate' = None
  /\ UNCHANGED <<step, handle>>

\* The last good engine stays.
CandidateFails ==
  /\ candidate # None /\ ~Makes[candidate]
  /\ candidate' = None
  /\ UNCHANGED <<raw, engine, generation, signature, built, step, handle>>
=============================================================================
