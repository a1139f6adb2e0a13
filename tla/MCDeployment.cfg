CONSTANTS
  t1 = t1
  t2 = t2
  o1 = o1
  o2 = o2
  on_table = on_table
  on_memory = on_memory
  forgets = forgets
  default = default
  refused = refused
  None = None
  Thread = {t1, t2}
  Operation = {o1, o2}
  Config = {on_table, on_memory, forgets, default, refused}
  Settings <- MCSettings
  SignatureOf <- MCSignatureOf
  Installed <- MCInstalled
  Accepting <- MCFit
  Working <- MCFit
  MaxEngines = 2
  MaxCalls = 4
  MaxFaults = 1
SPECIFICATION Spec
SYMMETRY Symmetry
INVARIANTS
  GenerationIsOneEngine
  OneOutcome
  DecidedAsSeen
PROPERTY ImplementsStream
CHECK_DEADLOCK FALSE
