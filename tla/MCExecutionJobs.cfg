CONSTANTS
  w1 = w1
  w2 = w2
  j1 = j1
  j2 = j2
  j3 = j3
  None = None
  Worker = {w1, w2}
  Web = {"web"}
  Job = {j1, j2, j3}
  MaxFaults = 2
SPECIFICATION Spec
SYMMETRY Symmetry
INVARIANTS
  TypeOK
  PerformedOnce
PROPERTIES
  OutcomeIsFinal
  ImplementsLifecycle
CHECK_DEADLOCK FALSE
