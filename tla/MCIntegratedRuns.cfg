CONSTANTS
  n1 = n1
  n2 = n2
  t1 = t1
  t2 = t2
  t3 = t3
  u1 = u1
  u2 = u2
  None = None
  Unit = {n1, n2}
  Task = {t1, t2, t3}
  NodeOf <- MCNodeOf
  Worker = {0, 1}
  MaxStepRuns = 3
  User = {u1, u2}
  MaxPauses = 2
  MaxFaults = 1
SPECIFICATION Spec
SYMMETRY Symmetry
INVARIANTS
  SpansAreSettled
  FailureIsCurrent
  AnsweredOnce
CHECK_DEADLOCK FALSE
