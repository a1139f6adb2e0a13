CONSTANTS
  t1 = t1
  t2 = t2
  t3 = t3
  p1 = p1
  p2 = p2
  None = None
  Thread = {t1, t2, t3}
  Process = {p1, p2}
  Home <- MCHome
  MaxFaults = 2
SPECIFICATION Spec
SYMMETRY Symmetry
INVARIANTS
  TypeOK
  OverlapNeedsCancel
  OrphanOnlyByFault
PROPERTIES
  SucceededIsFinal
  CancelHeardAtHome
CHECK_DEADLOCK FALSE
