CONSTANTS
  w1 = w1
  w2 = w2
  j1 = j1
  j2 = j2
  j3 = j3
  None = None
  Worker = {w1, w2}
  Web = {"web"}
  Job = {j1, j2}
  MaxFaults = 1
SPECIFICATION FairSpec
PROPERTIES
  JobsFinish
  RunningEnds
CHECK_DEADLOCK FALSE
