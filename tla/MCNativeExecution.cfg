CONSTANTS
  c1 = c1
  c2 = c2
  c3 = c3
  a = a
  b = b
  None = None
  Call = {c1, c2, c3}
  Occurrence <- MCOccurrence
  Sync = {c1}
  Timed = {c1}
  MaxAttempts <- MCMaxAttempts
  MaxOccurrences = 2
  MaxFaults = 1
SPECIFICATION FairSpec
INVARIANTS
  TypeOK
  HistoryIsOrderly
  FunctionsAreAwaited
  ShownIsRecorded
PROPERTIES
  StopIsHeeded
  DeadlineEnds
CHECK_DEADLOCK FALSE
