CONSTANTS
  None = None
  Actor = {"execution", "cancel", "helper"}
  Outcome = {"failed", "waiting"}
  MaxTurns = 1
  MaxCommits = 3
  MaxDrops = 1
SPECIFICATION FairSpec
INVARIANTS
  StatusIsDecided
  EndIsShown
PROPERTIES
  PageNeverGoesBack
  PageCatchesUp
CHECK_DEADLOCK FALSE
