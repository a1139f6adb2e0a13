CONSTANTS
  a = a
  b = b
  c = c
  x = x
  y = y
  p1 = p1
  p2 = p2
  n1 = n1
  n2 = n2
  n3 = n3
  None = None
  Proc <- MCProc
  Request <- MCRequest
  Large <- LargeA
  Inode <- MCInode
  MaxFaults = 2
SPECIFICATION FairSpec
INVARIANTS
  TypeOK
  ReturnedStaysLoadable
  NeverCondemned
  RecoveredIsExact
  NoLostRace
PROPERTIES
  RetryIsIdempotent
  ImplementsStream
  LockIsGivenBack
  IntentsAreResolved
