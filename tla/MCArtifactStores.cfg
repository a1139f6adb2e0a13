CONSTANTS
  c1 = c1
  c2 = c2
  c3 = c3
  r1 = r1
  r2 = r2
  json = json
  text = text
  bad = bad
  plain = plain
  secret = secret
  huge = huge
  deep = deep
  None = None
  Client = {c1, c2, c3}
  RunOf <- MCRunOf
  Name = {json, text, bad}
  SlotOf <- MCSlotOf
  BadName = {bad}
  Body = {"x"}
  Metadata = {plain, secret, huge, deep}
  Canonical <- MCCanonical
  BadMetadata = {deep}
  Huge = {huge}
  MaxCalls = 3
  MaxFaults = 2
SPECIFICATION Spec
INVARIANTS
  NoFalseAlarm
  RecordedIsStored
PROPERTIES
  ImplementsStore
CHECK_DEADLOCK FALSE
