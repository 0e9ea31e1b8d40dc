SPECIFICATION Spec
CONSTANTS
  Events = {e1, e2}
  Sought = {e1}
  Attempts = 1
  MaxSegments = 1
  MaxSequence = 3
  Faults = {"crash", "redis", "append", "init", "initTorn", "seal", "retention"}
INVARIANTS
  LookupFindsPublished
CHECK_DEADLOCK FALSE
