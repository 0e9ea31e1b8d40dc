SPECIFICATION Spec
CONSTANTS
  Requests = {r1, r2}
  Quota = 2
  MaxUsed = 2
  Writes = {"patch", "delete"}
  Faults = {}
  NoEntry = NoEntry
INVARIANT
  DeletedIsForgotten
CHECK_DEADLOCK FALSE
