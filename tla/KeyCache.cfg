SPECIFICATION FairSpec
CONSTANTS
  Requests = {r1, r2}
  Quota = 2
  MaxUsed = 2
  Writes = {"patch", "delete"}
  Faults = {"valkey", "ackLost", "store"}
  NoEntry = NoEntry
INVARIANTS
  TypeOK
  CachedUsageCounts
  EntryIsCurrent
PROPERTY
  BarredIsRefused
CHECK_DEADLOCK FALSE
