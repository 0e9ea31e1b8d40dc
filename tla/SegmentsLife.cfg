SPECIFICATION FairSpec
CONSTANTS
  Events = {e1, e2}
  Sought = {}
  Attempts = 2
  MaxSegments = 1
  MaxSequence = 3
  Faults = {"crash", "init", "seal", "retention"}
INVARIANTS
  TypeOK
  AckedIsKept
  CatalogNamesFiles
PROPERTIES
  PendingIsPublished
  ExpiredIsDeleted
CHECK_DEADLOCK FALSE
