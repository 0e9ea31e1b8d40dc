SPECIFICATION Spec
CONSTANTS
  Events = {e1, e2}
  BatchIds = {b1, b2}
  ChannelCapacity = 1
  BatchSize = 1
  MaxAttempts = 2
  MaxCharges = 2
  MaxSequence = 4
  Faults = {"crash", "shutdown", "cancel", "dbFail", "ackLost", "digest",
            "write", "seal", "claim", "peer", "analytics"}
SYMMETRY Symmetry
INVARIANTS
  QuotaCovers
  OneCopyOnDisk
