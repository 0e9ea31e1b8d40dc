SPECIFICATION Spec
CONSTANTS
  Events = {e1, e2, e3}
  BatchIds = {b1, b2, b3}
  ChannelCapacity = 1
  BatchSize = 2
  MaxAttempts = 2
  MaxCharges = 2
  MaxSequence = 5
  Faults = {"crash", "shutdown", "dbFail", "ackLost"}
SYMMETRY Symmetry
INVARIANTS
  TypeOK
  BilledAtMostOnce
  ReplayIsIdempotent
  OverlayIsOutstanding
  JournaledIsAccounted
  NoAttemptWhileSuspended
PROPERTY
  ImplementsLedger
