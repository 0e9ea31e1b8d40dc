SPECIFICATION FairSpec
CONSTANTS
  Events = {e1, e2}
  BatchIds = {b1, b2}
  ChannelCapacity = 1
  BatchSize = 1
  MaxAttempts = 2
  MaxCharges = 2
  MaxSequence = 4
  Faults = {"crash", "dbFail", "ackLost", "patch"}
PROPERTIES
  AcceptedIsBilled
  ParkedIsBilled
  OverlayClears
