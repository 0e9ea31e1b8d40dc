SPECIFICATION FairSpec
CONSTANTS
  Blocks = {b1, b2, b3}
  Torn = torn
  MaxSequence = 4
  OldSequences = {}
  MaxFiles = 4
  MaxRollovers = 1
  Faults = {"rollover", "workerCrash"}
CHECK_DEADLOCK FALSE
PROPERTY EveryBlockIsImported
