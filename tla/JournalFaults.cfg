SPECIFICATION Spec
CONSTANTS
  Blocks = {b1, b2}
  Torn = torn
  MaxSequence = 4
  OldSequences <- Upgraded
  MaxFiles = 1
  MaxRollovers = 0
  Faults = {"crash","stop","seal","workerCrash","operator","write","open","store"}
SYMMETRY Symmetry
CHECK_DEADLOCK FALSE
INVARIANTS TypeOK OneFilePerSequence ConsumedIsImported WrittenIsKept 
