SPECIFICATION FairSpec
CONSTANTS
  Edges = {a}
  Files = {1, 2}
  Blocks = {1, 2}
  Faults = {"edgeCrash", "primaryCrash", "network", "store", "operator","valkey","remove"}
INVARIANTS
  TypeOK
  RelayedIsStored
  LedgerIsStored
PROPERTY
  EverySealedIsRelayed
CHECK_DEADLOCK FALSE
