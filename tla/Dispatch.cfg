SPECIFICATION FairSpec
CONSTANTS
  Requests = {r1, r2}
  Accounts = {a, b, c}
  KeyLimits = {1, 2}
  AccountLimit = 1
  AttemptLimit = 2
  NoAccount = NoAccount
INVARIANTS
  TypeOK
  EachAttemptAnotherAccount
  SlotsAreHeld
  
PROPERTY
  EveryRequestEnds
CHECK_DEADLOCK FALSE
