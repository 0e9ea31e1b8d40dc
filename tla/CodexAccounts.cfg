SPECIFICATION FairSpec
CONSTANTS
  Nodes = {n1}
  CheckNode = n1
  Requests = {r1}
  Check = check
  Admin = admin
  NoEntry = noEntry
  MaxGeneration = 2
  MaxFailures = 1
  MaxAdminCalls = 1
CHECK_DEADLOCK FALSE
INVARIANT TypeOK
PROPERTIES RefreshKeepsNewerToken RoutingFollowsToken
