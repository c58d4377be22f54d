SPECIFICATION FairSpec
CONSTANTS
  r1 = r1
  r2 = r2
  Requests <- TwoRequests
  Deployments <- MCDeployments
INVARIANTS
  CountsMatch
  Overdraft
PROPERTIES
  Converges
CHECK_DEADLOCK FALSE
