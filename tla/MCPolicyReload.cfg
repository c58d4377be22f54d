SPECIFICATION FairSpec
CONSTANTS
  Orgs = {o1, o2}
  Tables = {"limited", "models", "routers"}
  MaxChanges = 2
  MaxFails = 1
  NoOrg = NoOrg
INVARIANT NoLostWake
PROPERTIES NeverBack ComesFresh
CHECK_DEADLOCK FALSE
