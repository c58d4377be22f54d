SPECIFICATION FairSpec
CONSTANTS
  c1 = c1
  c2 = c2
  k1 = k1
  NoCall = NoCall
  Callers <- TwoCallers
  Keys <- OneKey
  Usable = {"live"}
  Rejected = {"revoked"}
  TTL = 1
  NegativeTTL = 1
  MaxLookups = 1
  MaxChanges = 1
INVARIANTS KeyFresh OneQueryPerKey
PROPERTIES
  StaleGoes
  ResolveEnds
