SPECIFICATION FairSpec
CONSTANTS
  r1 = r1
  r2 = r2
  b1 = b1
  b2 = b2
  b3 = b3
  Events <- MCEvents
  Billed <- MCBilled
  BillsOnly <- MCBillsOnly
  BadRow <- MCBadRow
  BadBills <- MCBadBills
  Buffer = 1
  BatchSize = 2
INVARIANTS
  Conservation
PROPERTIES
  RunEnds
  BilledNotCrowdedOut
  ImplementsLedger
CHECK_DEADLOCK FALSE
