SPECIFICATION HealthySpec
CONSTANTS
  r1 = r1
  r2 = r2
  b1 = b1
  b2 = b2
  b3 = b3
  Events <- MCEvents
  Billed <- MCBilled
  BillsOnly = {}
  BadRow = {}
  BadBills = {}
  Buffer = 5
  BatchSize = 2
INVARIANT
  StopWritesQueued
CHECK_DEADLOCK FALSE
