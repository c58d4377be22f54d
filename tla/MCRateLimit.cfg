SPECIFICATION MCSpec
CONSTANTS
  orgRpm = orgRpm
  orgTpm = orgTpm
  keyTpm = keyTpm
  NoBucket = NoBucket
  NoReplica = NoReplica
  Redis = Redis
  r1 = r1
  q1 = q1
  q2 = q2
  Keys = {orgRpm, orgTpm, keyTpm}
  Reqs <- OrgAndKey
  Replicas = {r1}
  Requests = {q1, q2}
  Amounts = {3}
  Minute = 1
  BucketIdle = 0
  RestFor = 1
  MaxChargeKeys = 1
  MaxTries = 1
  Stopping = {r1}
  MaxClock = 1
INVARIANTS AccountedOnce NeverMinted Agree
PROPERTY ChargesLand
CHECK_DEADLOCK FALSE
