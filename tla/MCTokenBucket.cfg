CONSTANTS
  p1 = p1
  NoCall = NoCall
  Processes = {p1}
  Limit = 2
  Second = 4
  TTL = 6
  MaxLag = 1
  MaxTime = 14
SPECIFICATION BucketSpec
VIEW View
INVARIANTS BucketTypeOK RateBound
PROPERTY DeniedOnlyWhenSpent
CHECK_DEADLOCK FALSE
