CONSTANTS
  p1 = p1
  p2 = p2
  l1 = l1
  l2 = l2
  l3 = l3
  Processes = {p1, p2}
  Loops = {l1, l2, l3}
  ProcessOf <- MCProcessOf
  MaxSnapshots = 2
  Skew = 1
  MaxTime = 4
  MaxCuts = 1
SPECIFICATION FairSpec
INVARIANTS NewestKept WindowBounded
PROPERTY StopEndsLoops
CHECK_DEADLOCK FALSE
