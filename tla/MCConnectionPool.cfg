CONSTANTS
  p1 = p1
  p2 = p2
  p3 = p3
  p4 = p4
  w1 = w1
  k1 = k1
  k2 = k2
  k3 = k3
  k4 = k4
  k5 = k5
  k6 = k6
  k7 = k7
  k8 = k8
  k9 = k9
  None = None
  Callers = {p1, p2, p3, p4}
  Warmers = {w1}
  Conns = {k1, k2, k3, k4, k5, k6, k7, k8, k9}
  Min = 1
  Max = 2
  MaxRefusals = 2
  MaxDrains = 1
SPECIFICATION PoolFairSpec
INVARIANTS Exclusive WithinMax
PROPERTY WaitersServed
CHECK_DEADLOCK FALSE
