CONSTANTS
  w1 = w1
  w2 = w2
  t1 = t1
  t2 = t2
  c1 = c1
  c2 = c2
  None = None
  Workers = {w1, w2}
  Tasks = {t1, t2}
  Calls = {c1, c2}
  Timeout = 0
  MaxTime = 1
  MaxCalls = 4
  MaxCuts = 1
SPECIFICATION Spec
SYMMETRY PoolSymmetry
INVARIANTS TypeOK LoadIsExact Findable
CHECK_DEADLOCK FALSE
