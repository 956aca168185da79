CONSTANTS
  t1 = t1
  w1 = w1
  w2 = w2
  r1 = r1
  r2 = r2
  None = None
  Tasks = {t1}
  Workers = {w1, w2}
  Runs = {r1, r2}
  Limit = 1
  Loops = 1
  MaxConcurrent = 1
  Scenarios <- MCScenarios
SPECIFICATION FairSpec
INVARIANTS TypeOK SlotsBalanced NoDoubleRun DeadLetterEarned
PROPERTIES  EveryTaskSettles
CHECK_DEADLOCK FALSE
