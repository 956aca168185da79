CONSTANTS
  a = a
  b = b
  c = c
  d = d
  p1 = p1
  None = None
  Tasks = {a, b, c, d}
  Pollers = {p1}
  DependsOn <- DependsOnDef
  Delayed = {a}
  Voters <- VotersDef
  Scores <- ScoresDef
  CHUNK_SIZE = 2
  BatchSizes = {3}
  MaxPolls = 2
  MaxPuts = 4
  MaxCuts = 0
SPECIFICATION Spec
INVARIANT BatchInPriorityOrder
CHECK_DEADLOCK FALSE
