CONSTANTS
  a = a
  b = b
  c = c
  d = d
  p1 = p1
  p2 = p2
  None = None
  Tasks = {a, c, d}
  Pollers = {p1, p2}
  DependsOn <- DependsOnDef
  Delayed = {a}
  Voters <- VotersDef
  Scores <- ScoresDef
  CHUNK_SIZE = 2
  BatchSizes = {2}
  MaxPolls = 2
  MaxPuts = 4
  MaxCuts = 1
SPECIFICATION Spec
SYMMETRY PollerSymmetry
INVARIANTS OnlyRunnable HandedOnce NothingOverlooked
CHECK_DEADLOCK FALSE
