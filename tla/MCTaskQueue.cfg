CONSTANTS
  t1 = t1
  c1 = c1
  c2 = c2
  None = None
  Tasks = {t1}
  Calls = {c1, c2}
  Limits = {0, 1}
  MaxRetries = 1
  MaxAttempts = 2
  MaxQueueSize = 1
  Ops = {"create", "retry", "cancel", "requeue", "fields", "update", "claim", "recover", "expire", "cleanup"}
  Targets = {"queued", "processing", "completed"}
  MaxCalls = 5
  MaxInTurn = 7
  MaxCrashes = 1
SPECIFICATION Spec
SYMMETRY CallSymmetry
INVARIANTS NothingVanishes ClaimsBacked CommitsWhatItRead CountersHideNothing IndexExact DeadIsGone NoneStranded
CHECK_DEADLOCK FALSE
