CONSTANTS
  t1 = t1
  p1 = p1
  p2 = p2
  l1 = l1
  l2 = l2
  None = None
  Tasks = {t1}
  Processes = {p1, p2}
  Loops = {l1, l2}
  TTL = 2
  MaxDelay = 1
  MaxTroubles = 2
SPECIFICATION FairSpec
INVARIANT OneActs
PROPERTIES ImplementsLease NoEntryLost DueHandled
