CONSTANTS
  s1 = s1
  s2 = s2
  b1 = b1
  None = None
  Stream = {s1, s2}
  Sub = {b1}
  Debounce = 2
  FetchLimit = 1
  HistoryCap = 2
  QueueCap = 1
  MaxRing = 3
  MaxTime = 3
SPECIFICATION Spec
INVARIANTS
  NewestFirst
CHECK_DEADLOCK FALSE
