CONSTANTS
  c1 = c1
  v1 = v1
  v2 = v2
  r1 = r1
  r2 = r2
  Camera = {c1}
  Viewer = {v1, v2}
  RunId = {r1, r2}
  NoRun = NoRun
  NoCamera = NoCamera
  MaxMuxers = 1
  MaxCallbacks = 1
SPECIFICATION FairSpec
INVARIANTS
  TypeOK
  WatchedIsPulled
  NoLeakedPull
  ReadyMatchesMuxer
PROPERTIES
  RefinesDemandPull
  CloseReturns
  RequestsAnswered
CHECK_DEADLOCK FALSE
