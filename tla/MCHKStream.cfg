CONSTANTS
  k1 = k1
  k2 = k2
  c1 = c1
  c2 = c2
  c3 = c3
  c4 = c4
  f1 = f1
  f2 = f2
  None = None
  Controller = {k1, k2}
  Socket = {c1, c2, c3, c4}
  Forwarder = {f1, f2}
SPECIFICATION FairSpec
INVARIANTS
  OneReader
  NoSocketLeak
PROPERTIES
  ClosedStreamsEnd
