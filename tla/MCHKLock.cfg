CONSTANTS
  k1 = k1
  k2 = k2
  t1 = t1
  t2 = t2
  t3 = t3
  k3 = k3
  t4 = t4
  Controller = {k1, k2, k3}
  TimerId = {t1, t2, t3, t4}
  NoTimer = NoTimer
SPECIFICATION FairSpec
INVARIANTS
  OneLiveTimer
  UnsecuredIsOwned
PROPERTIES
  RelocksWhenQuiet
