CONSTANTS
  k1 = k1
  k2 = k2
  t1 = t1
  t2 = t2
  t3 = t3
  Controller = {k1, k2}
  TimerId = {t1, t2, t3}
  NoTimer = NoTimer
SPECIFICATION Spec
PROPERTIES
  NoSlam
