CONSTANTS
  k1 = k1
  c1 = c1
  c2 = c2
  f1 = f1
  f2 = f2
  None = None
  Controller = {k1}
  Socket = {c1, c2}
  Forwarder = {f1, f2}
SPECIFICATION Spec
PROPERTIES
  ReconfigureRebuilds
