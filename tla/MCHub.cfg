CONSTANTS
  r1 = r1
  r2 = r2
  p1 = p1
  p2 = p2
  s1 = s1
  Reader = {r1, r2}
  Setter = {p1, p2}
  Session = {s1}
  MaxTrouble = 1
  MaxSwitches = 2
SPECIFICATION Spec
INVARIANTS
  OneReaderFeeds
  NoSessionLeak
PROPERTIES
  SwitchesReturn
  StreamStays
CHECK_DEADLOCK FALSE
