CONSTANTS
  s1 = s1
  s2 = s2
  l1 = l1
  l2 = l2
  Session = {s1, s2}
  Login = {l1, l2}
  NoSession = NoSession
SPECIFICATION FairSpec
INVARIANTS
  NoLostWakeup
PROPERTIES
  NewLoginIsFollowed
