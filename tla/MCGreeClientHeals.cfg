CONSTANTS
  poll = poll
  user = user
  k1 = k1
  k2 = k2
  a1 = a1
  a2 = a2
  Caller = {poll, user}
  Poller = poll
  Key = {k1, k2}
  Addr = {a1, a2}
  Host = a1
  NoKey = NoKey
  NoAddr = NoAddr
  Broadcast = Broadcast
  Nobody = Nobody
  MaxLosses = 1
  MaxDelays = 1
  MaxChanges = 1
  MaxSets = 1
SPECIFICATION Spec
PROPERTIES
  HealsByItself
