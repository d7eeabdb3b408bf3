CONSTANTS
  g1 = g1
  g2 = g2
  t1 = t1
  t2 = t2
  r1 = r1
  r2 = r2
  w1 = w1
  w2 = w2
  c1 = c1
  Guest = {g1, g2}
  Token = {t1, t2}
  Request = {r1, r2}
  Watcher = {w1, w2}
  Camera = {c1}
  TTL = 1
  Retention = 3
  MaxTime = 4
  NoGuest = NoGuest
  NoToken = NoToken
SPECIFICATION StreamSpec
SYMMETRY Symmetry
CONSTRAINT WhoMeets
INVARIANTS
  HeldTokensStand
  StreamsEndAfterRevoke
  WatchersAreOnRecord
PROPERTIES
  RevokeIsFinal
  RefinesGuestBook
