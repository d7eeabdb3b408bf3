CONSTANTS
  g1 = g1
  g2 = g2
  t1 = t1
  t2 = t2
  t3 = t3
  r1 = r1
  r2 = r2
  Guest = {g1, g2}
  Token = {t1, t2, t3}
  Request = {r1, r2}
  NoGuest = NoGuest
  NoToken = NoToken
SPECIFICATION Spec
SYMMETRY Symmetry
INVARIANTS
  HeldTokensStand
PROPERTIES
  RevokeIsFinal
  RefinesGuestBook
