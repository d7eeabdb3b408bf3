CONSTANTS
  k1 = k1
  k2 = k2
  Controller = {k1, k2}
SPECIFICATION TileFairSpec
INVARIANTS
  TileIsToldOrGuessed
PROPERTIES
  StatusFollowsGate
