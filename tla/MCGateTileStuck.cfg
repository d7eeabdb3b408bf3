CONSTANTS
  k1 = k1
  Controller = {k1}
SPECIFICATION TileFairSpec
PROPERTIES
  TelemetryCorrectsTile
