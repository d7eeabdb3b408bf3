CONSTANTS
  Second = 5
  Grants = {10, 30, 60}
  MaxTrouble = 2
  MaxPresses = 2
SPECIFICATION StationSpec
INVARIANTS
  KeepsRegistered
PROPERTIES
  ListensAgain
  PressesAreHeard
CHECK_DEADLOCK FALSE
