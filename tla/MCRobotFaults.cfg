SPECIFICATION Spec
ACTION_CONSTRAINTS
  AllOrNothing
CONSTANTS
  CW_angle_limit = 230
  CCW_angle_limit = 70
  MaxFaults = 1
  Counts <- Still
INVARIANTS
  SwitchedOnReady
  NoWriteDropped
  WorldTruthful
PROPERTIES
  StiffHolds
