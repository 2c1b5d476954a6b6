SPECIFICATION FairSpec
CONSTANTS
  CW_angle_limit = 230
  CCW_angle_limit = 70
  MaxFaults = 0
  Counts <- Hand
INVARIANTS
  SwitchedOnReady
  NoWriteDropped
  WorldTruthful
PROPERTIES
  StiffHolds
  CollisionStiffens
