SPECIFICATION EnabledSpec
CONSTANTS
  CW_angle_limit = 190
  CCW_angle_limit = 350
  Starts = {0, 120, 200}
  Steps = {2}
  MaxStep = 2
  MaxAge = 2
  References = {185}
  Gains <- SomeGains
  Disturbances = 3
INVARIANTS
  TypeOK
  JointStaysInArc
PROPERTIES
  SpeedTruthful
  ComesToReference
