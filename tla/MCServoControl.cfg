SPECIFICATION ConfiguredSpec
CONSTANTS
  CW_angle_limit = 230
  CCW_angle_limit = 70
  Frames <- ControlFrames
  Angles = {150}
  Torques = {0}
  Channels = {0}
  MagErrors = {TRUE}
  Overheats = {FALSE, TRUE}
  Paced = FALSE
INVARIANTS
  TypeOK
  HotMotorCut
  NoOverflow
