SPECIFICATION Spec
CONSTANTS
  CW_angle_limit = 240
  CCW_angle_limit = 350
  Samples <- SomeSamples
  Angles = {0, 100}
  Statuses = {0, 16, 20}
  Flips = {512}
  Currents = {0, 4095}
  NB_SAMPLES = 2
INVARIANTS
  OffsetFlagged
