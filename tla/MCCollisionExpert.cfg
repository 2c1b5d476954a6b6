SPECIFICATION FairSpec
CONSTANTS
  Samples <- SomeSamples
  SpuriousWakeups = TRUE
INVARIANTS
  NoFalseCollision

  
