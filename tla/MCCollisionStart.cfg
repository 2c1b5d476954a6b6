SPECIFICATION Spec
CONSTANTS
  Samples <- SomeSamples
  SpuriousWakeups = FALSE
INVARIANTS
  InitialisedFirst
