\* Three convolutions in any order; every copy and the array may be too slow.
SPECIFICATION MCSpec
CONSTANTS
  Layers <- SomeLayers
  MaxCalls = 3
  Faults = {"array", "dma"}
  MaxInputBytes = 32
  MaxWeightBytes = 16
  MaxBiasBytes = 4
  MaxOutputBytes = 16
\* The calls are bounded.
CHECK_DEADLOCK FALSE
INVARIANTS RightUntilAbandoned CopiesFit
PROPERTY CallsReturn
