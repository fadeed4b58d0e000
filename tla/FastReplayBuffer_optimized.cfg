SPECIFICATION Spec
CONSTANTS
  Capacity = 3
  OptimizeMemory = TRUE
  MaxAdd = 9
INVARIANT SamplesAreWhole
