SPECIFICATION ConcurrentSpec
CONSTANTS
  Capacity = 3
  OptimizeMemory = FALSE
  MaxAdd = 5
INVARIANT LearnerSeesWholeTransitions
