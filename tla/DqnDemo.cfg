SPECIFICATION DemoSpec
CONSTANTS
  Capacity = 4
  OptimizeMemory = FALSE
  TrainFreq = 2
  LearningStarts = 3
  MaxTimesteps = 12
  MaxAdd = 13
INVARIANTS SameOdds RingReport DemoIInv
PROPERTY DemoEnds
\* The demo ends.
CHECK_DEADLOCK FALSE
