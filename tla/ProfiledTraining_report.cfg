SPECIFICATION Spec
CONSTANTS
  TrainFreq = 2
  MaxSteps = 2
  MaxEpisodeLen = 2
  MaxEpisodes = 5
  MaxRaises = 2
  MaxNow = 4
INVARIANT FullyAccounted
\* learn() is not called any more after MaxEpisodes episodes.
CHECK_DEADLOCK FALSE
