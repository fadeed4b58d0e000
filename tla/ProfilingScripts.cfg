SPECIFICATION ScriptsSpec
CONSTANTS
  TrainFreq = 2
  MaxSteps = 2
  MaxEpisodeLen = 2
  MaxEpisodes = 5
  MaxRaises = 2
  MaxNow = 4
  NumTrials = 2
  MaxTime = 1
INVARIANTS
  StoredIsEnvStep SamplingTimedOnce WrapperReportIsWallTime IInv
  AveragesAddUp DiffsExplainTotal AbIInv
\* learn() is not called any more after MaxEpisodes episodes, and the
\* comparison ends after its last trial.
CHECK_DEADLOCK FALSE
