SPECIFICATION FailingSpec
CONSTANTS
  Capacity = 3
  OptimizeMemory = FALSE
  MaxAdd = 9
  MaxFailures = 3
INVARIANTS PushIsNeverRefused TornOnlyWhereItFailed MirrorsAfterLap FailingIInv
\* The bound on add() is reached.
CHECK_DEADLOCK FALSE
