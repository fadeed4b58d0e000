SPECIFICATION Spec
CONSTANTS
  Capacity = 3
  OptimizeMemory = FALSE
  MaxAdd = 13
INVARIANTS TypeOK PushIsNeverRefused RingMirrorsStorage SamplesAreNewest IInv
PROPERTY ImplementsReplayMemory
\* The bound on add() is reached.
CHECK_DEADLOCK FALSE
