SPECIFICATION StressSpec
CONSTANTS
  Capacity = 4
  Value = {0, 1, 2, 3, 4, 5, 6, 7, 8, 9, 10, 11}
  Zero = 0
  NoValue = NoValue
  MaxPush = 12
PROPERTIES StressTestPasses
\* Both loops end after MaxPush values.
CHECK_DEADLOCK FALSE
