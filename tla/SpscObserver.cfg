SPECIFICATION ObserverSpec
CONSTANTS
  Capacity = 3
  Value = {0}
  Zero = 0
  NoValue = NoValue
  MaxPush = 4
INVARIANT SizeIsOnlyStale
