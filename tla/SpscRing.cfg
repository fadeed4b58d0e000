SPECIFICATION Spec
CONSTANTS
  Capacity = 2
  Value = {0, 1}
  Zero = 0
  NoValue = NoValue
  MaxPush = 5
INVARIANTS TypeOK NoDataRace DeliveredInOrder SampleIsLive SizeBrackets SeenStaysTrue IInv
PROPERTY ImplementsFifo
