SPECIFICATION Spec
CONSTANTS
  Capacity = 2
  Value = {0, 1}
  Zero = 0
  SizeT = 8
INVARIANTS TypeOK RingHoldsLive BatchKeepsTaken SampledIndexLasts IInv
