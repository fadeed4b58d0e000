SPECIFICATION Spec
CONSTANTS
  Capacity = 2
  Thread = {t1, t2, t3}
  Value = {0, 1}
  Zero = 0
  NoValue = NoValue
  Nobody = Nobody
  MaxCalls = 2
INVARIANT IInv
PROPERTIES ImplementsFifo CallsReturn
\* Every thread makes MaxCalls calls and stops.
CHECK_DEADLOCK FALSE
