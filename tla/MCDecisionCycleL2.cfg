\* Orders placed on an L2 verdict alone.
CONSTANTS
  Clicks = {phone}
  MaxFaults = 0
SPECIFICATION Spec
INVARIANT L2OrdersConfirmed
CHECK_DEADLOCK FALSE
