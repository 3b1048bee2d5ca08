SPECIFICATION RelentingSpec
CONSTANTS
  Req = {r1}
  MaxConns = 1
  Depth = 1
  LowOdds = 40
  Threshold = 2
CHECK_DEADLOCK FALSE
PROPERTIES EveryRequestSettles
