SPECIFICATION Spec
CONSTANTS
  Req = {r1, r2, r3}
  MaxConns = 2
  Depth = 2
  LowOdds = 50
  Threshold = 2
SYMMETRY Symmetry
VIEW View
CHECK_DEADLOCK FALSE
INVARIANTS RequestsSound ConnsWithinCeiling NoStrandedWork
PROPERTIES LoneProbe
