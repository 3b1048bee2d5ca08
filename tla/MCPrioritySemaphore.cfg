SPECIFICATION Spec
CONSTANTS
  Client = {c1, c2, c3, c4, c5}
  MaxPermits = 2
  LowOdds = 40
  ThrottleTo <- MCThrottleTo
SYMMETRY Symmetry
INVARIANTS PermitsSound NoLostWakeup BypassBound
PROPERTIES ServesClassesInOrder
