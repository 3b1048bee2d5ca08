SPECIFICATION CacheSpec
CONSTANTS
  Key = {k1, k2}
  Body <- MCBody
  Overhead = 0
  Budgets = {1, 2}
  MaxWrites = 2
  MaxBytes = 3
  RmBound = 1
  Pieces = 3
  MaxDrift = 2
  Writer = {w1, w2}
  Reader = {r1}
  None = None
  MaxBusy = 2
CONSTRAINT BoundedWork
SYMMETRY Symmetric
INVARIANT HitsWhole WritesSound
CHECK_DEADLOCK FALSE
