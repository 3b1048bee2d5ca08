SPECIFICATION Spec
CONSTANTS
  Id = {m1, m2}
  Slot = {s1, s2, s3, s4}
  Handle = {h1, h2}
  Need <- MCNeed
  Budget = 3
  None = None
SYMMETRY Symmetry
INVARIANTS SlotsSound PinnedBytesIntact BytesAccounted
