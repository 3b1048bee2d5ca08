SPECIFICATION FetchSpec
CONSTANTS
  Id = {m1, m2}
  Slot = {s1, s2}
  Need <- OneSize
  Budget = 1
  None = None
  Handle = {c1, c2}
  Flight = {f1, f2}
  MaxPermits = 1
  Provider = {p1, p2}
  Steady = {p1}
  Copies <- Spread
  m1 = m1
  m2 = m2
  p1 = p1
  p2 = p2
SYMMETRY Symmetry
INVARIANTS FlightsSound HoldingsOwned CallerReadsItsSegment MissesHonest
