SPECIFICATION Spec
CONSTANTS
  Provider = {p1, p2, b1}
  Backup = {b1}
  Call = {f1}
  MinSamples = 2
  DemotePct = 50
  RecoverPct = 34
  MaxSamples = 3
  None = None
SYMMETRY Symmetric
INVARIANT VerdictsHonest LoopSound
PROPERTY OnlyBodiesRehabilitate
