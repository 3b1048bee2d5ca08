SPECIFICATION ClaimSpec
CONSTANTS
  Instance = {r1, r2}
  Ttl = 3
  Interval = 2
  RetryAfter = 1
  FaultLimit = 3
  Unset = Unset
INVARIANT ClaimsSound
PROPERTY TaskRecurs
