SPECIFICATION Spec
CONSTANTS
  Call = {c1, c2, c3}
  Backend = {"memory", "redis", "sql", "file"}
  Ttl = 3
  Keep = 1
  Timeout = 2
  MaxFaults = 1
  None = None
INVARIANT LockSound NoStrandedWaiter AnswersFresh
PROPERTY EveryCallReturns
CHECK_DEADLOCK FALSE
