SPECIFICATION Spec
CONSTANTS
  Replica = {r1, r2}
  Item = {m}
  Kind = {"start", "stop", "played"}
  Position = {0}
  RowsPerSink = 2
  MaxAttempts = 2
  MaxFailures = 2
  Budget = 1
  Request = 1
  RowWait = 1
  SinkWait = 1
  Probe = 2
  Remembered = 1
  MaxEvents = 2
  MaxFaults = 1
  MaxUnlinks = 1
  None = None
INVARIANT OutboxSound
PROPERTY OrderKept FinalWord EveryEventSettles
