SPECIFICATION Spec
CONSTANTS
  User = {u1}
  Unidentified = {}
  Target = {a, b}
  Proxied = {b}
  a = a
  MaxSessions = 2
  MaxReads = 1
  MaxBytes = 2
  MaxFaults = 1
  MaxStops = 1
  Limit = 1
  Cap = 2
CONSTRAINT FirstServes
INVARIANT SessionsSound BytesCounted LimitHeld
PROPERTY StopsHonoured CapTrips
CHECK_DEADLOCK FALSE
