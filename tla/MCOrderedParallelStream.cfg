SPECIFICATION StreamSpec
CONSTANTS
  Task <- Tasks4
  Slot = {s1, s2, s3, s4}
  s1 = s1
  s2 = s2
  s3 = s3
  s4 = s4
  SizeOf <- TwoSizes
  Need <- TwoNeeds
  SlotCap = 2
  BankCap = 2
  Layers = 1
  Nothing = Nothing
  Length <- Lengths
  MaxLength = 2
  InitialSlot = 2
  TaskBytes = 1
  MaxConcurrency = 2
  MaxBufferedBytes = 2
  FloorTasks = 3
  HighWater = 2
  SkipBytes = 1
  Limits = {4, 9}
  KnownHoles = {0}
CHECK_DEADLOCK FALSE
INVARIANTS ChunksIntact PoolAccounted RangeSound
PROPERTIES NoLateWrite StreamFinishes
