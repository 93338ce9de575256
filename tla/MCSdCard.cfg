CONSTANTS
  Units = 4
  GroupUnits = 2
  Profiles <- MCProfiles
  Counts = {0, 2}
  LockData <- MCLockData
  CsdData <- MCCsdData
SPECIFICATION Spec
INVARIANTS SeedKept Counted TimerFindsNoPower
PROPERTIES ReadOnlyKept
CHECK_DEADLOCK FALSE
