CONSTANTS
  Units = 4
  GroupUnits = 2
  Profiles <- StatusProfiles
  Counts = {0, 2}
  LockData <- MCLockData
  CsdData <- MCCsdData
SPECIFICATION Spec
INVARIANTS ByteFindsItsCommand
CHECK_DEADLOCK FALSE
