CONSTANTS
  Devices <- MCDevices
  RegisterCount = 2
  TraceMax = 2
  FifoLength = 3
  Programs <- MCPrograms
  Transfers <- MCTransfers
  Set = {1, 2}
  Fail <- MCFail
  MaxStates = 2
SPECIFICATION Spec
INVARIANTS BusAgrees TracedOnce GaugeWordWhole
PROPERTIES Ended

