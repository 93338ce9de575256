CONSTANTS
  Second = 3
  ProbeDelay = 1
  WindowSize = 2
  ReadyDelay = 2
  Writes <- MCWrites
  SetFixtures <- MCSetFixtures
  Activities <- MCActivities
  Sent <- MCSent
  RadioFaults <- MCRadioFaults
  Delays <- MCDelays
  TxTime = 2
  RxTime = 3
SPECIFICATION Spec
INVARIANTS InputsTold PowerGoodEarned OneOwner HonestTrace
PROPERTY SentencesPaced
