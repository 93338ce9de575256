CONSTANTS
  DramBase <- MCDramBase
  RomStubBase <- MCRomStubBase
  RomStubLimit <- MCRomStubLimit
  ExternalRamBase <- MCExternalRamBase
  TestLimit <- MCTestLimit
  InternalBytes <- MCInternalBytes
  HeapBase <- MCHeapBase
  PsramLimit <- MCPsramLimit
  HeapLimit <- MCHeapLimit
  MaxRecords = 4
  MaxWord <- MCMaxWord
  HeapStarts <- MCHeapStarts
  Amounts <- MCAmounts
  Factors <- MCFactors
  CapsUsed <- MCCapsUsed
SPECIFICATION Spec
INVARIANTS HeapInv Accounted
PROPERTIES Promise
