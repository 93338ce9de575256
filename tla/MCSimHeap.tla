----------------------------- MODULE MCSimHeap -----------------------------
(* SimHeap with the layout of mofei-sim-addrs.h scaled down to a few       *)
(* blocks of 64 bytes for each pool, so that pools and table fill up.      *)
EXTENDS SimHeap

MCHeapBase == 1 * Alignment
MCPsramLimit == 4 * Alignment
MCHeapLimit == 5 * Alignment
MCDramBase == 6 * Alignment
MCRomStubBase == 11 * Alignment
MCRomStubLimit == 12 * Alignment
MCExternalRamBase == 14 * Alignment
MCTestLimit == 16 * Alignment
MCInternalBytes == 4 * Alignment
MCMaxWord == 16 * Alignment - 1

(* One start that leaves 2 blocks before the ROM stub and 2 behind it, one *)
(* that is aligned up into the stub.                                       *)
MCHeapStarts == {9 * Alignment - 1, 11 * Alignment - 1}
MCAmounts == {0, Alignment + 1}
MCFactors == {Alignment - 1}
MCCapsUsed ==
  {{"internal", "dma"}, {"spiram", "8bit"}, {"spiram", "dma"}}
============================================================================
