------------------------------ MODULE MCSdCard ------------------------------
(* SdCard with an image of two blocks and hosts that differ in the         *)
(* commands they use.  Arguments of a command not listed are 0.            *)
EXTENDS SdCard, TLC

Profile(spi, large, acmds, controls, commands, args) ==
  [spi |-> spi, large |-> large, lilygo |-> controls # {}, acmds |-> acmds,
   controls |-> controls, commands |-> commands, args |-> args]


(* The SDMMC controller's cards: identification and power-up; transfers of *)
(* several blocks.                                                         *)
Identified ==
  Profile(FALSE, TRUE, {6, 13, 18, 23, 41, 42, 51, 55}, {}, {0, 2, 3, 7, 8, 9, 13, 15, 55},
          [c \in {7, 9, 13, 15, 41, 55} |-> {0, 1}])
Streamed ==
  Profile(FALSE, TRUE, {41, 22}, {}, {0, 2, 3, 7, 12, 13, 17, 18, 19, 23, 25, 55, 6},
          [c \in {18, 25} |-> 0..2] @@ [c \in {23} |-> Counts])

(* The SPI adapter's cards: LilyGo's with its host; locks and protection.  *)
Hosted ==
  Profile(TRUE, FALSE, {}, {"present", "policy", "reset", "readOnce", "writeOnce"}, {0, 1, 12, 16, 17, 24, 25},
          [c \in {17, 24, 25} |-> {0, 1, 2}] @@ [c \in {16} |-> {1, 2}])
HostedErases ==
  Profile(TRUE, TRUE, {}, {"present", "writable", "reset", "read", "write"}, {1, 12, 25, 18, 32, 33, 38},
          [c \in {18, 25, 32, 33} |-> {0, 1, 2}])
Locked ==
  Profile(TRUE, FALSE, {13, 41, 42}, {}, {0, 1, 9, 12, 13, 16, 17, 24, 42, 55, 56, 58},
          [c \in {16} |-> {0, 2, 3}] @@ [c \in {56} |-> {0, 1}])
Protected ==
  Profile(TRUE, FALSE, {}, {}, {1, 12, 24, 25, 27, 28, 29, 30, 32, 33, 38},
          [c \in {24, 25, 28, 29, 32, 33} |-> {0, 2}])
MCProfiles == {Identified, Streamed, Hosted, HostedErases, Locked, Protected}

(* A card in SPI mode whose host asks for its status and writes a block.   *)
StatusProfiles == {Profile(TRUE, FALSE, {}, {}, {1, 13, 24}, [c \in {24} |-> {0}])}

Lock(erase, lock, clear, set, len, known) ==
  [erase |-> erase, lock |-> lock, clear |-> clear, set |-> set, len |-> len, known |-> known]
MCLockData ==
  {Lock(TRUE, FALSE, FALSE, FALSE, 0, FALSE), Lock(FALSE, TRUE, FALSE, TRUE, 1, TRUE),
   Lock(FALSE, FALSE, FALSE, TRUE, 2, TRUE), Lock(FALSE, FALSE, FALSE, TRUE, 2, FALSE),
   Lock(FALSE, FALSE, TRUE, FALSE, 1, TRUE)}
MCCsdData == {{}, {"temporary"}, {"copy", "permanent"}}
=============================================================================
