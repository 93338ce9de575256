----------------------------- MODULE MCDesktop -----------------------------
(* Small instances of the three programs on the desktop.  A behaviour is   *)
(* of one of them; the others stay as they start, where none of their fair *)
(* actions is enabled.                                                     *)
EXTENDS TauriHost, DebugTransport, PosConsole

VARIABLE program  \* the program that runs

DesktopInit ==
  /\ program \in {"host", "debug", "pos"}
  /\ Init /\ DebugInit /\ PosInit
  /\ program # "pos" => operation = "install"  \* of a call that is not made

Host == program = "host" /\ Next /\ UNCHANGED <<program, debugVars, posVars>>
Debug == program = "debug" /\ DebugNext /\ UNCHANGED <<program, vars, posVars>>
Pos == program = "pos" /\ PosNext /\ UNCHANGED <<program, vars, debugVars>>

DesktopNext == Host \/ Debug \/ Pos
DesktopSpec ==
  DesktopInit /\ [][DesktopNext]_<<program, vars, debugVars, posVars>> /\ Fairness /\ DebugFairness
=============================================================================
