------------------------------ MODULE EpdPanel ------------------------------
(***************************************************************************)
(* The two e-paper controllers of the boards as operators on a record:     *)
(* the SSD1677 (ssd1677_gdeq0426t82.c) and the UC8253C (uc8253c.c).  A     *)
(* byte on the SPI bus is a command while D/C is low and data while it is  *)
(* high; a command with arguments is applied when the last one has come.   *)
(* A byte of panel memory is a cell, an argument of two bytes one value.   *)
(* Left out, because nothing reads them: the second ("red") memory of the  *)
(* SSD1677, the budget of the LUT bytes, deep_sleep and the resolution.    *)
(***************************************************************************)
EXTENDS Integers, Sequences, FiniteSets, SequencesExt

CONSTANTS Rows, Cols  \* EPD_HEIGHT and EPD_ROW_STRIDE_BYTES

ASSUME PanelAssumption == Rows \in Nat \ {0} /\ Cols \in Nat \ {0}

Cells == (0 .. Rows - 1) \X (0 .. Cols - 1)
Blank == [c \in Cells |-> "white"]
Kinds == {"ssd1677", "uc8253c"}
DelayClasses == {"none", "short", "refresh"}  \* 10 ms, and a refresh of 50 to 500 ms

\* Data entry mode, command 0x11: AM, ID0 and ID1.
EntryModes == [yFirst : BOOLEAN, yUp : BOOLEAN, xUp : BOOLEAN]
ResetEntry == [yFirst |-> TRUE, yUp |-> TRUE, xUp |-> TRUE]
FirmwareEntry == [ResetEntry EXCEPT !.yUp = FALSE]  \* 0x01, what the display driver sends

ResetState(p) ==
  [p EXCEPT !.mode = "idle", !.cmd = "none", !.args = << >>, !.x = 0, !.y = 0, !.xs = 0, !.xe = Cols - 1,
            !.ys = 0, !.ye = Rows - 1, !.entry = ResetEntry, !.index = 0, !.busy = FALSE]

NewPanel(kind) ==
  ResetState([kind |-> kind, dc |-> FALSE, held |-> FALSE, timer |-> "none", fb |-> Blank, mode |-> "idle",
              cmd |-> "none", args |-> << >>, x |-> 0, y |-> 0, xs |-> 0, xe |-> 0, ys |-> 0, ye |-> 0,
              entry |-> ResetEntry, index |-> 0, busy |-> FALSE])

\* BUSY is raised, and one timer, set anew each time, takes it back.
BusyFor(p, delay) == [p EXCEPT !.busy = TRUE, !.timer = delay]
BusyEnds(p) == [p EXCEPT !.busy = FALSE, !.timer = "none"]

\* The RES# pin: the rising edge resets everything but the timer.
HardReset(p, low) ==
  IF p.held /\ ~ low THEN [ResetState(p) EXCEPT !.held = FALSE, !.fb = Blank] ELSE [p EXCEPT !.held = low]

----------------------------------------------------------------------------
(* The write pointer of the SSD1677.  The window runs from the end of Y up *)
(* to its start, because that is how the display driver sets it.           *)

OutOfX(p, x) == x < p.xs \/ x > p.xe
OutOfY(p, y) == y < p.ye \/ y > p.ys
NextX(p) == IF p.entry.xUp THEN p.x + 1 ELSE p.x - 1
NextY(p) == IF p.entry.yUp THEN p.y + 1 ELSE p.y - 1

StepX(p) == [p EXCEPT !.x = IF OutOfX(p, NextX(p)) THEN p.xs ELSE NextX(p)]
StepY(p) == [p EXCEPT !.y = IF OutOfY(p, NextY(p)) THEN p.ys ELSE NextY(p)]

AdvancePointer(p) ==
  IF p.entry.yFirst
  THEN IF OutOfY(p, NextY(p)) THEN [StepX(p) EXCEPT !.y = p.ys] ELSE StepY(p)
  ELSE IF OutOfX(p, NextX(p)) THEN [StepY(p) EXCEPT !.x = p.xs] ELSE StepX(p)

Ink(p, cell, value) == IF cell \in Cells THEN [p EXCEPT !.fb[cell] = value] ELSE p

\* The UC8253C keeps a running index that goes down the gates of the source
\* lines; its memory is turned, so the index runs along the columns first.
CellOfIndex(i) == <<i % Rows, i \div Rows>>

WriteRam(p, value) ==
  IF p.kind = "ssd1677"
  THEN AdvancePointer(IF p.cmd = "ram" THEN Ink(p, <<p.y, p.x>>, value) ELSE p)
  ELSE [(IF p.cmd = "ram" THEN Ink(p, CellOfIndex(p.index), value) ELSE p) EXCEPT !.index = @ + 1]

----------------------------------------------------------------------------
(* Commands.  One of them reaches beyond the panel: the UC8253C takes the  *)
(* frame out of the guest's memory when it refreshes (Samples).            *)

Coordinates == {"x_window", "y_window", "x_counter", "y_counter"}
ArgumentsOf(kind, cmd) ==
  IF kind = "ssd1677"
  THEN CASE cmd \in {"x_window", "y_window"} -> 2
         [] cmd \in {"entry", "x_counter", "y_counter", "fill", "setting"} -> 1
         [] OTHER -> 0
  ELSE CASE cmd \in {"auto", "setting"} -> 1 [] OTHER -> 0

WithoutArguments(p, cmd) ==
  CASE p.kind = "ssd1677" /\ cmd = "sw_reset" -> BusyFor(ResetState([p EXCEPT !.fb = Blank]), "short")
    [] cmd = "refresh" -> BusyFor(p, "refresh")
    [] p.kind = "uc8253c" /\ cmd = "power_on" -> BusyFor(p, "short")
    [] OTHER -> p

ApplyArguments(p) ==
  CASE p.cmd = "entry" -> [p EXCEPT !.entry = p.args[1]]
    [] p.cmd = "x_window" -> [p EXCEPT !.xs = p.args[1], !.xe = p.args[2]]
    [] p.cmd = "y_window" -> [p EXCEPT !.ys = p.args[1], !.ye = p.args[2]]
    [] p.cmd = "x_counter" -> [p EXCEPT !.x = p.args[1]]
    [] p.cmd = "y_counter" -> [p EXCEPT !.y = p.args[1]]
    [] p.cmd = "fill" -> [p EXCEPT !.fb = [c \in Cells |-> p.args[1]]]
    [] p.cmd = "auto" /\ p.args[1] = "auto" -> BusyFor(p, "refresh")
    [] OTHER -> p

Command(p, cmd) ==
  LET q == [p EXCEPT !.cmd = cmd, !.args = << >>]
  IN CASE cmd \in {"ram", "ram_other"} -> [q EXCEPT !.mode = "ram", !.index = 0]
       [] cmd = "lut" -> [q EXCEPT !.mode = "lut"]
       [] ArgumentsOf(p.kind, cmd) > 0 -> [q EXCEPT !.mode = "args"]
       [] OTHER -> WithoutArguments([q EXCEPT !.mode = "idle"], cmd)

Data(p, value) ==
  CASE p.mode = "args" ->
         LET q == [p EXCEPT !.args = Append(@, value)]
         IN IF Len(q.args) >= ArgumentsOf(p.kind, p.cmd) THEN [ApplyArguments(q) EXCEPT !.mode = "idle"] ELSE q
    [] p.mode = "ram" -> WriteRam(p, value)
    [] OTHER -> p  \* a LUT byte, or a stray one

\* ssd1677_spi_bytes, uc8253c_spi_bytes: nothing is heard while RES# is low.
Transfer(p, value) ==
  CASE p.held -> p
    [] ~ p.held /\ ~ p.dc -> Command(p, value)
    [] OTHER -> Data(p, value)

\* trigger_refresh: this command makes the panel take the guest's frame first.
Samples(p, cmd, data) ==
  /\ p.kind = "uc8253c" /\ ~ p.held
  /\ cmd = "refresh" \/ (cmd = "auto" /\ data # << >> /\ data[1] = "auto")

\* The driver's order: D/C low, the command, D/C high, its data.
Transaction(p, cmd, data) ==
  FoldLeft(Transfer, [Transfer([p EXCEPT !.dc = FALSE], cmd) EXCEPT !.dc = TRUE], data)

----------------------------------------------------------------------------
(* Frames.  The SSD1677 keeps the guest's rows upside down and turns them  *)
(* again when it pushes; the UC8253C keeps and pushes them as they are.    *)

Flip(f) == [c \in Cells |-> f[<<Rows - 1 - c[1], c[2]>>]]
Turned(kind, f) == IF kind = "ssd1677" THEN Flip(f) ELSE f
Sampled(p, frame) == [p EXCEPT !.fb = Turned(p.kind, frame)]
Pushed(p) == Turned(p.kind, p.fb)

\* The cells a whole window of bytes reaches from the pointer's start.
Window(p) == (p.ye .. p.ys) \X (p.xs .. p.xe)
DriverSetsWindow(p) ==
  /\ p.kind = "ssd1677" /\ p.entry = FirmwareEntry
  /\ p.ye <= p.ys /\ p.xs <= p.xe /\ p.y = p.ys /\ p.x = p.xs
WindowCells(p) == (p.ys - p.ye + 1) * (p.xe - p.xs + 1)
Walk(p) ==
  LET at[n \in 1 .. WindowCells(p)] == IF n = 1 THEN p ELSE AdvancePointer(at[n - 1])
  IN {<<at[n].y, at[n].x>> : n \in DOMAIN at}

TypeOfPanel(p) ==
  /\ p.kind \in Kinds /\ p.mode \in {"idle", "args", "ram", "lut"} /\ p.entry \in EntryModes
  /\ p.fb \in [Cells -> {"white", "ink"}] /\ p.timer \in DelayClasses
  /\ {p.dc, p.held, p.busy} \subseteq BOOLEAN
=============================================================================
