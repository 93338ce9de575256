------------------------------ MODULE GnssUart ------------------------------
(***************************************************************************)
(* The satellite receiver on UART 2 as operators on a record:              *)
(* lilygo_gnss_uart.c, the receiver, and lilygo_gnss_chardev.c, which      *)
(* holds an identity reply back for a millisecond so that it does not meet *)
(* a block of sentences in the UART's FIFO.  Times are the ticks left.     *)
(* What a sentence says and the trace ring are left out; a poll is cut in  *)
(* two, and the window that looks for it keeps WindowSize pieces.          *)
(***************************************************************************)
EXTENDS Naturals, Sequences, SequencesExt

CONSTANTS
  Second,     \* the period of the sentences
  ProbeDelay, \* how long an identity reply is held back
  WindowSize  \* probe_window

Unset == 99
Sooner(t) == IF t \in {0, Unset} THEN t ELSE t - 1

Fixtures == {"fixed", "no_fix", "silent", "malformed", "stale"}
Poll == <<"head", "tail">>  \* of the receiver's own variant; any other byte is noise
Pieces == {"head", "tail", "noise"}

InitReceiver(g) ==
  [g EXCEPT !.fixture = "fixed", !.powered = FALSE, !.next = 0, !.stale = FALSE, !.window = << >>]

NewReceiver ==
  [fixture |-> "fixed", powered |-> FALSE, next |-> 0, stale |-> FALSE, window |-> << >>,
   pending |-> FALSE, probeTimer |-> Unset, timer |-> Second]

SetPower(g, on) ==
  IF g.powered = on THEN g
  ELSE [g EXCEPT !.powered = on, !.window = << >>, !.next = 0, !.stale = FALSE]

SetFixture(g, f) == [g EXCEPT !.fixture = f, !.next = 0, !.stale = FALSE]

\* Whether advance_time emits, and the receiver after it.
Due(g) == g.powered /\ g.next = 0
Speaks(g) == Due(g) /\ g.fixture # "silent" /\ ~ (g.fixture = "stale" /\ g.stale)
AdvanceTime(g) ==
  IF Due(g) THEN [g EXCEPT !.next = Second, !.stale = @ \/ g.fixture = "stale"] ELSE g

\* gnss_emit for a reply: keep it, and look again in a millisecond.
HoldReply(g) == [g EXCEPT !.pending = TRUE, !.probeTimer = ProbeDelay, !.window = << >>]

TakePiece(g, piece) ==
  LET window == LET full == Append(g.window, piece)
                IN IF Len(full) > WindowSize THEN Tail(full) ELSE full
  IN IF IsSuffix(Poll, window) THEN HoldReply(g) ELSE [g EXCEPT !.window = window]

ReceiveGuestBytes(g, piece) ==
  IF g.powered /\ g.fixture # "silent" THEN TakePiece(g, piece) ELSE g

\* A write lets a sentence that is due follow it, unless a poll is under way.
Free(g) == g.window = << >> /\ ~ g.pending
WriteSpeaks(g, piece) == LET h == ReceiveGuestBytes(g, piece) IN Free(h) /\ Speaks(h)
GuestWrites(g, piece) == LET h == ReceiveGuestBytes(g, piece) IN IF Free(h) THEN AdvanceTime(h) ELSE h

\* Mutant of TimerSpeaks: the reply that is held back is overlooked.
TimerSpeaksAnyway(g) == Speaks(g)
TimerSpeaks(g) == ~ g.pending /\ Speaks(g)
TimerRuns(g) == [(IF g.pending THEN g ELSE AdvanceTime(g)) EXCEPT !.timer = Second]

ProbeTimerRuns(g) == [g EXCEPT !.pending = FALSE, !.probeTimer = Unset]

TickReceiver(g) ==
  [g EXCEPT !.next = Sooner(@), !.probeTimer = Sooner(@), !.timer = Sooner(@)]
=============================================================================
