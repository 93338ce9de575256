------------------------------ MODULE T5Board ------------------------------
(***************************************************************************)
(* The T5 board whole: the devices on the I2C bus and the receiver         *)
(* (LilygoBoard) with the SPI bus the card and the radio share             *)
(* (SharedSpi).  They meet in three places: the expander's rail pin feeds  *)
(* the receiver and the radio (the power sinks of lilygo_pca9535), the     *)
(* reset of the machine resets the devices of both buses, and one virtual  *)
(* clock runs all timers.                                                  *)
(***************************************************************************)
EXTENDS Naturals

CONSTANTS
  Second, ProbeDelay, WindowSize, ReadyDelay, Writes, SetFixtures, Activities,
  Sent, RadioFaults, Delays, TxTime, RxTime

VARIABLES
  activity, gt911, pca, tps, gnss, uart, host, told, pressOwed, held, quiet, said,
  high, active, armed, error, low, radio, owed, flawed, honest

Board == INSTANCE LilygoBoard
Spi == INSTANCE SharedSpi

ASSUME BoardAssumption ==
  /\ {Second, ProbeDelay, ReadyDelay, TxTime, RxTime} \subseteq Nat \ {0}
  /\ WindowSize \in Nat /\ WindowSize > 1
  /\ Activities \subseteq SUBSET {"input", "supply", "receiver", "radio"}
  /\ SetFixtures \subseteq Board!Fixtures
  /\ Sent \subseteq Spi!Commands
  /\ RadioFaults \subseteq Spi!Faults
  /\ Delays \cup {TxTime, RxTime} \subseteq 1 .. Spi!None - 1  \* None is no time

(* The firmware keeps the function key's pin an input that is not inverted. *)
ASSUME WritesAssumption ==
  \A w \in Writes :
    /\ w.register \in {"output", "config", "polarity"} /\ w.high \cup w.port \subseteq Board!Pins
    /\ w.register = "config" /\ "function" \in w.port => "function" \in w.high
    /\ w.register = "polarity" => "function" \notin w.high

boardVars == <<activity, gt911, pca, tps, gnss, uart, host, told, pressOwed, held, quiet, said>>
spiVars == <<high, active, armed, error, low, radio, owed, flawed, honest>>
vars == <<boardVars, spiVars>>

Init == Board!Init /\ Spi!Init

(* A write to the expander: when the rail changes, the radio's sink is     *)
(* called, then the receiver's.                                            *)
WriteExpander(w) ==
  LET rail(p) == Board!OutputHigh(p, "rail")
  IN /\ Board!WriteExpander(w)
     /\ IF rail(pca) = rail(pca') THEN UNCHANGED spiVars ELSE Spi!Rail(rail(pca'))

(* The reset of the machine: neither sink is called.                       *)
Restart == Board!Restart /\ Spi!Reset

(* Bound: where the radio is in use the other devices' clocks stand still, *)
(* and the radio's where it is not: no timer of one is read by the other.  *)
Tick ==
  IF "radio" \in activity
  THEN Spi!Time /\ UNCHANGED boardVars
  ELSE Board!Tick /\ UNCHANGED spiVars

DeviceStep == Board!DeviceStep /\ UNCHANGED spiVars
BusStep == "radio" \in activity /\ Spi!BusStep /\ UNCHANGED boardVars

Next ==
  \/ DeviceStep
  \/ BusStep
  \/ \E w \in Writes : WriteExpander(w)
  \/ Restart
  \/ Tick

Spec == Init /\ [][Next]_vars

----------------------------------------------------------------------------
(* The firmware is told of every touch and press (LilygoBoard).            *)
InputsTold == Board!InputsTold

(* The supply reports good power only when it has earned it (LilygoBoard). *)
PowerGoodEarned == Board!PowerGoodEarned

(* The receiver's sentences keep their distance, whoever switched the rail *)
(* and when (LilygoBoard).                                                 *)
SentencesPaced == Board!SentencesPaced

(* The SPI bus has one owner and a transaction one trace, across rail      *)
(* changes, host requests and restarts (SharedSpi); and no time out of the *)
(* radio is lost.                                                          *)
OneOwner == Spi!OneOwner /\ Spi!RadioTimers

(* A trace reports success if and only if all went well (SharedSpi).       *)
HonestTrace == Spi!HonestTrace
=============================================================================
