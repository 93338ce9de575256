----------------------------- MODULE LilygoBoard -----------------------------
(***************************************************************************)
(* The T5 board around the processor: the GT911 touch controller, the      *)
(* PCA9535 expander, whose pins switch the rails and carry the function    *)
(* key, the TPS65185 supply that watches those pins                        *)
(* (lilygo_display_input.c), and the satellite receiver on the expander's  *)
(* rail (GnssUart).  The firmware reads and writes registers over I2C,     *)
(* the host injects touches, keys and control requests, and time passes;   *)
(* any of them may act between two others.                                 *)
(*                                                                         *)
(* Left out: the register pointers (the firmware may address any register  *)
(* at any time), the NACK faults and the transaction (see I2cDevices),     *)
(* coordinates, the VCOM registers, the frontlight, logging.  The five     *)
(* pins of the supply's control sequence are one pin.                      *)
(***************************************************************************)
EXTENDS GnssUart, FiniteSets

CONSTANTS
  ReadyDelay,    \* LILYGO_TPS65185_READY_DELAY_NS
  Writes,        \* the register writes of the firmware to the expander
  SetFixtures,   \* the fixtures the host asks for
  Activities     \* bound: the sets of activities a behaviour may mix

VARIABLES
  activity, \* bound: the activities of this behaviour
  gt911,    \* LilygoGt911Model and the level of its INT line
  pca,      \* LilygoPca9535Model
  tps,      \* LilygoTps65185Model
  gnss,     \* the receiver
  uart,     \* what this step wrote to the UART: "none", "sentence", "identity"
  \* what the host did and the firmware has seen
  host,     \* the finger and the key; whether INT was level triggered all along
  told,     \* the finger as the firmware last read it, and whether it owes an acknowledgement
  pressOwed,\* the key was pressed and the firmware has not read it so
  held,     \* ticks the supply has had all it needs, at most ReadyDelay
  quiet,    \* ticks since a sentence, at most Second, since power or fixture changed
  said      \* a sentence since then

vars == <<activity, gt911, pca, tps, gnss, uart, host, told, pressOwed, held, quiet, said>>
ghosts == <<host, told, pressOwed, held, quiet, said>>

----------------------------------------------------------------------------
(* The touch controller.  A lifted finger the firmware has not been told   *)
(* to be down is kept back until it acknowledges the report of the touch.  *)

NewTouch == [status |-> "none", active |-> FALSE, release |-> FALSE, asleep |-> FALSE, trigger |-> "low", intLow |-> FALSE]

Down(t) == [t EXCEPT !.active = TRUE, !.release = FALSE, !.status = "contact", !.intLow = (t.trigger = "low")]
\* Mutant of Up: the release replaces the report the firmware has not acknowledged.
UpAtOnce(t) == [t EXCEPT !.active = FALSE, !.status = "released", !.intLow = (t.trigger = "low")]
Up(t) ==
  IF t.status # "none"
  THEN [t EXCEPT !.active = FALSE, !.release = TRUE]
  ELSE [t EXCEPT !.active = FALSE, !.status = "released", !.intLow = (t.trigger = "low")]

Acknowledged(t) ==
  CASE t.release -> [t EXCEPT !.release = FALSE, !.status = "released", !.intLow = (t.trigger = "low")]
    [] t.active /\ ~ t.release -> [t EXCEPT !.status = "contact", !.intLow = (t.trigger = "low")]
    [] OTHER -> [t EXCEPT !.status = "none", !.intLow = FALSE]

TouchCommand(t, sleep) ==
  IF sleep THEN [t EXCEPT !.asleep = TRUE, !.active = FALSE, !.release = FALSE, !.status = "none", !.intLow = FALSE]
  ELSE [t EXCEPT !.asleep = FALSE]

----------------------------------------------------------------------------
(* The expander.  external, output and config are the sets of pins that    *)
(* are high, that are driven high, and that are inputs.                    *)

Pins == {"rail", "sequence", "function", "railGood", "interrupt"}
NewExpander == [external |-> Pins, output |-> Pins, config |-> Pins, polarity |-> {}, unread |-> FALSE, release |-> FALSE]

SetExternal(p, pin, high) == [p EXCEPT !.external = IF high THEN @ \cup {pin} ELSE @ \ {pin}]
OutputHigh(p, pin) == pin \in p.output \ p.config
ReadPort(p) ==
  {pin \in Pins : ((pin \in p.external \cap p.config) \/ OutputHigh(p, pin)) # (pin \in p.polarity)}

\* Writing a register sets the pins of one port.
WriteRegister(p, w) ==
  [p EXCEPT ![w.register] = (@ \ w.port) \cup w.high]

SetFunctionPressed(p, pressed) ==
  IF pressed THEN SetExternal([p EXCEPT !.unread = TRUE, !.release = FALSE], "function", FALSE)
  ELSE IF p.unread THEN [p EXCEPT !.release = TRUE]
  ELSE SetExternal(p, "function", TRUE)

AckFunctionRead(p) ==
  IF ~ p.unread THEN p
  ELSE IF p.release THEN SetExternal([p EXCEPT !.unread = FALSE, !.release = FALSE], "function", TRUE)
  ELSE [p EXCEPT !.unread = FALSE]

----------------------------------------------------------------------------
(* The supply.  It only looks at the pins when somebody transfers a byte   *)
(* to it or to the expander.                                               *)

NewSupply == [enable |-> FALSE, hold |-> FALSE, ready |-> FALSE, pending |-> FALSE, left |-> 0]

Sequenced(p) == OutputHigh(p, "sequence")
Supplied(s, p) == Sequenced(p) /\ s.enable /\ ~ s.hold
\* Mutant of SupplySync: a start that is interrupted is taken up where it was.
SupplyResumes(s, p) ==
  CASE ~ Supplied(s, p) -> [s EXCEPT !.ready = FALSE]
    [] Supplied(s, p) /\ ~ s.ready /\ ~ s.pending -> [s EXCEPT !.pending = TRUE, !.left = ReadyDelay]
    [] Supplied(s, p) /\ s.pending /\ s.left = 0 -> [s EXCEPT !.ready = TRUE, !.pending = FALSE]
    [] OTHER -> s
SupplySync(s, p) ==
  CASE ~ Supplied(s, p) -> [s EXCEPT !.ready = FALSE, !.pending = FALSE, !.left = 0]
    [] Supplied(s, p) /\ ~ s.ready /\ ~ s.pending -> [s EXCEPT !.pending = TRUE, !.left = ReadyDelay]
    [] Supplied(s, p) /\ s.pending /\ s.left = 0 -> [s EXCEPT !.ready = TRUE, !.pending = FALSE]
    [] OTHER -> s
DrivePca(p, good, fault) == SetExternal(SetExternal(p, "railGood", good), "interrupt", ~ fault)
PinsOf(s, p) == DrivePca(p, Sequenced(p) /\ ~ s.hold, s.hold)

----------------------------------------------------------------------------
Init ==
  /\ activity \in Activities
  /\ gt911 = NewTouch
  /\ tps = NewSupply
  /\ pca = DrivePca(NewExpander, FALSE, FALSE)
  /\ gnss = NewReceiver
  /\ uart = "none"
  /\ host = [finger |-> "up", key |-> "up", level |-> TRUE]
  /\ told = [finger |-> "up", owes |-> FALSE]
  /\ pressOwed = FALSE
  /\ held = 0 /\ quiet = Second /\ said = FALSE

\* What the last step did to the supply: the ticks it has had all it needs.
Supplying == held' = IF Supplied(tps', pca') THEN held ELSE 0

(***************************************************************************)
(* The host injects a touch; the firmware reads the status, acknowledges   *)
(* the report it read, sets the trigger, puts the controller to sleep or   *)
(* pulls its reset line.                                                   *)
(***************************************************************************)
InjectContact(down) ==
  /\ "input" \in activity
  /\ ~ gt911.asleep
  /\ gt911' = IF down THEN Down(gt911) ELSE Up(gt911)
  /\ host' = [host EXCEPT !.finger = IF down THEN "down" ELSE "up"]
  /\ uart' = "none"
  /\ UNCHANGED <<activity, pca, tps, gnss, told, pressOwed, held, quiet, said>>

ReadStatus ==
  /\ "input" \in activity
  /\ told' = CASE gt911.status = "contact" -> [finger |-> "down", owes |-> TRUE]
               [] gt911.status = "released" -> [finger |-> "up", owes |-> TRUE]
               [] OTHER -> told
  /\ uart' = "none"
  /\ UNCHANGED <<activity, gt911, pca, tps, gnss, host, pressOwed, held, quiet, said>>

AcknowledgeStatus ==
  /\ "input" \in activity
  /\ told.owes
  /\ gt911' = Acknowledged(gt911)
  /\ told' = [told EXCEPT !.owes = FALSE]
  /\ uart' = "none"
  /\ UNCHANGED <<activity, pca, tps, gnss, host, pressOwed, held, quiet, said>>

SetTrigger(mode) ==
  /\ "input" \in activity
  /\ gt911' = [gt911 EXCEPT !.trigger = mode]
  /\ host' = [host EXCEPT !.level = @ /\ mode = "low"]
  /\ uart' = "none"
  /\ UNCHANGED <<activity, pca, tps, gnss, told, pressOwed, held, quiet, said>>

\* Asleep, the controller is told nothing; the firmware starts anew.
Forgotten == [finger |-> "up", owes |-> FALSE]
WriteCommand(sleep) ==
  /\ "input" \in activity
  /\ gt911' = TouchCommand(gt911, sleep)
  /\ host' = [host EXCEPT !.finger = IF sleep THEN "up" ELSE @]
  /\ told' = IF sleep THEN Forgotten ELSE told
  /\ uart' = "none"
  /\ UNCHANGED <<activity, pca, tps, gnss, pressOwed, held, quiet, said>>

ResetTouch ==
  /\ "input" \in activity
  /\ gt911' = NewTouch
  /\ host' = [host EXCEPT !.finger = "up", !.level = TRUE]
  /\ told' = Forgotten
  /\ uart' = "none"
  /\ UNCHANGED <<activity, pca, tps, gnss, pressOwed, held, quiet, said>>

(***************************************************************************)
(* The function key, and the firmware at the expander.  A change of the    *)
(* rail is passed on to the receiver.                                      *)
(***************************************************************************)
InjectFunction(pressed) ==
  /\ activity \cap {"input", "supply"} # {}
  /\ pca' = SetFunctionPressed(pca, pressed)
  /\ host' = [host EXCEPT !.key = IF pressed THEN "down" ELSE "up"]
  /\ pressOwed' = (pressOwed \/ pressed)
  /\ uart' = "none"
  /\ UNCHANGED <<activity, gt911, tps, gnss, told, held, quiet, said>>

ReadInput ==
  LET synced == PinsOf(SupplySync(tps, pca), pca)
  IN /\ tps' = SupplySync(tps, pca)
     /\ pca' = AckFunctionRead(synced)
     /\ pressOwed' = (pressOwed /\ "function" \in ReadPort(synced))
     /\ Supplying
     /\ uart' = "none"
     /\ UNCHANGED <<activity, gt911, gnss, host, told, quiet, said>>

Switched(on) ==
  /\ gnss' = SetPower(gnss, on)
  /\ quiet' = IF gnss.powered = on THEN quiet ELSE Second
  /\ said' = (said /\ gnss.powered = on)

WriteExpander(w) ==
  LET written == WriteRegister(pca, w)
  IN /\ w.for \in activity
     /\ tps' = SupplySync(tps, written)
     /\ pca' = PinsOf(SupplySync(tps, written), written)
     /\ IF OutputHigh(pca, "rail") = OutputHigh(written, "rail")
        THEN UNCHANGED <<gnss, quiet, said>>
        ELSE Switched(OutputHigh(written, "rail"))
     /\ Supplying
     /\ uart' = "none"
     /\ UNCHANGED <<activity, gt911, host, told, pressOwed>>

(***************************************************************************)
(* The supply: its enable register, its power good register, which any     *)
(* read brings up to date, and the host's control requests.                *)
(***************************************************************************)
SetSupply(s) ==
  /\ tps' = SupplySync(s, pca)
  /\ pca' = PinsOf(SupplySync(s, pca), pca)
  /\ Supplying
  /\ uart' = "none"
  /\ UNCHANGED <<activity, gt911, gnss, host, told, pressOwed, quiet, said>>

WriteEnable(on) == "supply" \in activity /\ SetSupply([tps EXCEPT !.enable = on])
ReadSupply == "supply" \in activity /\ SetSupply(tps)
HoldNotReady(hold) == "supply" \in activity /\ SetSupply([tps EXCEPT !.hold = hold])

ResetSupply ==
  /\ "supply" \in activity
  /\ tps' = NewSupply
  /\ pca' = DrivePca(pca, FALSE, FALSE)
  /\ held' = 0
  /\ uart' = "none"
  /\ UNCHANGED <<activity, gt911, gnss, host, told, pressOwed, quiet, said>>

(***************************************************************************)
(* The receiver: the firmware's bytes, the host's fixtures, the timers.    *)
(***************************************************************************)
Spoke(spoke) ==
  /\ uart' = IF spoke THEN "sentence" ELSE "none"
  /\ quiet' = IF spoke THEN 0 ELSE quiet
  /\ said' = (said \/ spoke)

GuestWritesUart(piece) ==
  /\ "receiver" \in activity
  /\ gnss' = GuestWrites(gnss, piece)
  /\ Spoke(WriteSpeaks(gnss, piece))
  /\ UNCHANGED <<activity, gt911, pca, tps, host, told, pressOwed, held>>

GnssTimer ==
  /\ gnss.timer = 0
  /\ gnss' = TimerRuns(gnss)
  /\ Spoke(TimerSpeaks(gnss))
  /\ UNCHANGED <<activity, gt911, pca, tps, host, told, pressOwed, held>>

GnssProbeTimer ==
  /\ gnss.probeTimer = 0
  /\ gnss' = ProbeTimerRuns(gnss)
  /\ uart' = IF gnss.pending THEN "identity" ELSE "none"
  /\ UNCHANGED <<activity, gt911, pca, tps, ghosts>>

ControlReceiver(g) ==
  /\ "receiver" \in activity
  /\ gnss' = g
  /\ quiet' = Second
  /\ said' = FALSE
  /\ uart' = "none"
  /\ UNCHANGED <<activity, gt911, pca, tps, host, told, pressOwed, held>>

ConfigureReceiver(f, on) == ControlReceiver(SetPower(SetFixture(InitReceiver(gnss), f), on))
ChangeFixture(f) == ControlReceiver(SetFixture(gnss, f))
ReinitReceiver == ControlReceiver(InitReceiver(gnss))

(***************************************************************************)
(* The firmware restarts: the devices on the I2C bus are reset, in an      *)
(* order of the machine's; the receiver is no device and keeps its state.  *)
(***************************************************************************)
Restart ==
  /\ gt911' = NewTouch
  /\ tps' = NewSupply
  /\ pca' \in {DrivePca(NewExpander, FALSE, FALSE), NewExpander}
  /\ host' = [finger |-> "up", key |-> "up", level |-> TRUE]
  /\ told' = Forgotten
  /\ pressOwed' = FALSE
  /\ held' = 0
  /\ uart' = "none"
  /\ UNCHANGED <<activity, gnss, quiet, said>>

Tick ==
  /\ tps' = [tps EXCEPT !.left = Sooner(@)]
  /\ gnss' = TickReceiver(gnss)
  /\ held' = IF Supplied(tps, pca) /\ held < ReadyDelay THEN held + 1 ELSE held
  /\ quiet' = IF quiet < Second THEN quiet + 1 ELSE quiet
  /\ uart' = "none"
  /\ UNCHANGED <<activity, gt911, pca, host, told, pressOwed, said>>

DeviceStep ==
  \/ \E down \in BOOLEAN : InjectContact(down)
  \/ ReadStatus
  \/ AcknowledgeStatus
  \/ \E mode \in {"low", "edge"} : SetTrigger(mode)
  \/ \E sleep \in BOOLEAN : WriteCommand(sleep)
  \/ ResetTouch
  \/ \E pressed \in BOOLEAN : InjectFunction(pressed)
  \/ ReadInput
  \/ \E on \in BOOLEAN : WriteEnable(on)
  \/ ReadSupply
  \/ \E hold \in BOOLEAN : HoldNotReady(hold)
  \/ ResetSupply
  \/ \E piece \in Pieces : GuestWritesUart(piece)
  \/ GnssTimer
  \/ GnssProbeTimer
  \/ \E f \in SetFixtures, on \in BOOLEAN : ConfigureReceiver(f, on)
  \/ \E f \in SetFixtures : ChangeFixture(f)
  \/ ReinitReceiver

\* Whatever does not concern the radio, which T5Board adds.
Next ==
  \/ DeviceStep
  \/ \E w \in Writes : WriteExpander(w)
  \/ Restart
  \/ Tick

Spec == Init /\ [][Next]_vars

----------------------------------------------------------------------------
(* What the firmware knows of the finger is what the host last did, or the *)
(* controller's status will tell it so, with INT low if INT has been level *)
(* triggered all along; and the function key is never stuck, and never     *)
(* pressed so briefly that the firmware does not read it.                  *)
FingerTold ==
  \/ told.finger = host.finger
  \/ host.finger = "down" /\ gt911.status = "contact" /\ ~ gt911.release
  \/ host.finger = "up" /\ (gt911.status = "released" \/ gt911.release)
KeyTold ==
  /\ pressOwed => "function" \notin pca.external
  /\ host.key = "down" => "function" \notin pca.external
  /\ host.key = "up" /\ "function" \notin pca.external => pca.unread /\ pca.release
InputsTold ==
  /\ FingerTold
  /\ gt911.status # "none" /\ host.level => gt911.intLow
  /\ KeyTold

(* The supply says its rails are good only after the pins, the enable      *)
(* register and the host have let it for as long as it takes to start.     *)
PowerGoodEarned == tps.ready => Supplied(tps, pca) /\ held = ReadyDelay

(* Sentences come a second apart, however the timer and the firmware's     *)
(* writes take turns, a stale receiver says one, and none comes between a  *)
(* poll and its reply.                                                     *)
SentencesPaced ==
  [][uart' = "sentence" =>
       /\ quiet = Second
       /\ gnss.powered
       /\ ~ gnss.pending /\ ~ gnss'.pending
       /\ gnss.fixture = "stale" => ~ said]_vars
=============================================================================
