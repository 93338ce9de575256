----------------------------- MODULE SharedSpi -----------------------------
(***************************************************************************)
(* The SPI controller of the simulated ESP32-S3 (esp32s3_gpspi2.c) with    *)
(* the two devices that share its bus on the T5 board, the SD card and the *)
(* radio.  The firmware selects a device by a GPIO or lets the controller  *)
(* do it for one transfer; nothing keeps it from selecting both.  Every    *)
(* transaction is reported to the host in one trace.                       *)
(*                                                                         *)
(* The card is only told that it is selected; what it does is SdCard.      *)
(* Registers that the guest alone reads are left out.                      *)
(***************************************************************************)
EXTENDS Sx1262Radio

CONSTANTS
  Sent,        \* commands the guest sends to the radio
  RadioFaults, \* faults the host sets
  Delays       \* of the packets it schedules

VARIABLES
  high,    \* chip_select: the level of the GPIO of each device
  active,  \* active_target: a device, "conflict" or "none"
  armed,   \* conflict_fault_once, conflict_fault_latched
  error,   \* transaction_error
  low,     \* the devices whose target_select line is low
  radio,
  owed,    \* history: transactions begun and not traced
  flawed,  \* history: something went wrong in the transaction
  honest   \* history: no trace said otherwise

vars == <<high, active, armed, error, low, radio, owed, flawed, honest>>

Devices == {"sd", "radio"}

Init ==
  /\ high = [d \in Devices |-> TRUE] /\ active = "none" /\ armed = {}
  /\ error = FALSE /\ low = {} /\ radio = NewRadio
  /\ owed = 0 /\ flawed = FALSE /\ honest = TRUE

----------------------------------------------------------------------------
(* The lines to the devices.  A device sees the edges only.                *)

Lines(r, from, to) ==
  IF ("radio" \in from) = ("radio" \in to) THEN r ELSE SetCs(r, "radio" \in to)

Abort(r) == ColdReset(Lines(r, low, {}))

(* gpspi2_finish_transaction                                               *)
ResultOk == active \in Devices /\ ~ error
Finished ==
  /\ active' = "none"
  /\ IF active = "none" THEN UNCHANGED <<error, owed, flawed, honest>>
     ELSE /\ error' = FALSE /\ flawed' = FALSE
          /\ owed' = owed - 1
          /\ honest' = (honest /\ ResultOk = ~ flawed)

----------------------------------------------------------------------------
(* gpspi2_set_chip_select                                                  *)

SelectFirstStale(d) == \* seeded fault: the error of before is kept
  /\ high[d] /\ active = "none"
  /\ high' = [high EXCEPT ![d] = FALSE]
  /\ owed' = owed + 1 /\ flawed' = (armed # {})
  /\ armed' = armed \ {"once"}
  /\ IF armed = {}
     THEN active' = d /\ low' = {d} /\ radio' = Lines(radio, low, {d})
     ELSE active' = "conflict" /\ low' = {} /\ radio' = Abort(radio)
  /\ UNCHANGED <<error, honest>>
SelectFirst(d) == \* the only one: a transaction begins
  /\ high[d] /\ active = "none"
  /\ high' = [high EXCEPT ![d] = FALSE]
  /\ error' = FALSE /\ owed' = owed + 1 /\ flawed' = (armed # {})
  /\ armed' = armed \ {"once"}
  /\ IF armed = {}
     THEN active' = d /\ low' = {d} /\ radio' = Lines(radio, low, {d})
     ELSE active' = "conflict" /\ low' = {} /\ radio' = Abort(radio)
  /\ UNCHANGED honest

SelectBeside(d) == /\ high' = [high EXCEPT ![d] = FALSE] \* seeded fault: the first one stays the owner
                   /\ high[d] /\ active # "none" /\ flawed' = TRUE
                   /\ low' = low \cup {d} /\ radio' = Lines(radio, low, low \cup {d})
                   /\ UNCHANGED <<active, armed, error, owed, honest>>
SelectSecond(d) == \* the other one is selected
  /\ high[d] /\ active # "none"
  /\ high' = [high EXCEPT ![d] = FALSE]
  /\ active' = IF active = d THEN d ELSE "conflict"
  /\ low' = {} /\ radio' = Abort(radio) /\ flawed' = TRUE
  /\ UNCHANGED <<armed, error, owed, honest>>

Deselect(d) ==
  /\ ~ high[d]
  /\ high' = [high EXCEPT ![d] = TRUE]
  /\ low' = low \ {d} /\ radio' = Lines(radio, low, low \ {d})
  /\ IF \A e \in Devices : high'[e] THEN Finished ELSE UNCHANGED <<active, error, owed, flawed, honest>>
  /\ UNCHANGED armed

----------------------------------------------------------------------------
(* execute_usr_transfer: a command written to the controller.  "moved":    *)
(* the bytes went over the bus and to where the guest wants them;          *)
(* "refused": too many for the buffer, or they could not be fetched;       *)
(* "undelivered": what came back could not be stored.  A transfer of       *)
(* nothing has no effect.                                                  *)

Outcomes == {"moved", "refused", "undelivered"}

(* A transaction that a chip select has begun.                             *)
TransferSelected(outcome, command, cardFails) ==
  /\ active # "none"
  /\ radio' = IF active = "radio" /\ outcome # "refused" THEN Transfer(radio, command) ELSE radio
  /\ LET wrong == \/ outcome # "moved" \/ active = "conflict"
                  \/ cardFails /\ active = "sd" /\ outcome # "refused"
     IN error' = (error \/ wrong) /\ flawed' = (flawed \/ wrong)
  /\ UNCHANGED <<high, active, armed, low, owed, honest>>

(* The bridged transfer of the radio's driver.                             *)
DirectTransfer(command) ==
  /\ active = "radio"
  /\ radio' = Transfer(radio, command)
  /\ UNCHANGED <<high, active, armed, error, low, owed, flawed, honest>>

(* The driver's call, bridged while the radio is selected: a descriptor    *)
(* that cannot be used is answered with an error and nothing is sent.      *)
PollingTransmit(usable, command) ==
  IF usable THEN DirectTransfer(command) ELSE active = "radio" /\ UNCHANGED vars

(* None has: the controller selects the devices its register names for     *)
(* this transfer, begins a transaction and traces it.                      *)
TransferHardware(enabled, outcome, command) ==
  /\ active = "none" /\ enabled # {}
  /\ armed' = armed \ {"once"}
  /\ LET chosen == SetCs(radio, TRUE) IN
     radio' = IF armed # {} \/ enabled = Devices THEN Abort(radio)
              ELSE IF enabled = {"sd"} THEN radio
              ELSE SetCs(IF outcome = "refused" THEN chosen ELSE Transfer(chosen, command), FALSE)
  /\ error' = FALSE
  /\ UNCHANGED <<high, active, low, owed, flawed, honest>>

(* Nor does the register: the bytes go nowhere.                            *)
TransferNowhere(outcome) ==
  /\ active = "none" /\ outcome # "moved"
  /\ error' = TRUE
  /\ UNCHANGED <<high, active, armed, low, radio, owed, flawed, honest>>

(* The guest's write to the command register runs one of them.             *)
GuestWrite(outcome, command) ==
  \/ \E cardFails \in BOOLEAN : TransferSelected(outcome, command, cardFails)
  \/ \E enabled \in SUBSET Devices : TransferHardware(enabled, outcome, command)
  \/ TransferNowhere(outcome)

----------------------------------------------------------------------------
(* The host's requests and the reset.                                      *)

ArmConflict(kind) ==
  /\ active = "none" /\ \A d \in Devices : high[d]
  /\ armed' = armed \cup {kind}
  /\ UNCHANGED <<high, active, error, low, radio, owed, flawed, honest>>

(* The host's reset, or that of the machine: a GPIO that is low is         *)
(* forgotten with the rest, until its next edge down.                      *)
Reset ==
  /\ active' = "none" /\ error' = FALSE /\ flawed' = FALSE
  /\ owed' = IF active = "none" THEN owed ELSE owed - 1
  /\ UNCHANGED honest
  /\ high' = [d \in Devices |-> TRUE] /\ low' = {} /\ armed' = {}
  /\ radio' = Abort(radio)

RadioStep(r) == radio' = r /\ UNCHANGED <<high, active, armed, error, low, owed, flawed, honest>>

Rail(on) == RadioStep(SetPower(radio, on))
ResetLine(asserted) == RadioStep(SetReset(radio, asserted))
RadioFault(fault) == RadioStep(SetFault(radio, fault))
RadioReset == RadioStep(ControlReset(radio))
Packet(delay, broker) == Accepts(radio, broker) /\ RadioStep(ScheduleReceive(radio, delay))
RadioTimer == radio.timer = 0 /\ RadioStep(TimerFires(radio))
Time == RadioStep(Tick(radio))
Poll == RadioStep(Sync(radio)) \* the guest reads the pins BUSY and DIO1

BusStep ==
  \/ \E d \in Devices : SelectFirst(d) \/ SelectSecond(d) \/ Deselect(d)
  \/ \E outcome \in Outcomes, command \in Sent : GuestWrite(outcome, command)
  \/ \E command \in Sent, usable \in BOOLEAN : PollingTransmit(usable, command)
  \/ \E kind \in {"once", "latched"} : ArmConflict(kind)
  \/ Reset \/ RadioReset \/ RadioTimer \/ Poll
  \/ \E on \in BOOLEAN : ResetLine(on)
  \/ \E fault \in RadioFaults : RadioFault(fault)
  \/ \E delay \in Delays, broker \in BOOLEAN : Packet(delay, broker)

\* On its own the bus has a rail that anybody switches.
Next == BusStep \/ Time \/ \E on \in BOOLEAN : Rail(on)

Spec == Init /\ [][Next]_vars

----------------------------------------------------------------------------
(* The device whose select line is low is the owner of the transaction,    *)
(* and there is at most one: a conflict leaves none selected, until both   *)
(* GPIOs are high again.  A transaction that has begun is traced once,     *)
(* when it ends.                                                           *)
OneOwner ==
  /\ low = {active} \cap Devices
  /\ active = "none" <=> \A d \in Devices : high[d]
  /\ active \in Devices => \A d \in Devices : high[d] <=> d # active
  /\ radio.selected => "radio" \in low
  /\ owed = IF active = "none" THEN 0 ELSE 1

(* The trace says that all went well if and only if every transfer of the  *)
(* transaction did, and neither device was selected beside the other.      *)
HonestTrace == honest

(* The radio's time outs are never lost: TimersArmed.                      *)
RadioTimers == TimersArmed(radio)
=============================================================================
