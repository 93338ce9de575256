---------------------------- MODULE Sx1262Radio ----------------------------
(***************************************************************************)
(* The SX1262 radio of the T5 board (lilygo_sx1262.c): a command is what   *)
(* the guest sends between the edges of chip select, and it is applied     *)
(* when the radio is deselected.  Times are the ticks left until they are  *)
(* reached; 0 is reached and not seen yet, None is not set.  The packets,  *)
(* the registers and the modulation are left out, the faults that act      *)
(* alike are one: "deaf" receives nothing, "drop" sends nothing either,    *)
(* "bad" receives packets with errors.                                     *)
(***************************************************************************)
EXTENDS Naturals, FiniteSetsExt

CONSTANTS
  TxTime, \* SX1262_TX_DURATION_US, in ticks
  RxTime  \* the time out the guest asks for

None == 99
CommandBusy == 1
Later(t) == IF t \in {0, None} THEN t ELSE t - 1

Modes == {"standby", "fs", "tx", "rx", "sleep"}
Faults == {"none", "missing", "stuck", "deaf", "drop", "bad"}
Commands == {"nop", "standby", "fs", "sleep", "tx", "rx", "rx_until", "clear", "other", "unknown"}
Interrupts == {"sent", "received", "broken", "timeout"}

ResetProtocol(r) ==
  [r EXCEPT !.mode = "standby", !.fault = "none", !.irq = {}, !.busy = 0, !.deadline = None,
            !.pending = None, !.selected = FALSE, !.command = "none"]

NewRadio ==
  [powered |-> FALSE, inReset |-> FALSE, mode |-> "standby", fault |-> "none", irq |-> {}, busy |-> 0,
   deadline |-> None, pending |-> None, selected |-> FALSE, command |-> "none", timer |-> None]
ColdReset(r) == [NewRadio EXCEPT !.timer = r.timer]  \* the QEMU timer is not cancelled

Available(r) == r.powered /\ ~ r.inReset /\ r.fault # "missing"
Busy(r) == r.fault = "stuck" \/ r.busy > 0

----------------------------------------------------------------------------
(* Time: sx1262_device_sync looks at what is due and sets the timer to the *)
(* next of what is not.                                                    *)

Upcoming(r) == {t \in {r.busy, r.deadline, r.pending} : t \notin {0, None}}
Schedule(r) == IF Upcoming(r) = {} THEN r ELSE [r EXCEPT !.timer = Min(Upcoming(r))]

TransmitEnds(r) ==
  IF r.mode = "tx" /\ r.deadline = 0
  THEN [r EXCEPT !.mode = "standby", !.deadline = None, !.irq = @ \cup {"sent"}] ELSE r

PacketArrives(r) ==
  IF r.mode = "rx" /\ r.pending = 0 /\ r.fault \notin {"deaf", "drop"}
  THEN [r EXCEPT !.mode = "standby", !.pending = None, !.deadline = None,
                 !.irq = @ \cup {IF r.fault = "bad" THEN "broken" ELSE "received"}]
  ELSE r

ReceiveEnds(r) ==
  IF r.mode = "rx" /\ r.deadline = 0
  THEN [r EXCEPT !.mode = "standby", !.pending = None, !.deadline = None, !.irq = @ \cup {"timeout"}] ELSE r

SyncOnly(r) == ReceiveEnds(PacketArrives(TransmitEnds(r))) \* seeded fault: as Sync, the timer not set again
Sync(r) == Schedule(ReceiveEnds(PacketArrives(TransmitEnds(r))))

Tick(r) ==
  [r EXCEPT !.busy = Later(@), !.deadline = Later(@), !.pending = Later(@), !.timer = Later(@)]
TimerFires(r) == Sync([r EXCEPT !.timer = None])

----------------------------------------------------------------------------
(* Chip select and the bytes of a command.                                 *)

Receiving(r, deadline) ==
  [r EXCEPT !.mode = "rx", !.irq = @ \cap {"sent"}, !.busy = CommandBusy, !.deadline = deadline]

Apply(r) ==
  CASE r.command \in {"sleep", "standby", "fs"} -> [r EXCEPT !.mode = r.command, !.busy = CommandBusy]
    [] r.command = "tx" -> [r EXCEPT !.mode = "tx", !.irq = @ \ {"sent", "timeout"}, !.busy = CommandBusy,
                                     !.deadline = TxTime]
    [] r.command = "rx" -> Receiving(r, None)
    [] r.command = "rx_until" -> Receiving(r, RxTime)
    [] r.command = "clear" -> [r EXCEPT !.irq = {}, !.busy = CommandBusy]
    [] r.command \in {"nop", "other"} -> [r EXCEPT !.busy = CommandBusy]
    [] OTHER -> r  \* nothing was sent, or an unknown opcode

Deselected(r) ==
  [(IF r.selected /\ Available(r) THEN Apply(r) ELSE r) EXCEPT !.selected = FALSE, !.command = "none"]

SetCs(r, low) ==
  Schedule(IF low THEN [Sync(r) EXCEPT !.selected = TRUE, !.command = "none"] ELSE Deselected(Sync(r)))

(* A burst of bytes: the first ever after the selection is the opcode.     *)
Transfer(r, command) ==
  LET s == Sync(r) IN
  IF ~ s.selected \/ ~ Available(s) \/ Busy(s) \/ s.command # "none" THEN s
  ELSE [s EXCEPT !.command = command,
                 !.mode = IF @ = "sleep" /\ command = "nop" THEN "standby" ELSE @]

----------------------------------------------------------------------------
(* The rail, the reset line and the host.                                  *)

SetPower(r, on) == Schedule([ResetProtocol(r) EXCEPT !.powered = on])

SetReset(r, asserted) ==
  Schedule(IF r.inReset = asserted THEN r
           ELSE [ResetProtocol(r) EXCEPT !.inReset = asserted,
                                         !.busy = IF ~ asserted /\ r.powered THEN CommandBusy ELSE 0])

SetFault(r, fault) == Schedule([Sync(r) EXCEPT !.fault = fault])
ControlReset(r) == Schedule(SetReset(SetReset(Sync(r), TRUE), FALSE))

(* A packet of a fixture, or of the broker, which only gives one to a      *)
(* radio that listens on the same channel.                                 *)
Accepts(r, broker) == broker => Sync(r).mode = "rx"
ScheduleReceive(r, delay) == Schedule([Sync(r) EXCEPT !.pending = delay])

----------------------------------------------------------------------------
(* What is to come, the radio's timer is set for: a transmission, a        *)
(* receive with a time out and a busy line end, a packet arrives.          *)
TimersArmed(r) ==
  /\ \A t \in {r.busy} \cup (IF r.mode \in {"tx", "rx"} THEN {r.deadline} ELSE {})
              \cup (IF r.mode = "rx" THEN {r.pending} ELSE {}) :
       t \notin {0, None} => r.timer # None /\ r.timer <= t
  /\ r.mode \in {"tx", "rx"} /\ r.deadline = 0 => r.timer # None
  /\ r.mode = "tx" => r.deadline # None
=============================================================================
