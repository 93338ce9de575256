----------------------------- MODULE I2cDevices -----------------------------
(***************************************************************************)
(* Three devices of the LilyGo I2C bus that share one protocol with small  *)
(* differences: the fuel gauge (lilygo_bq27220.c), the charger             *)
(* (lilygo_power_rtc.c) and the probe (lilygo_i2c_probe.c).  A device has  *)
(* a register pointer, faults that the host arms, and a record of the      *)
(* transaction in progress, of which it sends the host one trace.  The     *)
(* state of a device is a record; its handlers are functions of records.   *)
(***************************************************************************)
EXTENDS Integers, Sequences

CONSTANTS
  RegisterCount, \* registers of a device (256 or 16 in the code)
  TraceMax       \* bytes kept for the trace of a transaction

ASSUME DeviceAssumption ==
  /\ RegisterCount \in Nat \ {0}
  /\ TraceMax \in Nat

Kinds == {"gauge", "charger", "probe"}
Registers == 0..RegisterCount - 1
NextRegister(r) == (r + 1) % RegisterCount

(* version counts the states the host has set (modulo a bound; those of    *)
(* the charger are not told apart), pending is the charger's fault that no *)
(* read has fetched; owed is the number of accepted transactions the host  *)
(* has had no trace of, data what a read of the gauge has returned (other  *)
(* bytes of the trace are left out).                                       *)
Fresh(version) ==
  [ptr |-> 0, expecting |-> TRUE, active |-> FALSE, reading |-> FALSE, once |-> FALSE,
   latched |-> FALSE, data |-> <<>>, version |-> version, pending |-> FALSE, owed |-> 0]

(* A trace is sent for the transaction in progress, if there is one; what  *)
(* only a transaction uses is forgotten with it.                           *)
Closed(d) == [d EXCEPT !.owed = @ - 1, !.data = <<>>, !.expecting = TRUE, !.reading = FALSE]
TracedOpen(d) == \* seeded fault: the transaction stays open
  IF d.active THEN Closed(d) ELSE d
Traced(d) == IF d.active THEN [Closed(d) EXCEPT !.active = FALSE] ELSE d

(* I2C_START_SEND, I2C_START_RECV: a fault refuses the transaction, and a  *)
(* fault for one transaction is used up.                                   *)
Refuses(d) == d.once \/ d.latched
Started(d, kind, reading) ==
  LET before == IF kind = "probe" THEN d ELSE Traced(d)
      begun == [before EXCEPT !.data = <<>>, !.expecting = ~ reading,
                              !.reading = reading, !.once = FALSE, !.active = ~ Refuses(d)]
  IN  IF Refuses(d) THEN [begun EXCEPT !.expecting = TRUE, !.reading = FALSE]
      ELSE [begun EXCEPT !.owed = @ + 1]

(* I2C_FINISH.                                                             *)
Finished(d) == Traced(d)

Kept(data, value) == IF Len(data) < TraceMax THEN Append(data, value) ELSE data

(* The first byte of a write is the pointer; the gauge and the charger     *)
(* refuse every other byte.                                                *)
RefusesByte(d, kind) == ~ d.expecting /\ kind # "probe"
Sent(d, kind, byte) ==
  IF d.expecting THEN [d EXCEPT !.ptr = byte % RegisterCount, !.expecting = FALSE]
  ELSE IF kind = "probe" THEN [d EXCEPT !.ptr = NextRegister(@)]
  ELSE d

(* A read of the pointer's register: the charger's fault register (the     *)
(* last one here) gives the fault the host latched to the first read only. *)
FaultRegister == RegisterCount - 1
Received(d, kind) ==
  [d EXCEPT !.ptr = NextRegister(@),
            !.data = IF kind = "gauge" THEN Kept(@, d.version) ELSE @,
            !.pending = @ /\ ~ (kind = "charger" /\ d.ptr = FaultRegister)]

(* The host's control requests.  The gauge answers them with an error      *)
(* while a transaction is in progress.                                     *)
AcceptsAlways(d, kind) == TRUE \* seeded fault: also during a transaction
Accepts(d, kind) == kind = "gauge" => ~ d.active
StateSet(d, kind, version) ==
  IF kind = "charger" THEN [d EXCEPT !.pending = TRUE] ELSE [d EXCEPT !.version = version]
FaultSet(d, oneShot) == IF oneShot THEN [d EXCEPT !.once = TRUE] ELSE [d EXCEPT !.latched = TRUE]
FaultsCleared(d) == [d EXCEPT !.once = FALSE, !.latched = FALSE] \* the charger's only

(* A reset of the gauge or the probe forgets the transaction; the charger  *)
(* resets its registers only, and keeps the transaction for its trace.     *)
ModelReset(d, kind) ==
  IF kind = "charger"
  THEN [Fresh(0) EXCEPT !.active = d.active, !.owed = d.owed, !.data = d.data, !.reading = d.reading]
  ELSE Fresh(0)
=============================================================================
