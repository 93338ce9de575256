------------------------------ MODULE Esp32I2c ------------------------------
(***************************************************************************)
(* The I2C controller of the simulated ESP32-S3 (esp32_i2c.c): the guest   *)
(* fills a FIFO and a list of commands and starts it; the controller runs  *)
(* the list against the bus within the one register write.  Functions of   *)
(* the firmware's driver can be bridged to the bus directly.  The list is  *)
(* run in steps of one byte with nothing between them.                     *)
(*                                                                         *)
(* Either all of the driver is bridged or none of it, so that a direct     *)
(* transfer does not meet a bus that an END command has left held.  One    *)
(* controller; its interrupt bits, which only the driver reads, are left   *)
(* out for the completion event.  The devices' addresses are the numbers   *)
(* of Devices.                                                             *)
(***************************************************************************)
EXTENDS I2cDevices

CONSTANTS
  Devices,    \* function from bus addresses to kinds of device
  FifoLength, \* ESP32_I2C_FIFO_LENGTH
  Programs,   \* what the guest has the controller do: [bytes, cmds]
  Transfers,  \* bridged calls: programs without FIFO
  Set,        \* devices whose state the host sets
  Fail,       \* the faults it arms: pairs of a device and "once" or "latched"
  MaxStates   \* states the host sets, counted modulo this

ASSUME ControllerAssumption ==
  /\ DOMAIN Devices \subseteq Nat /\ \A a \in DOMAIN Devices : Devices[a] \in Kinds
  /\ Set \subseteq DOMAIN Devices /\ Fail \subseteq (DOMAIN Devices) \X {"once", "latched"}
  /\ FifoLength \in Nat \ {0} /\ MaxStates \in Nat \ {0}

VARIABLES
  tx, rx,  \* the FIFOs: the bytes to send, the number of bytes received
  cmds,    \* cmd_reg
  running, \* "no", "mmio": the controller, "direct": the bridge
  wire,    \* bytes a bridged call has left to send
  at,      \* the command that runs
  left,    \* bytes it has left
  ongoing, \* trans_ongoing, or a bridged call is between its start and end
  event,   \* esp32s3_i2c_completion_event: 0, 1 done, 2 refused
  held,    \* the device that the bus is connected to, or None
  dev

vars == <<tx, rx, cmds, running, wire, at, left, ongoing, event, held, dev>>

None == -1
FF == 255
Addresses == DOMAIN Devices
Idle == running = "no"
Command == cmds[at]

Init ==
  /\ tx = <<>> /\ rx = 0 /\ cmds = <<>> /\ wire = <<>>
  /\ running = "no" /\ at = 0 /\ left = 0
  /\ ongoing = FALSE /\ event = 0
  /\ held = None
  /\ dev = [a \in Addresses |-> Fresh(0)]

----------------------------------------------------------------------------
(* The bus, as the code uses it: a start connects the device that answers  *)
(* to the address; one that refuses is disconnected again.                 *)

Answers(address) == address \in Addresses /\ ~ Refuses(dev[address])
StartTransfer(address, reading) ==
  IF address \notin Addresses THEN UNCHANGED <<held, dev>>
  ELSE LET started == Started(dev[address], Devices[address], reading) IN
       IF Refuses(dev[address])
       THEN dev' = [dev EXCEPT ![address] = Finished(started)] /\ held' = None
       ELSE dev' = [dev EXCEPT ![address] = started] /\ held' = address

EndTransfer ==
  /\ held' = None
  /\ dev' = IF held = None THEN dev ELSE [dev EXCEPT ![held] = Finished(@)]

HangupForgotten == ongoing' = FALSE /\ UNCHANGED <<held, dev>> \* seeded fault
Hangup ==
  /\ IF ongoing THEN EndTransfer ELSE UNCHANGED <<held, dev>>
  /\ ongoing' = FALSE

----------------------------------------------------------------------------
(* The guest's register writes, and the host.                              *)

PushedAll(fifo, bytes) == fifo \o bytes \* seeded fault: no limit
Pushed(fifo, bytes) ==
  LET all == fifo \o bytes IN SubSeq(all, 1, IF Len(all) < FifoLength THEN Len(all) ELSE FifoLength)

(* Bytes into the FIFO, which the driver may have reset, commands into the *)
(* registers, and TRANS_START.                                             *)
StartProgram(p, fifoReset) ==
  /\ Idle
  /\ tx' = Pushed(IF fifoReset THEN <<>> ELSE tx, p.bytes)
  /\ rx' = IF fifoReset THEN 0 ELSE rx
  /\ cmds' = p.cmds
  /\ running' = "mmio" /\ at' = 1 /\ left' = p.cmds[1].n
  /\ event' = 0
  /\ UNCHANGED <<wire, ongoing, held, dev>>

StartDirect(p) ==
  /\ Idle /\ held = None
  /\ cmds' = p.cmds /\ wire' = p.bytes
  /\ running' = "direct" /\ at' = 1 /\ left' = p.cmds[1].n
  /\ UNCHANGED <<tx, rx, ongoing, event, held, dev>>

(* FSM_RST.                                                                *)
ResetFsm ==
  /\ Idle
  /\ Hangup
  /\ tx' = <<>> /\ rx' = 0
  /\ UNCHANGED <<cmds, running, wire, at, left, event>>

ResetController ==
  /\ Idle
  /\ Hangup
  /\ tx' = <<>> /\ rx' = 0 /\ cmds' = <<>>
  /\ event' = 0
  /\ UNCHANGED <<running, wire, at, left>>

ReadFifo ==
  /\ Idle /\ rx > 0 /\ rx' = rx - 1
  /\ UNCHANGED <<tx, cmds, running, wire, at, left, ongoing, event, held, dev>>

ConsumeEvent ==
  /\ Idle /\ event' = 0
  /\ UNCHANGED <<tx, rx, cmds, running, wire, at, left, ongoing, held, dev>>

(* The host's control requests, with the lock that a register write holds  *)
(* and a bridged call does not.                                            *)
HostChanges(a, d) ==
  /\ running # "mmio" /\ Accepts(dev[a], Devices[a]) /\ dev' = [dev EXCEPT ![a] = d]
  /\ UNCHANGED <<tx, rx, cmds, running, wire, at, left, ongoing, event, held>>

SetState(a) ==
  HostChanges(a, StateSet(dev[a], Devices[a], (dev[a].version + 1) % MaxStates))
SetFault(a, oneShot) == HostChanges(a, FaultSet(dev[a], oneShot))
ClearFaults(a) == Devices[a] = "charger" /\ HostChanges(a, FaultsCleared(dev[a]))
(* The transaction a reset forgets gets no trace.                          *)
ResetDevice(a) == HostChanges(a, ModelReset(dev[a], Devices[a]))

----------------------------------------------------------------------------
(* esp32_i2c_do_transaction, esp32s3_i2c_direct_transfer.                  *)

Mmio == running = "mmio"
NextByte == IF Mmio THEN IF tx = <<>> THEN FF ELSE Head(tx) ELSE Head(wire)
PopByteOfWire == IF Mmio THEN UNCHANGED <<tx, wire>> ELSE wire' = Tail(wire) /\ UNCHANGED tx \* seeded fault: the FIFO is read and not popped
PopByte ==
  IF Mmio THEN tx' = (IF tx = <<>> THEN tx ELSE Tail(tx)) /\ UNCHANGED wire
          ELSE wire' = Tail(wire) /\ UNCHANGED tx

(* The driver writes the commands anew for every list.                     *)
Ends ==
  /\ running' = "no" /\ at' = 0 /\ left' = 0 /\ wire' = <<>> /\ cmds' = <<>>
FirstCommand == IF Mmio THEN 1 ELSE at + 1 \* seeded fault: the list starts again
NextCommand == at + 1
Continues ==
  IF at = Len(cmds) THEN Ends
  ELSE /\ cmds' = cmds /\ at' = NextCommand /\ left' = cmds[NextCommand].n
       /\ UNCHANGED <<running, wire>>

Restart ==
  /\ ~ Idle /\ Command.op = "rstart"
  /\ Hangup
  /\ Continues
  /\ UNCHANGED <<tx, rx, event>>

Writing == ~ Idle /\ Command.op = "write"

(* The first byte of a write is the address unless a transaction goes on.  *)
WriteAddress ==
  /\ Writing /\ ~ ongoing /\ left > 0
  /\ StartTransfer(NextByte \div 2, NextByte % 2 = 1)
  /\ IF Answers(NextByte \div 2)
     THEN /\ ongoing' = TRUE /\ left' = left - 1
          /\ PopByte
          /\ UNCHANGED <<running, cmds, at, event>>
     ELSE /\ event' = IF Mmio THEN 2 ELSE event
          /\ Ends
          /\ tx' = IF Mmio /\ tx # <<>> THEN Tail(tx) ELSE tx
          /\ UNCHANGED ongoing
  /\ UNCHANGED <<rx>>

SendByte ==
  /\ Writing /\ ongoing /\ left > 0
  /\ LET kind == Devices[held]
         sent == Sent(dev[held], kind, NextByte)
     IN  IF RefusesByte(dev[held], kind) /\ (Command.check \/ ~ Mmio)
         THEN /\ event' = IF Mmio THEN 2 ELSE event
              /\ dev' = [dev EXCEPT ![held] = Finished(sent)] /\ held' = None
              /\ ongoing' = FALSE
              /\ Ends
              /\ tx' = IF Mmio /\ tx # <<>> THEN Tail(tx) ELSE tx
         ELSE /\ dev' = [dev EXCEPT ![held] = sent]
              /\ left' = left - 1
              /\ PopByte
              /\ UNCHANGED <<running, cmds, at, event, held, ongoing>>
  /\ UNCHANGED <<rx>>

Reading == ~ Idle /\ Command.op = "read"

(* A full FIFO ends the command; a bus nobody holds reads as ones.         *)
ReceiveByte ==
  /\ Reading /\ left > 0 /\ (Mmio => rx < FifoLength)
  /\ rx' = IF Mmio THEN rx + 1 ELSE rx
  /\ dev' = IF held = None THEN dev ELSE [dev EXCEPT ![held] = Received(@, Devices[held])]
  /\ left' = left - 1
  /\ UNCHANGED <<tx, cmds, running, wire, at, ongoing, event, held>>

ReadOver == left = 0 \/ (Mmio /\ rx = FifoLength)
CommandEnds ==
  /\ (Writing /\ left = 0) \/ (Reading /\ ReadOver)
  /\ Continues
  /\ UNCHANGED <<tx, rx, ongoing, event, held, dev>>

(* STOP ends the list of the controller; a bridged call goes on to read.   *)
StopReports == event = 0
Stop ==
  /\ ~ Idle /\ Command.op = "stop"
  /\ Hangup
  /\ IF Mmio THEN Ends ELSE Continues
  /\ event' = IF Mmio /\ StopReports THEN 1 ELSE event
  /\ UNCHANGED <<tx, rx>>

(* END leaves the bus held for the next list.                              *)
End ==
  /\ Mmio /\ Command.op = "end"
  /\ Ends
  /\ event' = IF StopReports THEN 1 ELSE event
  /\ UNCHANGED <<tx, rx, ongoing, held, dev>>

Controller == Restart \/ WriteAddress \/ SendByte \/ ReceiveByte \/ CommandEnds \/ Stop \/ End

Next ==
  \/ \E p \in Programs, fifoReset \in BOOLEAN : StartProgram(p, fifoReset)
  \/ \E p \in Transfers : StartDirect(p)
  \/ ResetFsm \/ ResetController
  \/ ReadFifo
  \/ ConsumeEvent
  \/ \E a \in Addresses : ResetDevice(a) \/ ClearFaults(a)
  \/ \E a \in Set : SetState(a)
  \/ \E f \in Fail : SetFault(f[1], f[2] = "once")
  \/ Controller

Spec == Init /\ [][Next]_vars /\ WF_vars(Controller)

----------------------------------------------------------------------------
TypeOK ==
  /\ rx \in 0..FifoLength /\ Len(tx) <= FifoLength
  /\ running \in {"no", "mmio", "direct"} /\ ongoing \in BOOLEAN
  /\ (Idle <=> at = 0) /\ at \in 0..Len(cmds) /\ left \in Nat
  /\ event \in 0..2
  /\ held \in Addresses \cup {None}
  /\ \A a \in Addresses : dev[a].ptr \in Registers /\ Len(dev[a].data) <= TraceMax

(* The controller (or the bridge) believes that a transaction goes on just *)
(* when a device is connected to the bus, and no other device is in one:   *)
(* every early end of a list - a refused start, a refused byte, STOP, END, *)
(* RSTART, a reset - leaves both sides agreed.                             *)
BusAgrees ==
  /\ ongoing <=> held # None
  /\ \A a \in Addresses : dev[a].active => held = a

(* The host gets one trace of each transaction a device has accepted:      *)
(* none is reported twice or forgotten, whichever way the list ended and   *)
(* whatever faults and resets the host put in between.                     *)
TracedOnce == \A a \in Addresses : dev[a].owed = IF dev[a].active THEN 1 ELSE 0

(* What a read of the gauge has returned so far is of one state the host   *)
(* set, although a read can be split with END and a bridged one runs       *)
(* without the lock the host's requests hold.                              *)
GaugeWordWhole ==
  \A a \in Addresses :
    LET data == dev[a].data IN
    Devices[a] = "gauge" /\ dev[a].active /\ dev[a].reading =>
      \A i, j \in 1..Len(data) : data[i] = data[j]

(* A list that is started ends, whatever the devices refuse and however    *)
(* full the FIFO is.                                                       *)
Ended == ~ Idle ~> Idle
=============================================================================
