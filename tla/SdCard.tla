------------------------------- MODULE SdCard -------------------------------
(***************************************************************************)
(* The SD card of the simulated boards (sd.c): the state machine behind    *)
(* the SPI adapter and the SDMMC controller, the data phases of its        *)
(* commands, and the LilyGo extension through which the host takes the     *)
(* card out, makes it read-only and arms faults.  Every command, every     *)
(* data byte and every request of the host runs to completion.             *)
(*                                                                         *)
(* Lengths are counted in halves of a 512-byte block, so that a block can  *)
(* start and stop unaligned; data that is shorter (a register) counts as   *)
(* one half.  The third protocol of the file, eMMC, is not instantiated by *)
(* any board and left out.                                                 *)
(***************************************************************************)
EXTENDS Integers, FiniteSets

CONSTANTS
  Units,      \* half blocks of the image
  GroupUnits, \* of a write-protect group
  Profiles,   \* cards and the hosts that use them: [spi, large, lilygo, commands,
              \* acmds, args, controls]
  Counts,     \* of CMD23
  LockData,   \* data of CMD42: [erase, lock, clear, set, len, known]
  CsdData     \* data of CMD27: what csd[14] is programmed to

ASSUME CardAssumption ==
  /\ Units \in Nat /\ Units % 2 = 0 /\ GroupUnits \in Nat /\ GroupUnits > 0
  /\ Counts \subseteq Nat

CsdBits == {"copy", "temporary", "permanent"}
ASSUME HostAssumption ==
  /\ \A p \in Profiles :
       /\ {p.spi, p.large, p.lilygo} \subseteq BOOLEAN /\ p.commands \cup p.acmds \subseteq Nat
       /\ \A c \in DOMAIN p.args : p.args[c] \subseteq Nat
  /\ LockData \subseteq [erase : BOOLEAN, lock : BOOLEAN, clear : BOOLEAN, set : BOOLEAN,
                         len : Nat, known : BOOLEAN]
  /\ CsdData \subseteq SUBSET CsdBits

VARIABLES profile, \* of this run
          card,    \* the registers
          status,  \* card_status: bits that later commands depend on
          image,   \* blk: what each half block holds, "seed" or "new"
          saved,   \* lilygo_seed_blocks: the blocks whose seed is kept
          lil,     \* the host's choices: [present, writable, preserve, faults]
          asked,   \* history: blocks the write in progress was announced to have
          aborted  \* the assertion of the code that failed: "no", "timer" or "byte"

vars == <<profile, card, status, image, saved, lil, asked, aborted>>

BlockUnits == 2
Offsets == 0..Units - 1
None == -1
BlockOf(u) == u \div BlockUnits
GroupOf(u) == u \div GroupUnits

Defaults == [present |-> TRUE, writable |-> TRUE, preserve |-> FALSE, faults |-> {}]

(* sd_reset; what no command of this state uses again keeps its value.     *)
ResetOf(c) ==
  [c EXCEPT !.state = "idle", !.powered = profile.spi, !.csd = {}, !.wp = {},
            !.from = None, !.to = None, !.blkLen = BlockUnits, !.pwd = 0,
            !.acmd = FALSE, !.multi = 0]

Init ==
  /\ profile \in Profiles
  /\ card = [state |-> "idle", powered |-> profile.spi, timer |-> FALSE, acmd |-> FALSE,
             current |-> 0, blkLen |-> BlockUnits, start |-> 0, offset |-> 0, size |-> 0,
             multi |-> 0, written |-> 0, from |-> None, to |-> None, wp |-> {}, csd |-> {},
             pwd |-> 0]
  /\ status = {}
  /\ image = [u \in Offsets |-> "seed"]
  /\ saved = {}
  /\ lil = Defaults
  /\ asked = 0
  /\ aborted = "no"

----------------------------------------------------------------------------
(* What the commands share.                                                *)

Inserted == lil.present
Capacity == card.powered /\ profile.large
InRange(u, length) == u + length <= Units
Address(arg) == IF Capacity THEN arg * BlockUnits ELSE arg
WriteProtected(u) == ~ profile.large /\ GroupOf(u) \in card.wp
CsdProtected == card.csd \cap {"permanent", "temporary"} # {}
SwitchProtected == profile.lilygo /\ ~ lil.writable

(* Bits that a response with the status clears; WP_VIOLATION is one of     *)
(* them, so that CMD24 reports it and then takes the data all the same.    *)
ClearedByRead == {"address", "wp"}

(* Outcome of a command: the response, the registers and the status.       *)
Out(r, c, st) == [r |-> r, c |-> c, st |-> st]
Taken == [card EXCEPT !.acmd = FALSE]
Illegal(c) == Out("illegal", c, status)
R1(c) == Out("r1", c, status)
In(states, outcome) == IF card.state \in states THEN outcome ELSE Illegal(Taken)

Receiving(c, start, length) ==
  [c EXCEPT !.state = "receivingdata", !.start = start, !.offset = 0,
            !.size = IF length = 0 THEN BlockUnits ELSE length]
ToReceiving(c, start, length) == In({"transfer"}, R1(Receiving(c, start, length)))

(* A length of 0 leaves that of the data before.  The check of the state   *)
(* has no effect.                                                          *)
ToSending(c, start, length) ==
  R1([c EXCEPT !.state = "sendingdata", !.start = start, !.offset = 0,
               !.size = IF length = 0 THEN @ ELSE length])

----------------------------------------------------------------------------
(* The commands' handlers; Taken is the card that no longer expects an     *)
(* application command.                                                    *)

DataTransferMode ==
  {"standby", "transfer", "sendingdata", "receivingdata"}

GoIdle ==
  Out(IF profile.spi THEN "r1" ELSE "r0",
      IF card.state = "inactive" THEN Taken ELSE ResetOf(Taken),
      IF card.state = "inactive" THEN status ELSE {})
SpiSendOpCond == R1([Taken EXCEPT !.state = "transfer"])
AllSendCid == In({"ready"}, Out("r2", [Taken EXCEPT !.state = "identification"], status))
SendRelativeAddr ==
  In({"identification", "standby"}, Out("r6", [Taken EXCEPT !.state = "standby"], status))
SwitchFunction == In({"transfer"}, ToSending(Taken, 0, 1))
SelectCard(same) ==
  CASE card.state = "standby" ->
         IF same THEN R1([Taken EXCEPT !.state = "transfer"]) ELSE Out("r0", Taken, status)
    [] card.state \in {"transfer", "sendingdata"} /\ ~ same ->
         R1([Taken EXCEPT !.state = "standby"])
    [] OTHER -> Illegal(Taken)
SendIfCond == In({"idle"}, Out("r7", Taken, status))
SpiSendRegister(arg) == In({"transfer"}, ToSending(Taken, Address(arg), 1))
SendRegister(same) == In({"standby"}, Out(IF same THEN "r2" ELSE "r0", Taken, status))
StopTransmission == In({"sendingdata", "receivingdata"}, R1([Taken EXCEPT !.state = "transfer"]))
SendStatus(same) ==
  In(DataTransferMode, IF profile.spi \/ same THEN R1(Taken) ELSE Out("r0", Taken, status))
GoInactive(same) ==
  In(DataTransferMode, Out("r0", [Taken EXCEPT !.state = IF same THEN "inactive" ELSE @], status))
BlockLenUnchecked(length) == In({"transfer"}, R1([Taken EXCEPT !.blkLen = length])) \* seeded fault
SetBlockLen(length) ==
  In({"transfer"}, R1(IF length > BlockUnits THEN Taken ELSE [Taken EXCEPT !.blkLen = length]))

(* A command whose address lies outside of the card reports it.            *)
At(arg, length, outcome) ==
  In({"transfer"}, IF InRange(Address(arg), length) THEN outcome
                   ELSE Out("r1", Taken, status \cup {"address"}))
ReadSingleBlock(arg) == At(arg, card.blkLen, ToSending(Taken, Address(arg), card.blkLen))
ReadMultipleBlock(arg) ==
  At(arg, card.blkLen,
     R1([Taken EXCEPT !.state = "sendingdata", !.start = Address(arg), !.offset = 0]))
SendTuningBlock == ToSending(Taken, 0, 1)
SetBlockCount(n) == In({"transfer"}, R1([Taken EXCEPT !.multi = n]))

Violation(arg) == IF WriteProtected(Address(arg)) \/ CsdProtected THEN {"wp"} ELSE {}
WriteSingleBlock(arg) ==
  At(arg, card.blkLen,
     Out("r1", Receiving([Taken EXCEPT !.written = 0], Address(arg), card.blkLen),
         status \cup Violation(arg)))
WriteMultipleBlock(arg) ==
  At(arg, card.blkLen,
     Out("r1", [Taken EXCEPT !.state = "receivingdata", !.start = Address(arg), !.offset = 0,
                            !.written = 0],
         status \cup Violation(arg)))
ProgramCsd == ToReceiving(Taken, 0, 1)
SetWriteProt(arg, protect) ==
  IF profile.large THEN Illegal(Taken)
  ELSE At(arg, 1, R1([Taken EXCEPT !.wp = IF protect THEN @ \cup {GroupOf(Address(arg))}
                                         ELSE @ \ {GroupOf(Address(arg))}]))
SendWriteProt(arg) ==
  IF profile.large THEN Illegal(Taken)
  ELSE At(arg, card.blkLen, ToSending(Taken, Address(arg), 1))
EraseStart(arg) == In({"transfer"}, R1([Taken EXCEPT !.from = arg]))
EraseEnd(arg) == In({"transfer"}, R1([Taken EXCEPT !.to = arg]))

(* CMD38 does nothing but report when it is protected or misses its ends.  *)
EraseFrom == IF Capacity THEN card.from * BlockUnits ELSE card.from
EraseTo == IF Capacity THEN card.to * BlockUnits ELSE card.to
EraseValid ==
  /\ card.state = "transfer" /\ ~ CsdProtected /\ None \notin {card.from, card.to}
  /\ EraseFrom <= Units /\ EraseTo <= Units
EraseBlocks ==
  In({"transfer"},
     IF CsdProtected THEN Out("r1", Taken, status \cup {"wp"})
     ELSE R1([Taken EXCEPT !.from = None, !.to = None,
                           !.csd = IF EraseValid THEN @ \cup {"copy"} ELSE @]))

LockUnlock == ToReceiving(Taken, 0, 0)
AppCmd(same) ==
  IF card.state \in {"ready", "identification", "inactive"} THEN Illegal(Taken)
  ELSE IF ~ profile.spi /\ ~ same THEN Out("r0", Taken, status)
  ELSE R1([Taken EXCEPT !.acmd = TRUE])
GenCmd(reading) == In({"transfer"}, IF reading THEN ToSending(Taken, 0, 0) ELSE LockUnlock)

(* ACMD41: the first one powers the card up, at once or, as an enquiry,    *)
(* when the timer fires.                                                   *)
TimerKept == card.timer \* seeded fault: the timer runs on
TimerAfterPowerUp == FALSE
SendOpCond(voltages) ==
  IF profile.spi THEN SpiSendOpCond
  ELSE In({"idle"},
    Out("r3", [Taken EXCEPT
           !.powered = @ \/ voltages,
           !.timer = IF card.powered THEN @ ELSE IF voltages THEN TimerAfterPowerUp ELSE TRUE,
           !.state = IF voltages THEN "ready" ELSE @], status))

Handled(cmd, arg) ==
  CASE cmd = 0 -> GoIdle
    [] cmd = 1 /\ profile.spi -> SpiSendOpCond
    [] cmd = 2 /\ ~ profile.spi -> AllSendCid
    [] cmd = 3 /\ ~ profile.spi -> SendRelativeAddr
    [] cmd = 6 -> SwitchFunction
    [] cmd = 7 /\ ~ profile.spi -> SelectCard(arg = 0)
    [] cmd = 8 -> SendIfCond
    [] cmd \in {9, 10} -> IF profile.spi THEN SpiSendRegister(arg) ELSE SendRegister(arg = 0)
    [] cmd = 12 -> StopTransmission
    [] cmd = 13 -> SendStatus(arg = 0)
    [] cmd = 15 /\ ~ profile.spi -> GoInactive(arg = 0)
    [] cmd = 16 -> SetBlockLen(arg)
    [] cmd = 17 -> ReadSingleBlock(arg)
    [] cmd = 18 -> ReadMultipleBlock(arg)
    [] cmd = 19 /\ ~ profile.spi -> SendTuningBlock
    [] cmd = 23 /\ ~ profile.spi -> SetBlockCount(arg)
    [] cmd = 24 -> WriteSingleBlock(arg)
    [] cmd = 25 -> WriteMultipleBlock(arg)
    [] cmd = 27 -> ProgramCsd
    [] cmd \in {28, 29} -> SetWriteProt(arg, cmd = 28)
    [] cmd = 30 -> SendWriteProt(arg)
    [] cmd = 32 -> EraseStart(arg)
    [] cmd = 33 -> EraseEnd(arg)
    [] cmd = 38 -> EraseBlocks
    [] cmd = 42 -> LockUnlock
    [] cmd = 55 -> AppCmd(arg = 0)
    [] cmd = 56 -> GenCmd(arg = 0)
    [] cmd \in {58, 59} /\ profile.spi -> Out(IF cmd = 58 THEN "r3" ELSE "r1", Taken, status)
    [] OTHER -> Illegal(Taken)

(* A command other than CMD18 and CMD25 cancels the count of CMD23.        *)
KeepsAlways(cmd) == TRUE \* seeded fault
KeepsCount(cmd) == cmd \in {18, 25}
Normal(cmd, arg) ==
  LET o == Handled(cmd, arg)
  IN  IF KeepsCount(cmd) \/ (cmd = 23 /\ o.r = "r1") THEN o ELSE [o EXCEPT !.c.multi = 0]

Application(cmd, arg) ==
  CASE cmd = 6 /\ ~ profile.spi -> In({"transfer"}, R1(Taken))
    [] cmd \in {13, 22, 51} -> ToSending(Taken, 0, 1)
    [] cmd \in {23, 42} -> In({"transfer"}, R1(Taken))
    [] cmd = 41 -> SendOpCond(arg = 0)
    [] cmd \in {18, 25, 26, 38} \cup 43..49 -> Illegal(Taken)
    [] OTHER -> Normal(cmd, arg)

ValidNormally(cmd) == cmd \in {0, 1, 2, 3, 7, 8, 9, 10, 12, 13, 15, 16, 42, 55, 58, 59}
ValidWhileLocked(cmd) == IF card.acmd THEN cmd \in {41, 42} ELSE ValidNormally(cmd)

Reaches(cmd) ==
  card.state # "inactive" /\ ("locked" \in status => ValidWhileLocked(cmd))
Outcome(cmd, arg) ==
  IF card.state = "inactive" THEN Illegal(card)
  ELSE IF ~ Reaches(cmd) THEN Illegal(Taken)
  ELSE IF card.acmd THEN Application(cmd, arg) ELSE Normal(cmd, arg)

(* The response: what it leaves behind.                                    *)
Responds(cmd, o) ==
  /\ card' = [o.c EXCEPT !.current = IF o.r = "illegal" THEN 0 ELSE cmd,
                         !.start = IF o.r = "r0" THEN 0 ELSE @,
                         !.offset = IF o.r = "r0" THEN 0 ELSE @]
  /\ status' = IF o.r = "r1" THEN o.st \ ClearedByRead ELSE o.st

----------------------------------------------------------------------------
(* sd_do_command.                                                          *)

OnceOf == [read |-> "readOnce", write |-> "writeOnce"]
Fault(kind) == {kind, OnceOf[kind]} \cap lil.faults # {}
UsedUp(kind) == lil' = [lil EXCEPT !.faults = @ \ {OnceOf[kind]}]
FaultyRead(cmd) == profile.lilygo /\ cmd \in {17, 18} /\ Fault("read")
RefusedWrite(cmd) ==
  profile.lilygo /\ cmd \in {24, 25} /\ (~ lil.writable \/ Fault("write"))

Sends(cmd) ==
  /\ aborted = "no" /\ Inserted
  /\ cmd \in IF card.acmd THEN profile.acmds ELSE profile.commands

(* No response at all.                                                     *)
ReadFault(cmd) ==
  /\ Sends(cmd) /\ FaultyRead(cmd)
  /\ UsedUp("read")
  /\ UNCHANGED <<profile, card, status, image, saved, asked, aborted>>

(* A refused write is answered as illegal, and the violation stays in the  *)
(* status until a response carries it.                                     *)
WriteRefused(cmd) ==
  /\ Sends(cmd) /\ RefusedWrite(cmd)
  /\ UsedUp("write")
  /\ Responds(cmd, Out("illegal", card, status \cup {"wp"}))
  /\ UNCHANGED <<profile, image, saved, asked, aborted>>

(* sd_blk_write: LilyGo's card keeps the seed of every block it is about   *)
(* to change for the first time; a store behind the end fails.             *)
FirstBlockOnly(u, length) == {BlockOf(u)} \cap {BlockOf(v) : v \in Offsets} \* seeded fault
BlocksOf(u, length) == {BlockOf(v) : v \in Offsets \cap (u..u + length - 1)}
Changed(S, length) ==
  {v \in Offsets : \E u \in S : InRange(u, length) /\ u <= v /\ v < u + length}
Store(S, length) ==
  /\ image' = [v \in Offsets |-> IF v \in Changed(S, length) THEN "new" ELSE image[v]]
  /\ saved' = IF profile.lilygo THEN saved \cup UNION {BlocksOf(u, length) : u \in S} ELSE saved

(* CMD38 skips protected groups; a card the host made read-only is erased  *)
(* like any other.                                                         *)
Erasing(cmd) == cmd = 38 /\ ~ card.acmd /\ Reaches(38) /\ EraseValid
Erased ==
  {u \in EraseFrom..EraseTo :
     (u - EraseFrom) % BlockUnits = 0 /\ (Capacity \/ GroupOf(u) \notin card.wp)}

(* What CMD23 announced is for the CMD18 or CMD25 that follows; ACMD23     *)
(* announces nothing.                                                      *)
Announced(cmd, arg) ==
  CASE cmd = 23 /\ ~ card.acmd /\ card'.current = 23 -> arg
    [] cmd \in {18, 25} -> asked
    [] OTHER -> 0

Command(cmd, arg) ==
  /\ Sends(cmd) /\ ~ FaultyRead(cmd) /\ ~ RefusedWrite(cmd)
  /\ Responds(cmd, Outcome(cmd, arg))
  /\ asked' = Announced(cmd, arg)
  /\ IF Erasing(cmd) THEN Store(Erased, BlockUnits) ELSE UNCHANGED <<image, saved>>
  /\ UNCHANGED <<profile, lil, aborted>>

PowerUp ==
  /\ aborted = "no" /\ card.timer
  /\ IF card.powered THEN aborted' = "timer" /\ card' = [card EXCEPT !.timer = FALSE]
     ELSE UNCHANGED aborted /\ card' = [card EXCEPT !.powered = TRUE, !.timer = FALSE]
  /\ UNCHANGED <<profile, status, image, saved, lil, asked>>

----------------------------------------------------------------------------
(* The data phases: sd_write_byte, sd_read_byte.                           *)

Writing(current) ==
  /\ aborted = "no" /\ Inserted /\ card.state = "receivingdata" /\ card.current = current
  /\ status \cap {"address", "wp"} = {}
Advanced == [card EXCEPT !.offset = @ + 1]
Filled == card.offset + 1 >= card.size
Done(c) == [c EXCEPT !.state = "transfer"]

(* The bytes of a command that are not the last.                           *)
WritePart ==
  /\ \E cmd \in {24, 27, 42, 56} : Writing(cmd)
  /\ ~ Filled
  /\ card' = Advanced
  /\ UNCHANGED <<profile, status, image, saved, lil, asked, aborted>>

WriteBlock ==
  /\ Writing(24) /\ Filled
  /\ Store({card.start}, card.offset + 1)
  /\ card' = Done([Advanced EXCEPT !.written = @ + 1, !.csd = @ \cup {"copy"}])
  /\ UNCHANGED <<profile, status, lil, asked, aborted>>

(* CMD25 checks every block at its first byte.                             *)
BlockBegins == card.offset = 0
Refuses ==
  IF ~ InRange(card.start, card.blkLen) THEN {"address"}
  ELSE IF WriteProtected(card.start) THEN {"wp"} ELSE {}
RefuseBlock ==
  /\ Writing(25) /\ BlockBegins /\ Refuses # {}
  /\ status' = status \cup Refuses
  /\ UNCHANGED <<profile, card, image, saved, lil, asked, aborted>>

LastBlock == card.multi = 1
WriteBlocks ==
  /\ Writing(25) /\ (BlockBegins => Refuses = {})
  /\ IF card.offset + 1 < card.blkLen
     THEN card' = Advanced /\ UNCHANGED <<image, saved>>
     ELSE /\ Store({card.start}, card.offset + 1)
          /\ card' = [card EXCEPT !.written = @ + 1, !.start = @ + card.blkLen, !.offset = 0,
                                  !.csd = @ \cup {"copy"},
                                  !.multi = IF @ = 0 THEN 0 ELSE @ - 1,
                                  !.state = IF LastBlock THEN "transfer" ELSE @]
  /\ asked' = IF card'.state = "transfer" THEN 0 ELSE asked
  /\ UNCHANGED <<profile, status, lil, aborted>>

(* Permanent protection and the copy flag cannot be taken back.            *)
WriteCsd(data) ==
  /\ Writing(27) /\ Filled
  /\ card' = Done([Advanced EXCEPT !.csd = IF @ \cap {"copy", "permanent"} \subseteq data THEN data ELSE @])
  /\ UNCHANGED <<profile, status, image, saved, lil, asked, aborted>>

(* sd_lock_command: the conditions that leave everything as it is, with a  *)
(* failed bit that no command depends on.                                  *)
ForceErases(d) ==
  /\ "locked" \in status /\ card.blkLen = 0 /\ ~ d.set /\ ~ d.clear /\ ~ d.lock
  /\ ~ SwitchProtected /\ "permanent" \notin card.csd
NewLength(d) == (IF card.blkLen = 0 THEN 0 ELSE d.len) - card.pwd
LockFails(d) ==
  \/ card.blkLen = 0 \/ NewLength(d) <= 0
  \/ card.pwd > 0 /\ ~ d.known
  \/ ~ d.set
  \/ d.clear /\ (d.set \/ d.lock)
WriteLock(d) ==
  /\ Writing(42) /\ Filled
  /\ IF d.erase
     THEN IF ForceErases(d)
          THEN /\ card' = Done([Advanced EXCEPT !.wp = {}, !.csd = @ \ {"temporary"}, !.pwd = 0])
               /\ status' = status \ {"locked"}
          ELSE card' = Done(Advanced) /\ UNCHANGED status
     ELSE IF LockFails(d) THEN card' = Done(Advanced) /\ UNCHANGED status
     ELSE /\ card' = Done([Advanced EXCEPT !.pwd = NewLength(d)])
          /\ status' = IF d.lock THEN status \cup {"locked"} ELSE status \ {"locked"}
  /\ UNCHANGED <<profile, image, saved, lil, asked, aborted>>

(* CMD56 takes its bytes and forgets them; for a command that takes none   *)
(* the code claims not to be reached.                                      *)
WriteOther ==
  /\ card.current \notin {24, 25, 27, 42} /\ Writing(card.current)
  /\ card.current = 56 => Filled
  /\ IF card.current = 56 THEN card' = Done(Advanced) /\ UNCHANGED aborted
                          ELSE aborted' = "byte" /\ UNCHANGED card
  /\ UNCHANGED <<profile, status, image, saved, lil, asked>>

Readable ==
  /\ aborted = "no" /\ Inserted /\ card.state = "sendingdata" /\ status \cap {"address", "wp"} = {}
ReadUnit ==
  /\ Readable /\ card.current \in {6, 9, 10, 13, 17, 19, 22, 30, 51, 56}
  /\ card' = IF Filled THEN Done(Advanced) ELSE Advanced
  /\ UNCHANGED <<profile, status, image, saved, lil, asked, aborted>>

ReadLength == IF Capacity THEN BlockUnits ELSE card.blkLen
ReadBlocks ==
  /\ Readable /\ card.current = 18
  /\ IF BlockBegins /\ ~ InRange(card.start, ReadLength)
     THEN status' = status \cup {"address"} /\ UNCHANGED card
     ELSE /\ UNCHANGED status
          /\ card' = IF card.offset + 1 < ReadLength THEN Advanced
                     ELSE [card EXCEPT !.start = @ + ReadLength, !.offset = 0,
                                       !.multi = IF @ = 0 THEN 0 ELSE @ - 1,
                                       !.state = IF LastBlock THEN "transfer" ELSE @]
  /\ asked' = IF card'.state = "transfer" THEN 0 ELSE asked
  /\ UNCHANGED <<profile, image, saved, lil, aborted>>

----------------------------------------------------------------------------
(* lilygo_sd_control: the host, between two bytes.                         *)

Controls(c) == aborted = "no" /\ c \in profile.controls
ColdReset == card' = ResetOf(card) /\ status' = {} /\ asked' = 0
StatusKept == card' = card /\ UNCHANGED <<status, asked>> \* seeded fault: no reset
AfterChange == ColdReset

(* A card that comes back holds the seed again unless the host wants the   *)
(* image preserved.                                                        *)
SetPresent(present) ==
  /\ Controls("present")
  /\ lil' = [lil EXCEPT !.present = present]
  /\ image' = IF ~ lil.present /\ present /\ ~ lil.preserve
              THEN [v \in Offsets |-> IF BlockOf(v) \in saved THEN "seed" ELSE image[v]]
              ELSE image
  /\ AfterChange
  /\ UNCHANGED <<profile, saved, aborted>>

SetWritable(writable) ==
  /\ Controls("writable")
  /\ lil' = [lil EXCEPT !.writable = writable]
  /\ AfterChange
  /\ UNCHANGED <<profile, image, saved, aborted>>

SetInsertPolicy(preserve) ==
  /\ Controls("policy")
  /\ lil' = [lil EXCEPT !.preserve = preserve]
  /\ AfterChange
  /\ UNCHANGED <<profile, image, saved, aborted>>

SetFault(fault, on) == \* the controls name the faults the host arms
  /\ Controls(fault)
  /\ lil' = [lil EXCEPT !.faults = IF on THEN @ \cup {fault} ELSE @ \ {fault}]
  /\ UNCHANGED <<profile, card, status, image, saved, asked, aborted>>

ControlReset ==
  /\ Controls("reset")
  /\ lil' = Defaults
  /\ ColdReset
  /\ UNCHANGED <<profile, image, saved, aborted>>

----------------------------------------------------------------------------
ArgsOf(cmd) == IF cmd \in DOMAIN profile.args THEN profile.args[cmd] ELSE {0}
FaultNames == {"read", "readOnce", "write", "writeOnce"}

Next ==
  \/ \E cmd \in profile.commands \cup profile.acmds : \E arg \in ArgsOf(cmd) : Command(cmd, arg)
  \/ \E cmd \in {17, 18} : ReadFault(cmd)
  \/ \E cmd \in {24, 25} : WriteRefused(cmd)
  \/ PowerUp
  \/ WritePart \/ WriteBlock \/ RefuseBlock \/ WriteBlocks
  \/ \E data \in CsdData : WriteCsd(data)
  \/ \E d \in LockData : WriteLock(d)
  \/ WriteOther
  \/ ReadUnit \/ ReadBlocks
  \/ \E b \in BOOLEAN : SetPresent(b) \/ SetWritable(b) \/ SetInsertPolicy(b)
  \/ \E f \in FaultNames, on \in BOOLEAN : SetFault(f, on)
  \/ ControlReset

Spec == Init /\ [][Next]_vars

----------------------------------------------------------------------------
(* Properties.                                                             *)

States == {"inactive", "idle", "ready", "identification", "standby", "transfer", "sendingdata",
           "receivingdata"}

(* The buffer of 512 bytes is never left, whichever lengths the commands   *)
(* have set and wherever a data phase was cut off.                         *)
TypeOK ==
  /\ card.state \in States /\ card.blkLen \in 0..BlockUnits /\ card.size \in 0..BlockUnits
  /\ card.offset \in Nat
  /\ card.state \in {"sendingdata", "receivingdata"} => card.offset < BlockUnits
  /\ status \subseteq {"address", "wp", "locked"}
  /\ image \in [Offsets -> {"seed", "new"}]
  /\ lil.faults \subseteq FaultNames

(* Whatever was written or erased, the host can have the seed back: every  *)
(* changed half block lies in a block whose seed was kept, so that a card  *)
(* that is taken out and put back holds the seed.                          *)
SeedKept ==
  profile.lilygo => \A u \in Offsets : image[u] = "new" => BlockOf(u) \in saved

(* A write of several blocks takes as many as the CMD23 right before it    *)
(* announced, and goes on until it is stopped when there was none.         *)
Counted ==
  card.state = "receivingdata" /\ card.current = 25 =>
    IF asked = 0 THEN card.multi = 0
    ELSE card.multi > 0 /\ card.written + card.multi = asked

(* Nothing the guest writes reaches a card the host has made read-only,    *)
(* whatever was under way when it did; erasing it is not refused.          *)
ReadOnlyKept ==
  [][ \A u \in Offsets :
        profile.lilygo /\ ~ lil.writable /\ image[u] = "seed" /\ image'[u] = "new"
          => card'.current = 38 ]_vars

(* The enquiry's power-up timer always finds the card without power, with  *)
(* whatever commands, resets and cards taken out since the enquiry: the    *)
(* assertion of sd_ocr_powerup holds.                                      *)
TimerFindsNoPower == aborted # "timer"

(* A data byte always finds a command that takes data: sd_write_byte ends  *)
(* its switch over the current command in g_assert_not_reached.            *)
ByteFindsItsCommand == aborted # "byte"
=============================================================================
