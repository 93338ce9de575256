------------------------------ MODULE SdCardProofs ------------------------------
(***************************************************************************)
(* The card keeps its promises for every set of profiles, commands and     *)
(* arguments a host may send.  A handler is summed up by Fits: what any    *)
(* command of either class does to the registers.  SdInv, the invariant    *)
(* built on it, is inductive, and every promise of the card follows from   *)
(* it, that its power-up timer asserts nothing among them.                 *)
(***************************************************************************)
EXTENDS SdCard, TLAPS

Responses == {"illegal", "r0", "r1", "r2", "r3", "r6", "r7"}
StatusBits == {"address", "wp", "locked"}
CardType ==
  [state : States, powered : BOOLEAN, timer : BOOLEAN, acmd : BOOLEAN, current : Nat,
   blkLen : 0..BlockUnits, start : Nat, offset : Nat, size : 0..BlockUnits, multi : Nat,
   written : Nat, from : Nat \cup {None}, to : Nat \cup {None}, wp : SUBSET Int,
   csd : SUBSET CsdBits, pwd : Int]
OutType == [r : Responses, c : CardType, st : SUBSET StatusBits]

(* The power-up timer waits for a card without power; SPI's has it.        *)
Timed(c) == (c.timer => ~ c.powered) /\ (profile.spi => c.powered)
(* A data phase is inside of the buffer.                                   *)
Buffered(c) == c.state \in {"sendingdata", "receivingdata"} => c.offset < BlockUnits

CardInv ==
  /\ profile \in Profiles /\ card \in CardType /\ status \subseteq StatusBits
  /\ Timed(card) /\ Buffered(card)

----------------------------------------------------------------------------
(* What a handler does to the registers, whatever the command.             *)
Fits(cmd, arg, o) ==
  /\ o \in OutType /\ ("locked" \in o.st => "locked" \in status)
  /\ Timed(o.c) /\ Buffered(o.c)
  /\ o.c.acmd => cmd = 55
  /\ o.c.state = "receivingdata" =>
       \/ card.state = "receivingdata" /\ cmd \notin {0, 12}
       \/ card.state = "transfer" /\ cmd \in {24, 25, 27, 42, 56} /\ o.r = "r1" /\ ~ o.c.acmd
  /\ cmd = 23 => o.r \in {"illegal", "r1"} /\ (o.r = "r1" => o.c.multi = arg)
  /\ cmd \in {18, 25} =>
       /\ o.c.multi = card.multi
       /\ o.c.state = "transfer" => card.state = "transfer"
  /\ cmd = 25 /\ o.r # "illegal" =>
       card.state = "transfer" /\ (o.c.state = "receivingdata" => o.c.written = 0)

LEMMA TakenIsCard ==
  ASSUME CardInv
  PROVE  /\ Taken \in CardType /\ ~ Taken.acmd
         /\ \A f \in {"state", "powered", "timer", "blkLen", "start", "offset", "size", "multi",
                      "from", "to", "wp", "csd", "pwd", "written", "current"} : Taken[f] = card[f]
BY DEF CardInv, CardType, Taken

(* An outcome that leaves the state, or leads to one that takes no data.   *)
LEMMA PlainFits ==
  ASSUME CardInv, NEW cmd \in Nat, NEW arg, NEW c \in CardType, NEW r \in Responses,
         NEW st \in SUBSET StatusBits, "locked" \in st => "locked" \in status,
         Timed(c), Buffered(c), c.acmd => cmd = 55,
         c.state = "receivingdata" => card.state = "receivingdata" /\ cmd \notin {0, 12},
         cmd = 23 => r = "illegal",
         cmd \in {18, 25} => c.multi = card.multi /\ (c.state = "transfer" => card.state = "transfer"),
         cmd = 25 => r = "illegal" \/ (card.state = "transfer" /\ c.state = "transfer")
  PROVE  Fits(cmd, arg, Out(r, c, st))
BY DEF Fits, Out, OutType

LEMMA IllegalFits ==
  ASSUME CardInv, NEW cmd \in Nat, NEW arg,
         cmd \in {0, 12} => card.state # "receivingdata"
  PROVE  Fits(cmd, arg, Illegal(Taken))
<1> DEFINE c == Taken
<1>1. /\ c \in CardType /\ c.acmd = FALSE /\ c.state = card.state /\ c.multi = card.multi
      /\ c.offset = card.offset /\ c.powered = card.powered /\ c.timer = card.timer
  BY TakenIsCard DEF CardType
<1>2. Timed(c) /\ Buffered(c) /\ status \in SUBSET StatusBits /\ "illegal" \in Responses
  BY <1>1 DEF Timed, Buffered, CardInv, Responses
<1> HIDE DEF c
<1>3. Fits(cmd, arg, Out("illegal", c, status))
  BY <1>1, <1>2, PlainFits
<1> QED BY <1>3 DEF c, Illegal

LEMMA InFits ==
  ASSUME CardInv, NEW cmd \in Nat, NEW arg, NEW S, NEW o,
         cmd \in {0, 12} => "receivingdata" \in S,
         card.state \in S => Fits(cmd, arg, o)
  PROVE  Fits(cmd, arg, In(S, o))
BY IllegalFits DEF In

LEMMA AddressIsNat == ASSUME CardInv, NEW arg \in Nat PROVE Address(arg) \in Nat
BY DEF Address, BlockUnits
LEMMA GroupIsInt == ASSUME NEW u \in Nat PROVE GroupOf(u) \in Int
BY CardAssumption DEF GroupOf

LEMMA ProfileIs == ASSUME CardInv PROVE {profile.spi, profile.large, profile.lilygo} \subseteq BOOLEAN
BY HostAssumption DEF CardInv

LEMMA MovedFits ==
  ASSUME CardInv, NEW cmd \in Nat \ {18, 23, 25}, NEW arg, NEW r \in Responses,
         NEW s \in States \ {"sendingdata", "receivingdata"}
  PROVE  Fits(cmd, arg, Out(r, [Taken EXCEPT !.state = s], status))
<1> DEFINE c == [Taken EXCEPT !.state = s]
<1>1. /\ c \in CardType /\ c.acmd = FALSE /\ c.state = s
      /\ c.powered = card.powered /\ c.timer = card.timer
  BY TakenIsCard DEF CardType, States
<1>2. Timed(c) /\ Buffered(c) /\ status \in SUBSET StatusBits
  BY <1>1 DEF Timed, Buffered, CardInv
<1> HIDE DEF c
<1>3. Fits(cmd, arg, Out(r, c, status))
  BY <1>1, <1>2, PlainFits
<1> QED BY <1>3 DEF c

LEMMA TakenFits ==
  ASSUME CardInv, NEW cmd \in Nat \ {23}, NEW arg, NEW r \in Responses, NEW st \in SUBSET StatusBits,
         "locked" \in st => "locked" \in status,
         card.state = "receivingdata" => cmd \notin {0, 12},
         cmd = 25 => r = "illegal" \/ card.state = "transfer"
  PROVE  Fits(cmd, arg, Out(r, Taken, st))
<1> DEFINE c == Taken
<1>1. /\ c \in CardType /\ c.acmd = FALSE /\ c.state = card.state /\ c.multi = card.multi
      /\ c.offset = card.offset /\ c.powered = card.powered /\ c.timer = card.timer
  BY TakenIsCard DEF CardType
<1>2. Timed(c) /\ Buffered(c)
  BY <1>1 DEF Timed, Buffered, CardInv
<1> HIDE DEF c
<1>3. Fits(cmd, arg, Out(r, c, st))
  BY <1>1, <1>2, PlainFits
<1> QED BY <1>3 DEF c

LEMMA SendFits ==
  ASSUME CardInv, NEW cmd \in Nat \ {18, 23, 25}, NEW arg, NEW start \in Nat,
         NEW length \in 0..BlockUnits
  PROVE  Fits(cmd, arg, ToSending(Taken, start, length))
<1> DEFINE c == [Taken EXCEPT !.state = "sendingdata", !.start = start, !.offset = 0,
                              !.size = IF length = 0 THEN @ ELSE length]
<1>1. /\ c \in CardType /\ c.acmd = FALSE /\ c.state = "sendingdata" /\ c.offset = 0
      /\ c.powered = card.powered /\ c.timer = card.timer
  BY TakenIsCard DEF CardType, States, BlockUnits
<1>2. Timed(c) /\ Buffered(c) /\ status \in SUBSET StatusBits /\ "r1" \in Responses
  BY <1>1 DEF Timed, Buffered, CardInv, Responses, BlockUnits
<1> HIDE DEF c
<1>3. Fits(cmd, arg, Out("r1", c, status))
  BY <1>1, <1>2, PlainFits
<1> QED BY <1>3 DEF c, ToSending, R1

(* A command that begins to take data, from a card that transfers.         *)
LEMMA TakesFits ==
  ASSUME CardInv, card.state = "transfer", NEW cmd \in {24, 25, 27, 42, 56}, NEW arg,
         NEW c \in CardType, c.state = "receivingdata", c.offset = 0, ~ c.acmd,
         c.powered = card.powered, c.timer = card.timer, c.multi = card.multi,
         cmd = 25 => c.written = 0, NEW st \in SUBSET StatusBits,
         "locked" \in st => "locked" \in status
  PROVE  Fits(cmd, arg, Out("r1", c, st))
BY DEF Fits, Out, OutType, Responses, Timed, Buffered, CardInv, BlockUnits

LEMMA ReceivingIs ==
  ASSUME NEW c \in CardType, NEW start \in Nat, NEW length \in 0..BlockUnits
  PROVE  LET d == Receiving(c, start, length)
         IN  /\ d \in CardType /\ d.state = "receivingdata" /\ d.offset = 0 /\ d.acmd = c.acmd
             /\ d.powered = c.powered /\ d.timer = c.timer /\ d.multi = c.multi
<1> DEFINE size == IF length = 0 THEN BlockUnits ELSE length
<1>1. size \in 0..BlockUnits /\ "receivingdata" \in States /\ 0 \in Nat
  BY DEF BlockUnits, States
<1>2. Receiving(c, start, length) =
        [c EXCEPT !.state = "receivingdata", !.start = start, !.offset = 0, !.size = size]
  BY DEF Receiving
<1> HIDE DEF size
<1> QED BY <1>1, <1>2 DEF CardType

LEMMA ReceiveFits ==
  ASSUME CardInv, NEW cmd \in {27, 42, 56}, NEW arg, NEW start \in Nat,
         NEW length \in 0..BlockUnits
  PROVE  Fits(cmd, arg, ToReceiving(Taken, start, length))
<1> DEFINE c == Receiving(Taken, start, length)
<1>1. /\ c \in CardType /\ ~ c.acmd /\ c.state = "receivingdata" /\ c.offset = 0
      /\ c.powered = card.powered /\ c.timer = card.timer /\ c.multi = card.multi
  BY TakenIsCard, ReceivingIs
<1>2. status \in SUBSET StatusBits
  BY DEF CardInv
<1> HIDE DEF c
<1>3. card.state \in {"transfer"} => Fits(cmd, arg, R1(c))
  BY <1>1, <1>2, TakesFits DEF R1
<1> QED BY <1>3, InFits DEF c, ToReceiving

(* A command at an address.                                                *)
LEMMA AtFits ==
  ASSUME CardInv, NEW cmd \in Nat \ {0, 12, 23}, NEW arg, NEW length, NEW o,
         card.state = "transfer" => Fits(cmd, arg, o)
  PROVE  Fits(cmd, arg, At(arg, length, o))
<1>1. status \cup {"address"} \in SUBSET StatusBits /\ "r1" \in Responses
  BY DEF CardInv, StatusBits, Responses
<1>2. card.state = "transfer" => Fits(cmd, arg, Out("r1", Taken, status \cup {"address"}))
  BY <1>1, TakenFits
<1> QED BY <1>2, InFits DEF At

LEMMA ResetIs ==
  ASSUME CardInv, NEW c \in CardType
  PROVE  LET d == ResetOf(c)
         IN  /\ d \in CardType /\ d.acmd = FALSE /\ d.state = "idle" /\ d.powered = profile.spi
             /\ d.timer = c.timer /\ d.multi = 0
<1>1. /\ profile.spi \in BOOLEAN /\ "idle" \in States /\ BlockUnits \in 0..BlockUnits
      /\ None \in Nat \cup {None} /\ {} \in SUBSET Int /\ {} \in SUBSET CsdBits
  BY ProfileIs DEF BlockUnits, States
<1> DEFINE b == [c EXCEPT !.state = "idle", !.powered = profile.spi, !.csd = {}, !.wp = {},
                          !.from = None, !.to = None]
<1>2. b \in CardType /\ b.state = "idle" /\ b.powered = profile.spi /\ b.timer = c.timer
  BY <1>1 DEF CardType
<1> DEFINE d == [b EXCEPT !.blkLen = BlockUnits, !.acmd = FALSE]
           e == [d EXCEPT !.pwd = 0]
           f == [e EXCEPT !.multi = 0]
<1>3. ResetOf(c) = f
  BY DEF ResetOf, CardType
<1> HIDE DEF b
<1>4. d \in CardType /\ d.acmd = FALSE /\ d.state = "idle" /\ d.powered = profile.spi
      /\ d.timer = c.timer
  BY <1>1, <1>2 DEF CardType, BlockUnits
<1> HIDE DEF d
<1>5. e \in CardType /\ e.acmd = FALSE /\ e.state = "idle" /\ e.powered = profile.spi
      /\ e.timer = c.timer
  BY <1>4 DEF CardType
<1> HIDE DEF e
<1>6. f \in CardType /\ f.acmd = FALSE /\ f.state = "idle" /\ f.powered = profile.spi
      /\ f.timer = c.timer /\ f.multi = 0
  BY <1>5 DEF CardType
<1> HIDE DEF f
<1> QED BY <1>3, <1>6

LEMMA HandledFits ==
  ASSUME CardInv, NEW cmd \in Nat, NEW arg \in Nat
  PROVE  Fits(cmd, arg, Handled(cmd, arg))
<1>0. /\ Taken \in CardType /\ {profile.spi, profile.large, profile.lilygo} \subseteq BOOLEAN
      /\ Address(arg) \in Nat /\ GroupOf(Address(arg)) \in Int
      /\ status \in SUBSET StatusBits /\ card \in CardType
      /\ {"illegal", "r0", "r1", "r2", "r3", "r6", "r7"} \subseteq Responses
      /\ card.blkLen \in 0..BlockUnits /\ {0, 1} \subseteq 0..BlockUnits /\ 0 \in Nat
      /\ {"inactive", "idle", "ready", "identification", "standby", "transfer"} \subseteq
           States \ {"sendingdata", "receivingdata"}
  BY TakenIsCard, ProfileIs, AddressIsNat, GroupIsInt
     DEF CardInv, Responses, CardType, BlockUnits, States
<1>1. CASE cmd = 0
  <2>1. CASE card.state = "inactive"
    <3>1. \A r \in Responses : Fits(cmd, arg, Out(r, Taken, status))
      BY <1>0, <1>1, <2>1, TakenFits
    <3> QED BY <1>0, <1>1, <2>1, <3>1 DEF Handled, GoIdle
  <2>2. CASE card.state # "inactive"
    <3> DEFINE c == ResetOf(Taken)
    <3>1. /\ c \in CardType /\ c.acmd = FALSE /\ c.state = "idle" /\ c.powered = profile.spi
          /\ c.timer = card.timer
      BY <1>0, TakenIsCard, ResetIs
    <3>2. Timed(c) /\ Buffered(c) /\ {} \in SUBSET StatusBits
      BY <1>0, <3>1 DEF Timed, Buffered, CardInv
    <3> HIDE DEF c
    <3>3. \A r \in Responses : Fits(cmd, arg, Out(r, c, {}))
      BY <1>1, <3>1, <3>2, PlainFits
    <3> QED BY <1>0, <1>1, <2>2, <3>3 DEF Handled, GoIdle, c
  <2> QED BY <2>1, <2>2
<1>2. CASE cmd = 1
  BY <1>0, <1>2, MovedFits, IllegalFits DEF Handled, SpiSendOpCond, R1
<1>3. CASE cmd \in {2, 3}
  BY <1>0, <1>3, MovedFits, IllegalFits, InFits DEF Handled, AllSendCid, SendRelativeAddr
<1>4. CASE cmd = 6
  BY <1>0, <1>4, SendFits, InFits DEF Handled, SwitchFunction
<1>5. CASE cmd = 7
  <2>1. /\ Fits(cmd, arg, Illegal(Taken)) /\ Fits(cmd, arg, Out("r0", Taken, status))
        /\ \A s \in {"transfer", "standby"} : Fits(cmd, arg, R1([Taken EXCEPT !.state = s]))
    BY <1>0, <1>5, MovedFits, TakenFits, IllegalFits DEF R1
  <2>2. Handled(cmd, arg) = IF ~ profile.spi THEN SelectCard(arg = 0) ELSE Illegal(Taken)
    BY <1>5 DEF Handled
  <2> QED BY <2>1, <2>2 DEF SelectCard
<1>6. CASE cmd = 8
  BY <1>0, <1>6, TakenFits, InFits DEF Handled, SendIfCond
<1>7. CASE cmd \in {9, 10}
  BY <1>0, <1>7, SendFits, TakenFits, InFits DEF Handled, SpiSendRegister, SendRegister
<1>8. CASE cmd = 12
  <2>1. Fits(cmd, arg, R1([Taken EXCEPT !.state = "transfer"]))
    BY <1>0, <1>8, MovedFits DEF R1
  <2> QED BY <1>8, <2>1, InFits DEF Handled, StopTransmission
<1>9. CASE cmd = 13
  <2>1. Fits(cmd, arg, R1(Taken)) /\ Fits(cmd, arg, Out("r0", Taken, status))
    BY <1>0, <1>9, TakenFits DEF R1
  <2> QED BY <1>9, <2>1, InFits DEF Handled, SendStatus
<1>10. CASE cmd = 15
  <2>1. Fits(cmd, arg, Out("r0", [Taken EXCEPT !.state = "inactive"], status))
    BY <1>0, <1>10, MovedFits
  <2>2. Fits(cmd, arg, Out("r0", Taken, status)) /\ Fits(cmd, arg, Illegal(Taken))
    BY <1>0, <1>10, TakenFits, IllegalFits
  <2>3. [Taken EXCEPT !.state = @] = Taken
    BY <1>0 DEF CardType
  <2>4. Fits(cmd, arg, Out("r0", [Taken EXCEPT !.state = IF arg = 0 THEN "inactive" ELSE @], status))
    BY <2>1, <2>2, <2>3
  <2> QED BY <1>10, <2>2, <2>4, InFits DEF Handled, GoInactive
<1>11. CASE cmd = 16
  <2> DEFINE c == IF arg > BlockUnits THEN Taken ELSE [Taken EXCEPT !.blkLen = arg]
  <2>1. /\ c \in CardType /\ ~ c.acmd /\ c.state = card.state /\ c.offset = card.offset
        /\ c.powered = card.powered /\ c.timer = card.timer
    BY <1>0, TakenIsCard DEF CardType, BlockUnits
  <2>2. Timed(c) /\ Buffered(c)
    BY <2>1 DEF Timed, Buffered, CardInv
  <2> HIDE DEF c
  <2>3. Fits(cmd, arg, R1(c))
    BY <1>0, <1>11, <2>1, <2>2, PlainFits DEF R1
  <2> QED BY <1>11, <2>3, InFits DEF Handled, SetBlockLen, c
<1>12. CASE cmd = 17
  BY <1>0, <1>12, SendFits, AtFits DEF Handled, ReadSingleBlock
<1>13. CASE cmd = 18
  <2> DEFINE c == [Taken EXCEPT !.state = "sendingdata", !.start = Address(arg), !.offset = 0]
  <2>1. /\ c \in CardType /\ ~ c.acmd /\ c.state = "sendingdata" /\ c.offset = 0
        /\ c.powered = card.powered /\ c.timer = card.timer /\ c.multi = card.multi
    BY <1>0, TakenIsCard DEF CardType, States
  <2>2. Timed(c) /\ Buffered(c)
    BY <2>1 DEF Timed, Buffered, CardInv, BlockUnits
  <2> HIDE DEF c
  <2>3. Fits(cmd, arg, R1(c))
    BY <1>0, <1>13, <2>1, <2>2, PlainFits DEF R1
  <2> QED BY <1>13, <2>3, AtFits DEF Handled, ReadMultipleBlock, c
<1>14. CASE cmd = 19
  <2>1. Fits(cmd, arg, SendTuningBlock) /\ Fits(cmd, arg, Illegal(Taken))
    BY <1>0, <1>14, SendFits, IllegalFits DEF SendTuningBlock
  <2> QED BY <1>14, <2>1 DEF Handled
<1>15. CASE cmd = 23
  <2> DEFINE c == [Taken EXCEPT !.multi = arg]
  <2>1. /\ c \in CardType /\ ~ c.acmd /\ c.state = card.state /\ c.offset = card.offset
        /\ c.powered = card.powered /\ c.timer = card.timer /\ c.multi = arg
    BY <1>0, TakenIsCard DEF CardType
  <2>2. Timed(c) /\ Buffered(c)
    BY <2>1 DEF Timed, Buffered, CardInv
  <2> HIDE DEF c
  <2>3. card.state = "transfer" => Fits(cmd, arg, R1(c))
    BY <1>0, <1>15, <2>1, <2>2 DEF R1, Out, OutType, Fits
  <2>4. Fits(cmd, arg, Illegal(Taken)) /\ Fits(cmd, arg, SetBlockCount(arg))
    BY <1>15, <2>3, IllegalFits, InFits DEF SetBlockCount, c
  <2> QED BY <1>15, <2>4 DEF Handled
<1>16. CASE cmd = 24
  <2> DEFINE t == [Taken EXCEPT !.written = 0]
             c == Receiving(t, Address(arg), card.blkLen)
  <2>1. t \in CardType /\ ~ t.acmd /\ t.powered = card.powered /\ t.timer = card.timer
        /\ t.multi = card.multi
    BY <1>0, TakenIsCard DEF CardType
  <2> HIDE DEF t
  <2>0. Address(arg) \in Nat /\ card.blkLen \in 0..BlockUnits
    BY <1>0 DEF CardType
  <2>a. /\ c \in CardType /\ c.acmd = t.acmd /\ c.state = "receivingdata" /\ c.offset = 0
        /\ c.powered = t.powered /\ c.timer = t.timer /\ c.multi = t.multi
    BY <2>0, <2>1, ReceivingIs
  <2>2. /\ c \in CardType /\ ~ c.acmd /\ c.state = "receivingdata" /\ c.offset = 0
        /\ c.powered = card.powered /\ c.timer = card.timer /\ c.multi = card.multi
    BY <2>1, <2>a
  <2> HIDE DEF c
  <2>3. status \cup Violation(arg) \in SUBSET StatusBits
        /\ ("locked" \in status \cup Violation(arg) => "locked" \in status)
    BY <1>0 DEF Violation, StatusBits
  <2>4. card.state = "transfer" => Fits(cmd, arg, Out("r1", c, status \cup Violation(arg)))
    BY <1>16, <2>2, <2>3, TakesFits
  <2> QED BY <1>16, <2>4, AtFits DEF Handled, WriteSingleBlock, c, t
<1>17. CASE cmd = 25
  <2> DEFINE c == [Taken EXCEPT !.state = "receivingdata", !.start = Address(arg), !.offset = 0,
                            !.written = 0]
  <2>2. /\ c \in CardType /\ ~ c.acmd /\ c.state = "receivingdata" /\ c.offset = 0
        /\ c.powered = card.powered /\ c.timer = card.timer /\ c.multi = card.multi
        /\ c.written = 0
    BY <1>0, TakenIsCard DEF CardType, States
  <2> HIDE DEF c
  <2>3. status \cup Violation(arg) \in SUBSET StatusBits
        /\ ("locked" \in status \cup Violation(arg) => "locked" \in status)
    BY <1>0 DEF Violation, StatusBits
  <2>4. card.state = "transfer" => Fits(cmd, arg, Out("r1", c, status \cup Violation(arg)))
    BY <1>17, <2>2, <2>3, TakesFits
  <2> QED BY <1>17, <2>4, AtFits DEF Handled, WriteMultipleBlock, c
<1>18. CASE cmd = 27
  BY <1>0, <1>18, ReceiveFits DEF Handled, ProgramCsd
<1>19. CASE cmd \in {28, 29}
  <2> DEFINE c == [Taken EXCEPT !.wp = IF cmd = 28 THEN @ \cup {GroupOf(Address(arg))}
                                       ELSE @ \ {GroupOf(Address(arg))}]
  <2>1. /\ c \in CardType /\ ~ c.acmd /\ c.state = card.state /\ c.offset = card.offset
        /\ c.powered = card.powered /\ c.timer = card.timer
    BY <1>0, TakenIsCard DEF CardType
  <2>2. Timed(c) /\ Buffered(c)
    BY <2>1 DEF Timed, Buffered, CardInv
  <2> HIDE DEF c
  <2>3. Fits(cmd, arg, R1(c))
    BY <1>0, <1>19, <2>1, <2>2, PlainFits DEF R1
  <2>4. Fits(cmd, arg, At(arg, 1, R1(c))) /\ Fits(cmd, arg, Illegal(Taken))
    BY <1>19, <2>3, AtFits, IllegalFits
  <2>5. Handled(cmd, arg) = SetWriteProt(arg, cmd = 28)
    BY <1>19 DEF Handled
  <2> QED BY <2>4, <2>5 DEF SetWriteProt, c
<1>20. CASE cmd = 30
  BY <1>0, <1>20, SendFits, AtFits, IllegalFits DEF Handled, SendWriteProt
<1>21. CASE cmd \in {32, 33}
  <2> DEFINE c == [Taken EXCEPT !.from = arg]
             d == [Taken EXCEPT !.to = arg]
  <2>1. \A e \in {c, d} :
          /\ e \in CardType /\ ~ e.acmd /\ e.state = card.state /\ e.offset = card.offset
          /\ e.powered = card.powered /\ e.timer = card.timer
    BY <1>0, TakenIsCard DEF CardType
  <2> HIDE DEF c, d
  <2>2. \A e \in {c, d} : Timed(e) /\ Buffered(e)
    BY <2>1 DEF Timed, Buffered, CardInv
  <2>3. Fits(cmd, arg, R1(c)) /\ Fits(cmd, arg, R1(d))
    BY <1>0, <1>21, <2>1, <2>2, PlainFits DEF R1
  <2>4. Fits(cmd, arg, EraseStart(arg)) /\ Fits(cmd, arg, EraseEnd(arg))
    BY <1>21, <2>3, InFits DEF EraseStart, EraseEnd, c, d
  <2> QED BY <1>21, <2>4 DEF Handled
<1>22. CASE cmd = 38
  <2> DEFINE c == [Taken EXCEPT !.from = None, !.to = None,
                           !.csd = IF EraseValid THEN @ \cup {"copy"} ELSE @]
  <2>1. /\ c \in CardType /\ ~ c.acmd /\ c.state = card.state /\ c.offset = card.offset
        /\ c.powered = card.powered /\ c.timer = card.timer
    BY <1>0, TakenIsCard DEF CardType, CsdBits
  <2>2. Timed(c) /\ Buffered(c)
    BY <2>1 DEF Timed, Buffered, CardInv
  <2> HIDE DEF c
  <2>3. Fits(cmd, arg, R1(c))
    BY <1>0, <1>22, <2>1, <2>2, PlainFits DEF R1
  <2>4. status \cup {"wp"} \in SUBSET StatusBits
    BY <1>0 DEF StatusBits
  <2>5. Fits(cmd, arg, Out("r1", Taken, status \cup {"wp"}))
    BY <1>0, <1>22, <2>4, TakenFits
  <2> QED BY <1>22, <2>3, <2>5, InFits DEF Handled, EraseBlocks, c
<1>23. CASE cmd = 42
  BY <1>0, <1>23, ReceiveFits DEF Handled, LockUnlock
<1>24. CASE cmd = 55
  <2> DEFINE c == [Taken EXCEPT !.acmd = TRUE]
  <2>1. /\ c \in CardType /\ c.state = card.state /\ c.offset = card.offset
        /\ c.powered = card.powered /\ c.timer = card.timer
    BY <1>0, TakenIsCard DEF CardType
  <2>2. Timed(c) /\ Buffered(c)
    BY <2>1 DEF Timed, Buffered, CardInv
  <2> HIDE DEF c
  <2>3. Fits(cmd, arg, R1(c))
    BY <1>0, <1>24, <2>1, <2>2, PlainFits DEF R1
  <2>4. Fits(cmd, arg, Illegal(Taken)) /\ Fits(cmd, arg, Out("r0", Taken, status))
    BY <1>0, <1>24, IllegalFits, TakenFits
  <2>5. Handled(cmd, arg) = AppCmd(arg = 0)
    BY <1>24 DEF Handled
  <2> QED BY <2>3, <2>4, <2>5 DEF AppCmd, c
<1>25. CASE cmd = 56
  <2>1. Fits(cmd, arg, ToSending(Taken, 0, 0)) /\ Fits(cmd, arg, LockUnlock)
    BY <1>0, <1>25, SendFits, ReceiveFits DEF LockUnlock
  <2> QED BY <1>25, <2>1, InFits DEF Handled, GenCmd
<1>26. CASE cmd \in {58, 59}
  <2>1. Fits(cmd, arg, Out("r3", Taken, status)) /\ Fits(cmd, arg, Out("r1", Taken, status))
        /\ Fits(cmd, arg, Illegal(Taken))
    BY <1>0, <1>26, TakenFits, IllegalFits
  <2> QED BY <1>26, <2>1 DEF Handled
<1>27. CASE cmd \notin {0, 1, 2, 3, 6, 7, 8, 9, 10, 12, 13, 15, 16, 17, 18, 19, 23, 24, 25, 27, 28, 29,
                        30, 32, 33, 38, 42, 55, 56, 58, 59}
  BY <1>27, IllegalFits DEF Handled
<1> QED
  BY <1>1, <1>2, <1>3, <1>4, <1>5, <1>6, <1>7, <1>8, <1>9, <1>10, <1>11, <1>12, <1>13, <1>14, <1>15,
     <1>16, <1>17, <1>18, <1>19, <1>20, <1>21, <1>22, <1>23, <1>24, <1>25, <1>26, <1>27

----------------------------------------------------------------------------
(* The invariants.                                                         *)
TypeInv ==
  /\ CardInv /\ image \in [Offsets -> {"seed", "new"}]
  /\ lil \in [present : BOOLEAN, writable : BOOLEAN, preserve : BOOLEAN, faults : SUBSET FaultNames]

(* The count of CMD23 is that of the announcement wherever a command could *)
(* begin to use it, and gone where none could.                             *)
Uncounted == {0, 18, 23, 25}
CountInv ==
  /\ asked \in Nat
  /\ card.current \notin Uncounted => card.multi = 0 /\ asked = 0
  /\ card.acmd \/ "locked" \in status => card.multi = 0
  /\ card.state = "transfer" => card.multi = asked
  /\ Counted

(* No write is under way on a card that the host has made read-only.       *)
ReadOnlyInv ==
  profile.lilygo /\ ~ lil.writable /\ card.state = "receivingdata" => card.current \notin {24, 25}

SdInv == TypeInv /\ CountInv /\ ReadOnlyInv /\ SeedKept

KeepsReadOnly ==
  \A u \in Offsets :
    profile.lilygo /\ ~ lil.writable /\ image[u] = "seed" /\ image'[u] = "new" => card'.current = 38

----------------------------------------------------------------------------
(* What a command answers.                                                 *)
Answers(cmd, arg, o) ==
  /\ o \in OutType /\ ("locked" \in o.st => "locked" \in status)
  /\ Timed(o.c) /\ Buffered(o.c)
  /\ o.c.acmd => cmd = 55
  /\ o.c.state = "receivingdata" =>
       \/ card.state = "receivingdata" /\ (cmd \in {0, 12} => card.acmd)
       \/ cmd \in {24, 25, 27, 42, 56} /\ o.r = "r1" /\ ~ o.c.acmd
  /\ cmd \notin {18, 23, 25} => o.c.multi = 0
  /\ cmd = 23 => IF o.r = "illegal" \/ card.acmd THEN o.c.multi = 0
                 ELSE o.c.multi = arg /\ "locked" \notin status
  /\ cmd \in {18, 25} =>
       /\ o.c.multi = card.multi
       /\ o.c.state = "transfer" => card.state = "transfer"
  /\ cmd = 25 /\ o.r # "illegal" =>
       card.state = "transfer" /\ (o.c.state = "receivingdata" => o.c.written = 0)

LEMMA NormalAnswers ==
  ASSUME CardInv, CountInv, NEW cmd \in Nat, NEW arg \in Nat,
         "locked" \in status => ValidNormally(cmd), cmd = 23 => ~ card.acmd
  PROVE  Answers(cmd, arg, Normal(cmd, arg))
<1> DEFINE o == Handled(cmd, arg)
           n == [o EXCEPT !.c.multi = 0]
<1>1. Fits(cmd, arg, o)
  BY HandledFits
<1>2. Normal(cmd, arg) = IF KeepsCount(cmd) \/ (cmd = 23 /\ o.r = "r1") THEN o ELSE n
  BY DEF Normal
<1>3. cmd = 23 => "locked" \notin status
  BY DEF ValidNormally
<1> HIDE DEF o
<1>4. o \in OutType /\ o.c \in CardType
  BY <1>1 DEF Fits, OutType
<1>5. /\ n \in OutType /\ n.r = o.r /\ n.st = o.st /\ n.c.multi = 0
      /\ n.c.state = o.c.state /\ n.c.acmd = o.c.acmd /\ n.c.powered = o.c.powered
      /\ n.c.timer = o.c.timer /\ n.c.offset = o.c.offset /\ n.c.written = o.c.written
  BY <1>4 DEF OutType, CardType
<1> HIDE DEF n
<1>6. Timed(n.c) /\ Buffered(n.c)
  BY <1>1, <1>5 DEF Fits, Timed, Buffered
<1>7. CASE KeepsCount(cmd) \/ (cmd = 23 /\ o.r = "r1")
  BY <1>1, <1>2, <1>3, <1>7 DEF Fits, Answers, KeepsCount, CountInv
<1>8. CASE ~ (KeepsCount(cmd) \/ (cmd = 23 /\ o.r = "r1"))
  BY <1>1, <1>2, <1>3, <1>5, <1>6, <1>8 DEF Fits, Answers, KeepsCount
<1> QED BY <1>7, <1>8

(* What is not a command of the usual kind leaves the count, which is 0.   *)
LEMMA OtherAnswers ==
  ASSUME CardInv, CountInv, NEW cmd \in Nat, NEW arg \in Nat, NEW x \in Nat \ {23}, NEW o,
         Fits(x, arg, o), o.c.multi = card.multi, ~ o.c.acmd,
         cmd \in {18, 25} => o = Illegal(Taken),
         card.acmd \/ "locked" \in status,
         o.c.state = "receivingdata" => card.state = "receivingdata" /\ (cmd \in {0, 12} => card.acmd),
         card.acmd \/ o.r = "illegal"
  PROVE  Answers(cmd, arg, o)
<1>1. card.multi = 0
  BY DEF CountInv
<1>2. cmd \in {18, 25} => o.r = "illegal" /\ o.c.state = card.state
  BY TakenIsCard DEF Illegal, Out
<1> QED BY <1>1, <1>2 DEF Fits, Answers

LEMMA SendOpCondAnswers ==
  ASSUME CardInv, NEW voltages \in BOOLEAN, NEW arg
  PROVE  LET o == SendOpCond(voltages)
         IN  Fits(41, arg, o) /\ o.c.multi = card.multi /\ ~ o.c.acmd
             /\ (o.c.state = "receivingdata" => card.state = "receivingdata")
<1>0. /\ Taken \in CardType /\ Taken.acmd = FALSE /\ Taken.state = card.state
      /\ Taken.multi = card.multi /\ Taken.powered = card.powered /\ Taken.timer = card.timer
      /\ Taken.offset = card.offset
      /\ profile.spi \in BOOLEAN /\ status \in SUBSET StatusBits
      /\ {"illegal", "r1", "r3"} \subseteq Responses
      /\ {"ready", "transfer"} \subseteq States \ {"sendingdata", "receivingdata"}
  BY TakenIsCard, ProfileIs DEF CardInv, Responses, States, CardType
<1>1. /\ Illegal(Taken).c = Taken /\ Illegal(Taken).r = "illegal"
      /\ Fits(41, arg, Illegal(Taken))
  BY IllegalFits DEF Illegal, Out
<1>2. CASE profile.spi
  <2> DEFINE c == [Taken EXCEPT !.state = "transfer"]
  <2>1. SendOpCond(voltages) = Out("r1", c, status)
    BY <1>2 DEF SendOpCond, SpiSendOpCond, R1
  <2>2. Fits(41, arg, Out("r1", c, status))
    BY <1>0, MovedFits
  <2>3. c.multi = card.multi /\ c.acmd = FALSE /\ c.state = "transfer"
    BY <1>0 DEF CardType
  <2> HIDE DEF c
  <2> QED BY <2>1, <2>2, <2>3 DEF Out
<1>3. CASE ~ profile.spi
  <2> DEFINE c == [Taken EXCEPT
           !.powered = @ \/ voltages,
           !.timer = IF card.powered THEN @ ELSE IF voltages THEN TimerAfterPowerUp ELSE TRUE,
           !.state = IF voltages THEN "ready" ELSE @]
  <2>1. SendOpCond(voltages) = In({"idle"}, Out("r3", c, status))
    BY <1>3 DEF SendOpCond
  <2>2. /\ c \in CardType /\ c.acmd = FALSE /\ c.multi = card.multi /\ c.offset = card.offset
        /\ c.state \in {"ready", card.state}
    BY <1>0 DEF CardType, TimerAfterPowerUp
  <2>3. Timed(c)
    BY <1>0, <1>3 DEF CardType, TimerAfterPowerUp, Timed, CardInv
  <2> HIDE DEF c
  <2>4. Buffered(c)
    BY <2>2 DEF Buffered, CardInv
  <2>5. Fits(41, arg, Out("r3", c, status))
    BY <1>0, <2>2, <2>3, <2>4, PlainFits
  <2>6. Out("r3", c, status).c = c
    BY DEF Out
  <2> QED BY <1>0, <1>1, <2>1, <2>2, <2>5, <2>6 DEF In
<1> QED BY <1>2, <1>3

LEMMA ApplicationAnswers ==
  ASSUME CardInv, CountInv, NEW cmd \in Nat, NEW arg \in Nat, card.acmd,
         "locked" \in status => cmd \in {41, 42}
  PROVE  Answers(cmd, arg, Application(cmd, arg))
<1>0. /\ Taken \in CardType /\ ~ Taken.acmd /\ Taken.state = card.state
      /\ Taken.multi = card.multi /\ {0, 1} \subseteq 0..BlockUnits /\ 0 \in Nat
      /\ status \in SUBSET StatusBits /\ "r1" \in Responses
  BY TakenIsCard DEF CardInv, Responses, BlockUnits
<1>1. ASSUME NEW x \in {6, 22, 42}
      PROVE  LET o == In({"transfer"}, R1(Taken))
             IN  Fits(x, arg, o) /\ o.c = Taken
  <2>1. Fits(x, arg, R1(Taken))
    BY <1>0, TakenFits DEF R1
  <2>2. Fits(x, arg, In({"transfer"}, R1(Taken)))
    BY <2>1, InFits
  <2>3. In({"transfer"}, R1(Taken)).c = Taken
    BY DEF In, R1, Illegal, Out
  <2> QED BY <2>2, <2>3
<1>2. CASE (cmd = 6 /\ ~ profile.spi) \/ cmd \in {23, 42}
  <2>1. Application(cmd, arg) = In({"transfer"}, R1(Taken))
    BY <1>2 DEF Application
  <2>2. Fits(22, arg, Application(cmd, arg)) /\ Application(cmd, arg).c = Taken
    BY <1>1, <2>1
  <2> QED BY <1>0, <1>2, <2>2, OtherAnswers
<1>3. CASE cmd \in {13, 22, 51}
  <2> DEFINE o == ToSending(Taken, 0, 1)
  <2>1. Fits(22, arg, o)
    BY <1>0, SendFits
  <2>2. o.c.multi = card.multi /\ ~ o.c.acmd /\ o.c.state = "sendingdata"
    BY <1>0 DEF ToSending, R1, Out, CardType
  <2>3. Application(cmd, arg) = o
    BY <1>3 DEF Application
  <2> HIDE DEF o
  <2> QED BY <1>3, <2>1, <2>2, <2>3, OtherAnswers
<1>4. CASE cmd = 41
  <2> DEFINE voltages == arg = 0
             o == SendOpCond(voltages)
  <2>1. Application(cmd, arg) = o /\ voltages \in BOOLEAN
    BY <1>4 DEF Application
  <2> HIDE DEF voltages
  <2>2. /\ Fits(41, arg, o) /\ o.c.multi = card.multi /\ ~ o.c.acmd
        /\ (o.c.state = "receivingdata" => card.state = "receivingdata")
    BY <2>1, SendOpCondAnswers
  <2> HIDE DEF o
  <2> QED BY <1>4, <2>1, <2>2, OtherAnswers
<1>5. CASE cmd \in {18, 25, 26, 38} \cup 43..49
  <2>1. Application(cmd, arg) = Illegal(Taken)
    BY <1>5 DEF Application
  <2>2. Fits(22, arg, Illegal(Taken)) /\ Illegal(Taken).c = Taken
    BY IllegalFits DEF Illegal, Out
  <2> QED BY <1>0, <2>1, <2>2, OtherAnswers
<1>6. CASE cmd \notin {13, 18, 22, 23, 25, 26, 38, 41, 42, 51} /\ Application(cmd, arg) = Normal(cmd, arg)
  BY <1>6, NormalAnswers
<1> QED BY <1>2, <1>3, <1>4, <1>5, <1>6 DEF Application

LEMMA OutcomeAnswers ==
  ASSUME CardInv, CountInv, NEW cmd \in Nat, NEW arg \in Nat
  PROVE  \/ card.state = "inactive" /\ Outcome(cmd, arg) = Illegal(card)
         \/ card.state # "inactive" /\ Answers(cmd, arg, Outcome(cmd, arg))
<1>1. CASE card.state = "inactive"
  BY <1>1 DEF Outcome
<1>2. CASE card.state # "inactive" /\ ~ Reaches(cmd)
  <2>1. Fits(22, arg, Illegal(Taken)) /\ Illegal(Taken).c = Taken /\ Illegal(Taken).r = "illegal"
    BY IllegalFits DEF Illegal, Out
  <2>2. "locked" \in status /\ (cmd \in {0, 12} => card.acmd)
    BY <1>2 DEF Reaches, ValidWhileLocked, ValidNormally
  <2>3. /\ ~ Taken.acmd /\ Taken.state = card.state /\ Taken.multi = card.multi
    BY TakenIsCard
  <2>4. Answers(cmd, arg, Illegal(Taken))
    BY <2>1, <2>2, <2>3, OtherAnswers
  <2> QED BY <1>2, <2>4 DEF Outcome
<1>3. CASE card.state # "inactive" /\ Reaches(cmd)
  <2>1. "locked" \in status => ValidWhileLocked(cmd)
    BY <1>3 DEF Reaches
  <2> QED BY <1>3, <2>1, NormalAnswers, ApplicationAnswers DEF Outcome, ValidWhileLocked
<1> QED BY <1>1, <1>2, <1>3

----------------------------------------------------------------------------
(* The response.                                                           *)
LEMMA ResponseIs ==
  ASSUME CardInv, NEW cmd \in Nat, NEW o \in OutType, Timed(o.c), Buffered(o.c), Responds(cmd, o),
         profile' = profile
  PROVE  /\ CardInv'
         /\ card'.state = o.c.state /\ card'.acmd = o.c.acmd /\ card'.multi = o.c.multi
         /\ card'.written = o.c.written /\ card'.current = (IF o.r = "illegal" THEN 0 ELSE cmd)
         /\ ("locked" \in status' <=> "locked" \in o.st)
<1> DEFINE c == o.c
           current == IF o.r = "illegal" THEN 0 ELSE cmd
           start == IF o.r = "r0" THEN 0 ELSE c.start
           offset == IF o.r = "r0" THEN 0 ELSE c.offset
<1>1. c \in CardType /\ o.st \in SUBSET StatusBits
  BY DEF OutType
<1>2. card' = [c EXCEPT !.current = current, !.start = start, !.offset = offset]
  BY DEF Responds
<1>3. current \in Nat /\ start \in Nat /\ offset \in Nat /\ (offset = c.offset \/ offset = 0)
  BY <1>1 DEF CardType
<1>4. status' \subseteq StatusBits /\ ("locked" \in status' <=> "locked" \in o.st)
  BY <1>1 DEF Responds, ClearedByRead
<1> HIDE DEF current, start, offset, c
<1>5. /\ card' \in CardType /\ card'.state = c.state /\ card'.acmd = c.acmd
      /\ card'.multi = c.multi /\ card'.written = c.written /\ card'.current = current
      /\ card'.offset = offset /\ card'.powered = c.powered /\ card'.timer = c.timer
  BY <1>1, <1>2, <1>3 DEF CardType
<1>6. Timed(card)' /\ Buffered(card)'
  BY <1>3, <1>5 DEF Timed, Buffered, BlockUnits, c
<1> QED BY <1>4, <1>5, <1>6 DEF CardInv, c, current

(* The numbers of the commands of this run, and their arguments.           *)
LEMMA ArgumentsAreNat ==
  ASSUME CardInv, NEW cmd \in profile.commands \cup profile.acmds, NEW arg \in ArgsOf(cmd)
  PROVE  cmd \in Nat /\ arg \in Nat
BY HostAssumption DEF CardInv, ArgsOf

(* What was stored is on record.                                           *)
LEMMA StoreKeepsSeed ==
  ASSUME SeedKept, image \in [Offsets -> {"seed", "new"}], NEW S \in SUBSET Int, NEW length \in Int,
         Store(S, length), profile' = profile
  PROVE  SeedKept' /\ image' \in [Offsets -> {"seed", "new"}]
<1>1. image' \in [Offsets -> {"seed", "new"}]
  BY DEF Store
<1>2. ASSUME profile.lilygo, NEW v \in Offsets, image'[v] = "new" PROVE BlockOf(v) \in saved'
  <2>1. saved' = saved \cup UNION {BlocksOf(u, length) : u \in S}
    BY <1>2 DEF Store
  <2>2. CASE v \in Changed(S, length)
    <3>1. PICK u \in S : u <= v /\ v < u + length
      BY <2>2 DEF Changed
    <3>2. v \in Int
      BY CardAssumption DEF Offsets
    <3>3. BlockOf(v) \in BlocksOf(u, length)
      BY <3>1, <3>2 DEF BlocksOf
    <3> QED BY <2>1, <3>3
  <2>3. CASE v \notin Changed(S, length)
    BY <1>2, <2>1, <2>3 DEF Store, SeedKept
  <2> QED BY <2>2, <2>3
<1> QED BY <1>1, <1>2 DEF SeedKept

LEMMA CommandKeeps ==
  ASSUME SdInv, NEW cmd \in profile.commands \cup profile.acmds, NEW arg \in ArgsOf(cmd),
         Command(cmd, arg)
  PROVE  SdInv' /\ KeepsReadOnly
<1> DEFINE o == Outcome(cmd, arg)
<1>0. cmd \in Nat /\ arg \in Nat /\ CardInv /\ CountInv /\ profile' = profile /\ lil' = lil
  BY ArgumentsAreNat DEF SdInv, TypeInv, Command
<1>1. \/ card.state = "inactive" /\ o = Illegal(card)
      \/ card.state # "inactive" /\ Answers(cmd, arg, o)
  BY <1>0, OutcomeAnswers
<1>2. Responds(cmd, o) /\ asked' = Announced(cmd, arg)
  BY DEF Command
<1> HIDE DEF o
<1>3. o \in OutType /\ Timed(o.c) /\ Buffered(o.c)
  <2>1. CASE o = Illegal(card)
    BY <1>0, <2>1 DEF CardInv, Illegal, Out, OutType, Responses
  <2>2. CASE Answers(cmd, arg, o)
    BY <2>2 DEF Answers
  <2> QED BY <1>1, <2>1, <2>2
<1>4. /\ CardInv'
      /\ card'.state = o.c.state /\ card'.acmd = o.c.acmd /\ card'.multi = o.c.multi
      /\ card'.written = o.c.written /\ card'.current = (IF o.r = "illegal" THEN 0 ELSE cmd)
      /\ ("locked" \in status' <=> "locked" \in o.st)
  BY <1>0, <1>2, <1>3, ResponseIs
<1>5. CountInv'
  <2>0. asked' = (IF cmd = 23 /\ ~ card.acmd /\ card'.current = 23 THEN arg
                  ELSE IF cmd \in {18, 25} THEN asked ELSE 0)
    BY <1>2 DEF Announced
  <2>1. CASE card.state = "inactive" /\ o = Illegal(card)
    <3>1. o.r = "illegal" /\ o.c = card /\ o.st = status
      BY <2>1 DEF Illegal, Out
    <3>2. card'.current = 0 /\ card'.state = "inactive" /\ card'.multi = card.multi
          /\ card'.acmd = card.acmd /\ ("locked" \in status' <=> "locked" \in status)
      BY <1>4, <2>1, <3>1
    <3> QED BY <1>0, <2>0, <3>2 DEF CountInv, Counted, Uncounted
  <2>2. CASE card.state # "inactive" /\ Answers(cmd, arg, o)
    <3>1. CASE cmd \notin {18, 23, 25}
      BY <1>4, <2>0, <2>2, <3>1 DEF Answers, CountInv, Counted, Uncounted
    <3>2. CASE cmd = 23
      BY <1>0, <1>4, <2>0, <2>2, <3>2 DEF Answers, CountInv, Counted, Uncounted
    <3>3. CASE cmd \in {18, 25}
      <4>1. asked' = asked /\ card'.multi = card.multi /\ ~ card'.acmd
            /\ ("locked" \in status' => "locked" \in status)
            /\ (card'.state = "transfer" => card.state = "transfer")
        BY <1>4, <2>0, <2>2, <3>3 DEF Answers
      <4>2. card'.current \in Uncounted
        BY <1>4, <3>3 DEF Uncounted
      <4>3. Counted'
        <5>1. SUFFICES ASSUME card'.state = "receivingdata", card'.current = 25
                       PROVE  IF asked' = 0 THEN card'.multi = 0
                              ELSE card'.multi > 0 /\ card'.written + card'.multi = asked'
          BY DEF Counted
        <5>2. cmd = 25 /\ o.r # "illegal" /\ card.state = "transfer" /\ card'.written = 0
          BY <1>4, <2>2, <5>1 DEF Answers
        <5>3. card.multi = asked /\ asked \in Nat
          BY <1>0, <5>2 DEF CountInv
        <5> QED BY <4>1, <5>2, <5>3
      <4> QED BY <1>0, <4>1, <4>2, <4>3 DEF CountInv
    <3> QED BY <3>1, <3>2, <3>3
  <2> QED BY <1>1, <2>1, <2>2
<1>6. ReadOnlyInv'
  BY <1>0, <1>4 DEF Command, RefusedWrite, ReadOnlyInv
<1>7. SeedKept' /\ image' \in [Offsets -> {"seed", "new"}]
  <2>0. SeedKept /\ image \in [Offsets -> {"seed", "new"}]
    BY DEF SdInv, TypeInv
  <2>1. CASE Erasing(cmd)
    <3>1. Erased \in SUBSET Int /\ BlockUnits \in Int /\ Store(Erased, BlockUnits)
      BY <2>1 DEF Erased, BlockUnits, Command
    <3> QED BY <1>0, <2>0, <3>1, StoreKeepsSeed
  <2>2. CASE UNCHANGED <<image, saved>>
    BY <1>0, <2>0, <2>2 DEF SeedKept
  <2> QED BY <2>1, <2>2 DEF Command
<1>8. KeepsReadOnly
  <2>1. CASE Erasing(cmd)
    <3>1. cmd = 38 /\ ~ card.acmd /\ Reaches(38) /\ EraseValid /\ card.state = "transfer"
      BY <2>1 DEF Erasing, EraseValid
    <3>2. o = Normal(38, arg) /\ Handled(38, arg) = EraseBlocks
      BY <3>1 DEF Outcome, Handled, o
    <3>3. EraseBlocks.r = "r1"
      BY <3>1 DEF EraseBlocks, In, R1, Out
    <3>4. o = [EraseBlocks EXCEPT !.c.multi = 0]
      BY <3>2 DEF Normal, KeepsCount
    <3>5. Fits(38, arg, EraseBlocks)
      BY <1>0, <3>2, HandledFits
    <3>6. o.r = "r1"
      BY <3>3, <3>4, <3>5 DEF Fits, OutType
    <3> QED BY <1>4, <3>1, <3>6 DEF KeepsReadOnly
  <2>2. CASE UNCHANGED <<image, saved>>
    BY <2>2 DEF KeepsReadOnly
  <2> QED BY <2>1, <2>2 DEF Command
<1> QED BY <1>0, <1>4, <1>5, <1>6, <1>7, <1>8 DEF SdInv, TypeInv

----------------------------------------------------------------------------
(* The other steps.                                                        *)

(* A card that has changed in what no invariant but its own speaks of.     *)
LEMMA SameWrite ==
  ASSUME SdInv, CardInv', UNCHANGED <<profile, image, saved, lil, asked>>,
         UNCHANGED <<card.state, card.current, card.multi, card.written, card.acmd>>,
         "locked" \in status' <=> "locked" \in status
  PROVE  SdInv' /\ KeepsReadOnly
BY DEF SdInv, TypeInv, CountInv, Counted, Uncounted, ReadOnlyInv, SeedKept, KeepsReadOnly

LEMMA PowerUpKeeps ==
  ASSUME SdInv, PowerUp PROVE SdInv' /\ KeepsReadOnly
<1>1. card \in CardType /\ card.timer /\ status' = status /\ profile' = profile
      /\ UNCHANGED <<image, saved, lil, asked>>
  BY DEF SdInv, TypeInv, CardInv, PowerUp
<1>2. card' = [card EXCEPT !.timer = FALSE] \/ card' = [card EXCEPT !.powered = TRUE, !.timer = FALSE]
  BY DEF PowerUp
<1>3. /\ card' \in CardType /\ card'.state = card.state /\ card'.current = card.current
      /\ card'.multi = card.multi /\ card'.written = card.written /\ card'.acmd = card.acmd
      /\ card'.offset = card.offset /\ card'.timer = FALSE /\ card'.powered \in {card.powered, TRUE}
  BY <1>1, <1>2 DEF CardType
<1>4. CardInv'
  BY <1>1, <1>3 DEF SdInv, TypeInv, CardInv, Timed, Buffered
<1> QED BY <1>1, <1>3, <1>4, SameWrite

LEMMA ReadFaultKeeps ==
  ASSUME SdInv, NEW cmd, ReadFault(cmd) PROVE SdInv' /\ KeepsReadOnly
<1>1. lil' \in [present : BOOLEAN, writable : BOOLEAN, preserve : BOOLEAN, faults : SUBSET FaultNames]
      /\ lil'.writable = lil.writable
  BY DEF SdInv, TypeInv, ReadFault, UsedUp
<1> QED
  BY <1>1 DEF SdInv, TypeInv, CardInv, Timed, Buffered, CountInv, Counted, Uncounted, ReadOnlyInv,
              SeedKept, KeepsReadOnly, ReadFault

LEMMA WriteRefusedKeeps ==
  ASSUME SdInv, NEW cmd \in {24, 25}, WriteRefused(cmd) PROVE SdInv' /\ KeepsReadOnly
<1> DEFINE o == Out("illegal", card, status \cup {"wp"})
<1>0. lil' \in [present : BOOLEAN, writable : BOOLEAN, preserve : BOOLEAN, faults : SUBSET FaultNames]
  BY DEF SdInv, TypeInv, WriteRefused, UsedUp
<1>1. /\ o \in OutType /\ Timed(o.c) /\ Buffered(o.c) /\ o.c = card /\ o.r = "illegal"
      /\ ("locked" \in o.st <=> "locked" \in status)
  BY DEF SdInv, TypeInv, CardInv, Out, OutType, Responses, StatusBits
<1>2. Responds(cmd, o) /\ UNCHANGED <<profile, image, saved, asked, aborted>>
  BY DEF WriteRefused
<1> HIDE DEF o
<1>3. /\ CardInv' /\ card'.state = card.state /\ card'.acmd = card.acmd
      /\ card'.multi = card.multi /\ card'.current = 0
      /\ ("locked" \in status' <=> "locked" \in status)
  BY <1>1, <1>2, ResponseIs DEF SdInv, TypeInv
<1>4. CountInv' /\ ReadOnlyInv' /\ SeedKept'
  BY <1>2, <1>3 DEF SdInv, CountInv, Counted, Uncounted, ReadOnlyInv, SeedKept
<1> QED BY <1>0, <1>2, <1>3, <1>4 DEF SdInv, TypeInv, KeepsReadOnly

(* A data phase that goes on, and one that is over.                        *)
LEMMA AdvancedIs ==
  ASSUME CardInv
  PROVE  /\ Advanced \in CardType /\ Advanced.offset = card.offset + 1
         /\ \A f \in {"state", "current", "multi", "written", "acmd", "powered", "timer", "csd", "pwd"} :
              Advanced[f] = card[f]
BY DEF CardInv, CardType, Advanced

LEMMA DoneIs ==
  ASSUME NEW c \in CardType
  PROVE  /\ Done(c) \in CardType /\ Done(c).state = "transfer"
         /\ \A f \in {"current", "multi", "written", "acmd", "powered", "timer"} : Done(c)[f] = c[f]
BY DEF CardType, Done, States

LEMMA AdvancedKeeps ==
  ASSUME SdInv, card' = Advanced, card.offset + 1 < BlockUnits, status' = status,
         UNCHANGED <<profile, image, saved, lil, asked>>
  PROVE  SdInv' /\ KeepsReadOnly
<1>1. CardInv
  BY DEF SdInv, TypeInv
<1>2. /\ card' \in CardType /\ card'.offset = card.offset + 1
      /\ UNCHANGED <<card.state, card.current, card.multi, card.written, card.acmd,
                     card.powered, card.timer>>
  BY <1>1, AdvancedIs
<1>3. CardInv'
  BY <1>1, <1>2 DEF CardInv, Timed, Buffered
<1> QED BY <1>2, <1>3, SameWrite

(* The data of a command without a count is complete.                      *)
LEMMA DoneKeeps ==
  ASSUME SdInv, NEW c \in CardType, c.acmd = card.acmd, c.multi = card.multi,
         c.current = card.current, c.powered = card.powered, c.timer = card.timer,
         card' = Done(c), card.current \notin Uncounted, status' \subseteq StatusBits,
         UNCHANGED <<profile, lil, asked>>,
         SeedKept' /\ image' \in [Offsets -> {"seed", "new"}]
  PROVE  SdInv'
<1>1. /\ card' \in CardType /\ card'.state = "transfer" /\ card'.acmd = card.acmd
      /\ card'.multi = card.multi /\ card'.current = card.current
      /\ card'.powered = card.powered /\ card'.timer = card.timer
  BY DoneIs
<1>2. CardInv'
  BY <1>1 DEF SdInv, TypeInv, CardInv, Timed, Buffered
<1>3. card'.multi = 0 /\ asked' = 0
  BY <1>1 DEF SdInv, CountInv
<1>4. CountInv' /\ ReadOnlyInv'
  BY <1>1, <1>3 DEF CountInv, Counted, ReadOnlyInv
<1> QED BY <1>2, <1>4 DEF SdInv, TypeInv

LEMMA SeedStays == SeedKept /\ UNCHANGED <<profile, image, saved>> => SeedKept'
BY DEF SeedKept

LEMMA SmallDataKeeps ==
  ASSUME SdInv, WritePart \/ ReadUnit PROVE SdInv' /\ KeepsReadOnly
<1>0. CardInv /\ SeedKept /\ image \in [Offsets -> {"seed", "new"}] /\ card.size \in 0..BlockUnits
      /\ card.offset \in Nat
  BY DEF SdInv, TypeInv, CardInv, CardType
<1>1. CASE card' = Advanced /\ ~ Filled
  <2>1. card.offset + 1 < BlockUnits
    BY <1>0, <1>1 DEF Filled, BlockUnits
  <2> QED BY <1>1, <2>1, AdvancedKeeps DEF WritePart, ReadUnit
<1>2. CASE ReadUnit /\ card' = Done(Advanced)
  <2>1. card.current \notin Uncounted /\ UNCHANGED <<profile, status, image, saved, lil, asked>>
    BY <1>2 DEF ReadUnit, Uncounted
  <2>2. status' \subseteq StatusBits
    BY <1>0, <2>1 DEF CardInv
  <2>3. SdInv'
    BY <1>0, <1>2, <2>1, <2>2, AdvancedIs, DoneKeeps, SeedStays
  <2> QED BY <2>1, <2>3 DEF KeepsReadOnly
<1> QED BY <1>1, <1>2 DEF WritePart, ReadUnit

LEMMA WriteBlockKeeps ==
  ASSUME SdInv, WriteBlock PROVE SdInv' /\ KeepsReadOnly
<1> DEFINE written == Advanced.written + 1
           csd == Advanced.csd \cup {"copy"}
           c == [Advanced EXCEPT !.written = written, !.csd = csd]
<1>0. CardInv /\ SeedKept /\ image \in [Offsets -> {"seed", "new"}] /\ card.start \in Int
      /\ card.offset \in Nat
  BY DEF SdInv, TypeInv, CardInv, CardType
<1>1. /\ c \in CardType /\ c.acmd = card.acmd /\ c.multi = card.multi /\ c.current = card.current
      /\ c.powered = card.powered /\ c.timer = card.timer
  <2>1. Advanced \in CardType
    BY <1>0, AdvancedIs
  <2>2. written \in Nat /\ csd \in SUBSET CsdBits
    BY <2>1 DEF CardType, CsdBits
  <2> HIDE DEF written, csd
  <2> QED BY <1>0, <2>1, <2>2, AdvancedIs DEF CardType
<1>2. /\ card' = Done(c) /\ card.current = 24 /\ card.state = "receivingdata"
      /\ UNCHANGED <<profile, status, lil, asked>> /\ Store({card.start}, card.offset + 1)
  BY DEF WriteBlock, Writing
<1> HIDE DEF c
<1>3. SeedKept' /\ image' \in [Offsets -> {"seed", "new"}]
  BY <1>0, <1>2, StoreKeepsSeed
<1>4. card.current \notin Uncounted /\ status' \subseteq StatusBits
  BY <1>0, <1>2 DEF Uncounted, CardInv
<1>5. SdInv'
  BY <1>1, <1>2, <1>3, <1>4, DoneKeeps
<1>6. KeepsReadOnly
  BY <1>2 DEF SdInv, ReadOnlyInv, KeepsReadOnly
<1> QED BY <1>5, <1>6

LEMMA RefuseBlockKeeps ==
  ASSUME SdInv, RefuseBlock PROVE SdInv' /\ KeepsReadOnly
<1>1. /\ status' \subseteq StatusBits /\ ("locked" \in status' <=> "locked" \in status)
      /\ UNCHANGED <<profile, card, image, saved, lil, asked>>
  BY DEF RefuseBlock, Refuses, SdInv, TypeInv, CardInv, StatusBits
<1>2. CardInv'
  BY <1>1 DEF SdInv, TypeInv, CardInv, Timed, Buffered
<1> QED BY <1>1, <1>2, SameWrite

(* The count of a write or a read of several blocks, one block on.         *)
LEMMA BlockPasses ==
  ASSUME SdInv, NEW c \in CardType, card' = c, c.acmd = card.acmd, c.current = card.current,
         c.powered = card.powered, c.timer = card.timer, c.offset = 0,
         card.state \in {"sendingdata", "receivingdata"}, card.current \in {18, 25},
         c.multi = (IF card.multi = 0 THEN 0 ELSE card.multi - 1),
         c.state = (IF LastBlock THEN "transfer" ELSE card.state),
         card.current = 25 => c.written = card.written + 1,
         asked' = (IF card'.state = "transfer" THEN 0 ELSE asked),
         UNCHANGED <<profile, status, lil>>,
         SeedKept' /\ image' \in [Offsets -> {"seed", "new"}]
  PROVE  SdInv'
<1>0. CardInv /\ CountInv /\ card.multi \in Nat /\ card.written \in Nat /\ asked \in Nat
  BY DEF SdInv, TypeInv, CardInv, CardType, CountInv
<1>1. CardInv'
  BY <1>0 DEF CardInv, Timed, Buffered, BlockUnits
<1>2. ReadOnlyInv'
  BY DEF SdInv, ReadOnlyInv, LastBlock
<1>a. /\ card'.current \in Uncounted /\ card'.current = card.current /\ card'.multi = c.multi
      /\ (card'.acmd \/ "locked" \in status') => card.multi = 0
  BY <1>0 DEF CountInv, Uncounted
<1>3. CASE card.multi = 1
  <2>1. card'.state = "transfer" /\ card'.multi = 0 /\ asked' = 0
    BY <1>3 DEF LastBlock
  <2>2. Counted' /\ asked' \in Nat
    BY <2>1 DEF Counted
  <2>3. card'.acmd \/ "locked" \in status' => card'.multi = 0
    BY <2>1
  <2>4. card'.current \notin Uncounted => card'.multi = 0 /\ asked' = 0
    BY <1>a
  <2>5. card'.state = "transfer" => card'.multi = asked'
    BY <2>1
  <2>6. CountInv'
    BY <2>2, <2>3, <2>4, <2>5 DEF CountInv
  <2> QED BY <1>1, <1>2, <2>6 DEF SdInv, TypeInv
<1>4. CASE card.multi # 1
  <2>1. card'.state = card.state /\ card.state # "transfer" /\ asked' = asked
    BY <1>4 DEF LastBlock
  <2>2. Counted'
    BY <1>0, <1>a, <1>4, <2>1 DEF CountInv, Counted
  <2>3. card'.acmd \/ "locked" \in status' => card'.multi = 0
    BY <1>a
  <2>4. card'.current \notin Uncounted => card'.multi = 0 /\ asked' = 0
    BY <1>a
  <2>5. card'.state = "transfer" => card'.multi = asked'
    BY <2>1
  <2>6. CountInv'
    BY <1>0, <2>1, <2>2, <2>3, <2>4, <2>5 DEF CountInv
  <2> QED BY <1>1, <1>2, <2>6 DEF SdInv, TypeInv
<1> QED BY <1>3, <1>4

LEMMA WriteBlocksKeeps ==
  ASSUME SdInv, WriteBlocks PROVE SdInv' /\ KeepsReadOnly
<1>0. CardInv /\ SeedKept /\ image \in [Offsets -> {"seed", "new"}] /\ card \in CardType
      /\ card.blkLen \in 0..BlockUnits /\ card.offset \in Nat /\ card.start \in Nat
      /\ card.written \in Nat /\ card.multi \in Nat
  BY DEF SdInv, TypeInv, CardInv, CardType
<1>1. /\ card.state = "receivingdata" /\ card.current = 25 /\ UNCHANGED <<profile, status, lil>>
      /\ asked' = (IF card'.state = "transfer" THEN 0 ELSE asked)
  BY DEF WriteBlocks, Writing
<1>2. CASE card.offset + 1 < card.blkLen
  <2>1. card' = Advanced /\ UNCHANGED <<image, saved>> /\ card.offset + 1 < BlockUnits
    BY <1>0, <1>2 DEF WriteBlocks, BlockUnits
  <2>2. asked' = asked
    BY <1>0, <1>1, <2>1, AdvancedIs
  <2> QED BY <1>1, <2>1, <2>2, AdvancedKeeps
<1>3. CASE ~ (card.offset + 1 < card.blkLen)
  <2> DEFINE multi == IF card.multi = 0 THEN 0 ELSE card.multi - 1
             state == IF LastBlock THEN "transfer" ELSE card.state
             start == card.start + card.blkLen
             written == card.written + 1
             csd == card.csd \cup {"copy"}
             b == [card EXCEPT !.written = written, !.start = start]
             c == [b EXCEPT !.offset = 0, !.csd = csd, !.multi = multi, !.state = state]
  <2>1. Store({card.start}, card.offset + 1)
    BY <1>3 DEF WriteBlocks
  <2>2. card' = c
    BY <1>0, <1>3 DEF WriteBlocks, CardType
  <2>3. multi \in Nat /\ state \in States /\ start \in Nat /\ written \in Nat
        /\ csd \in SUBSET CsdBits
    BY <1>0 DEF CardType, States, CsdBits
  <2>4. multi = (IF card.multi = 0 THEN 0 ELSE card.multi - 1)
        /\ state = (IF LastBlock THEN "transfer" ELSE card.state) /\ written = card.written + 1
    OBVIOUS
  <2> HIDE DEF multi, state, start, written, csd
  <2>5. /\ b \in CardType /\ b.written = written
        /\ \A f \in {"acmd", "current", "powered", "timer"} : b[f] = card[f]
    BY <1>0, <2>3 DEF CardType
  <2> HIDE DEF b
  <2>6. /\ c \in CardType /\ c.acmd = b.acmd /\ c.current = b.current
        /\ c.powered = b.powered /\ c.timer = b.timer /\ c.offset = 0
        /\ c.multi = multi /\ c.state = state /\ c.written = b.written
    BY <2>3, <2>5 DEF CardType
  <2>7. SeedKept' /\ image' \in [Offsets -> {"seed", "new"}]
    BY <1>0, <1>1, <2>1, StoreKeepsSeed
  <2> HIDE DEF c
  <2>8. SdInv'
    BY <1>1, <2>2, <2>4, <2>5, <2>6, <2>7, BlockPasses
  <2>9. KeepsReadOnly
    BY <1>1 DEF SdInv, ReadOnlyInv, KeepsReadOnly
  <2> QED BY <2>8, <2>9
<1> QED BY <1>2, <1>3

LEMMA ReadBlocksKeeps ==
  ASSUME SdInv, ReadBlocks PROVE SdInv' /\ KeepsReadOnly
<1>0. CardInv /\ SeedKept /\ image \in [Offsets -> {"seed", "new"}] /\ card \in CardType
      /\ ReadLength \in 0..BlockUnits /\ card.offset \in Nat /\ card.start \in Nat
      /\ card.multi \in Nat /\ asked \in Nat
  BY DEF SdInv, TypeInv, CardInv, CardType, ReadLength, BlockUnits, CountInv
<1>1. /\ card.state = "sendingdata" /\ card.current = 18 /\ UNCHANGED <<profile, image, saved, lil>>
      /\ asked' = (IF card'.state = "transfer" THEN 0 ELSE asked)
  BY DEF ReadBlocks, Readable
<1>2. CASE BlockBegins /\ ~ InRange(card.start, ReadLength)
  <2>1. status' = status \cup {"address"} /\ card' = card /\ asked' = asked
    BY <1>1, <1>2 DEF ReadBlocks
  <2>2. CardInv'
    BY <1>0, <1>1, <2>1 DEF CardInv, Timed, Buffered, StatusBits
  <2> QED BY <1>1, <2>1, <2>2, SameWrite
<1>3. CASE ~ (BlockBegins /\ ~ InRange(card.start, ReadLength)) /\ card.offset + 1 < ReadLength
  <2>1. card' = Advanced /\ status' = status /\ card.offset + 1 < BlockUnits
    BY <1>0, <1>3 DEF ReadBlocks, BlockUnits
  <2>2. asked' = asked
    BY <1>0, <1>1, <2>1, AdvancedIs
  <2> QED BY <1>1, <2>1, <2>2, AdvancedKeeps
<1>4. CASE ~ (BlockBegins /\ ~ InRange(card.start, ReadLength)) /\ ~ (card.offset + 1 < ReadLength)
  <2> DEFINE multi == IF card.multi = 0 THEN 0 ELSE card.multi - 1
             state == IF LastBlock THEN "transfer" ELSE card.state
             start == card.start + ReadLength
             c == [card EXCEPT !.start = start, !.offset = 0, !.multi = multi, !.state = state]
  <2>1. card' = c /\ status' = status
    BY <1>4 DEF ReadBlocks
  <2>3. multi \in Nat /\ state \in States /\ start \in Nat
    BY <1>0 DEF CardType, States
  <2>4. multi = (IF card.multi = 0 THEN 0 ELSE card.multi - 1)
        /\ state = (IF LastBlock THEN "transfer" ELSE card.state)
    OBVIOUS
  <2> HIDE DEF multi, state, start
  <2>6. /\ c \in CardType /\ c.acmd = card.acmd /\ c.current = card.current
        /\ c.powered = card.powered /\ c.timer = card.timer /\ c.offset = 0
        /\ c.multi = multi /\ c.state = state
    BY <1>0, <2>3 DEF CardType
  <2> HIDE DEF c
  <2>7. SeedKept' /\ image' \in [Offsets -> {"seed", "new"}]
    BY <1>0, <1>1, SeedStays
  <2>8. SdInv'
    BY <1>1, <2>1, <2>4, <2>6, <2>7, BlockPasses
  <2> QED BY <1>1, <2>8 DEF KeepsReadOnly
<1> QED BY <1>2, <1>3, <1>4

LEMMA RegisterDataKeeps ==
  ASSUME SdInv, (\E data \in CsdData : WriteCsd(data)) \/ WriteOther
  PROVE  SdInv' /\ KeepsReadOnly
<1>0. CardInv /\ SeedKept /\ image \in [Offsets -> {"seed", "new"}] /\ Advanced \in CardType
  BY AdvancedIs DEF SdInv, TypeInv
<1>1. /\ UNCHANGED <<profile, status, image, saved, lil, asked>>
      /\ status' \subseteq StatusBits /\ SeedKept' /\ image' \in [Offsets -> {"seed", "new"}]
  BY <1>0, SeedStays DEF WriteCsd, WriteOther, CardInv
<1>2. ASSUME NEW data \in CsdData, WriteCsd(data) PROVE SdInv'
  <2> DEFINE csd == IF Advanced.csd \cap {"copy", "permanent"} \subseteq data THEN data ELSE Advanced.csd
             c == [Advanced EXCEPT !.csd = csd]
  <2>1. csd \in SUBSET CsdBits
    BY <1>0, HostAssumption DEF CardType
  <2>2. card' = Done(c) /\ card.current = 27
    BY <1>2 DEF WriteCsd, Writing
  <2> HIDE DEF csd
  <2>3. /\ c \in CardType /\ c.acmd = card.acmd /\ c.multi = card.multi /\ c.current = card.current
        /\ c.powered = card.powered /\ c.timer = card.timer
    BY <1>0, <2>1, AdvancedIs DEF CardType
  <2> HIDE DEF c
  <2> QED BY <1>1, <2>2, <2>3, DoneKeeps DEF Uncounted
<1>3. CASE WriteOther
  <2>1. CASE card.current = 56
    <3> DEFINE c == Advanced
    <3>1. card' = Done(c) /\ card.current \notin Uncounted
      BY <1>3, <2>1 DEF WriteOther, Uncounted
    <3>2. /\ c \in CardType /\ c.acmd = card.acmd /\ c.multi = card.multi
          /\ c.current = card.current /\ c.powered = card.powered
          /\ c.timer = card.timer
      BY <1>0, AdvancedIs
    <3> HIDE DEF c
    <3>3. SdInv'
      BY <1>1, <3>1, <3>2, DoneKeeps
    <3> QED BY <1>1, <3>3 DEF KeepsReadOnly
  <2>2. CASE card.current # 56
    <3>1. card' = card
      BY <1>3, <2>2 DEF WriteOther
    <3>2. CardInv'
      BY <1>0, <1>1, <3>1 DEF CardInv, Timed, Buffered
    <3>3. SdInv'
      BY <1>1, <3>1, <3>2, SameWrite
    <3> QED BY <1>1, <3>3 DEF KeepsReadOnly
  <2> QED BY <2>1, <2>2
<1> QED BY <1>1, <1>2, <1>3 DEF KeepsReadOnly

LEMMA LockDataKeeps ==
  ASSUME SdInv, NEW d \in LockData, WriteLock(d)
  PROVE  SdInv' /\ KeepsReadOnly
<1>0. CardInv /\ SeedKept /\ image \in [Offsets -> {"seed", "new"}] /\ Advanced \in CardType
      /\ card.current = 42 /\ card.current \notin Uncounted /\ card \in CardType
  BY AdvancedIs DEF SdInv, TypeInv, WriteLock, Writing, Uncounted, CardInv
<1>1. /\ UNCHANGED <<profile, image, saved, lil, asked>>
      /\ SeedKept' /\ image' \in [Offsets -> {"seed", "new"}]
  BY <1>0, SeedStays DEF WriteLock
<1>2. status' \subseteq StatusBits
  BY <1>0 DEF WriteLock, CardInv, StatusBits
<1> DEFINE csd == Advanced.csd \ {"temporary"}
           len == NewLength(d)
           b == [Advanced EXCEPT !.wp = {}, !.csd = csd]
           e == [b EXCEPT !.pwd = 0]
           l == [Advanced EXCEPT !.pwd = len]
<1>3. card' \in {Done(e), Done(Advanced), Done(l)}
  BY DEF WriteLock
<1>4. csd \in SUBSET CsdBits /\ len \in Int /\ {} \in SUBSET Int
  BY <1>0, HostAssumption DEF CardType, NewLength
<1> HIDE DEF csd, len
<1> DEFINE Same(c) ==
             /\ c \in CardType /\ c.acmd = card.acmd /\ c.multi = card.multi
             /\ c.current = card.current /\ c.powered = card.powered /\ c.timer = card.timer
<1>a. Same(Advanced)
  BY <1>0, AdvancedIs
<1>b. Same(l)
  BY <1>a, <1>4 DEF CardType
<1>c. Same(b)
  BY <1>a, <1>4 DEF CardType
<1>d. Same(e)
  <2> HIDE DEF b
  <2> QED BY <1>c DEF CardType
<1>5. \A c \in {e, l, Advanced} : Same(c)
  BY <1>a, <1>b, <1>d
<1> HIDE DEF e, l
<1>6. SdInv'
  BY <1>0, <1>1, <1>2, <1>3, <1>5, DoneKeeps
<1> QED BY <1>1, <1>6 DEF KeepsReadOnly

----------------------------------------------------------------------------
(* The host.                                                               *)
LilType ==
  [present : BOOLEAN, writable : BOOLEAN, preserve : BOOLEAN, faults : SUBSET FaultNames]

LEMMA ColdResetKeeps ==
  ASSUME SdInv, ColdReset, profile' = profile, SeedKept', image' \in [Offsets -> {"seed", "new"}],
         lil' \in LilType
  PROVE  SdInv'
<1>1. /\ card' \in CardType /\ card'.acmd = FALSE /\ card'.state = "idle"
      /\ card'.powered = profile.spi /\ card'.timer = card.timer /\ card'.multi = 0
  BY ResetIs DEF SdInv, TypeInv, CardInv, ColdReset
<1>2. profile.spi \in BOOLEAN /\ (profile.spi => ~ card.timer) /\ status' = {} /\ asked' = 0
  BY ProfileIs DEF SdInv, TypeInv, CardInv, Timed, ColdReset
<1>3. CardInv'
  BY <1>1, <1>2 DEF SdInv, TypeInv, CardInv, Timed, Buffered
<1>4. CountInv' /\ ReadOnlyInv'
  BY <1>1, <1>2 DEF CountInv, Counted, ReadOnlyInv
<1> QED BY <1>3, <1>4 DEF SdInv, TypeInv, LilType

LEMMA HostKeeps ==
  ASSUME SdInv,
         \/ \E b \in BOOLEAN : SetPresent(b) \/ SetWritable(b) \/ SetInsertPolicy(b)
         \/ \E f \in FaultNames, on \in BOOLEAN : SetFault(f, on)
         \/ ControlReset
  PROVE  SdInv' /\ KeepsReadOnly
<1>0. SeedKept /\ image \in [Offsets -> {"seed", "new"}] /\ lil \in LilType
  BY DEF SdInv, TypeInv, LilType
<1>1. ASSUME NEW b \in BOOLEAN, SetPresent(b) PROVE SdInv' /\ KeepsReadOnly
  <2>1. lil' \in LilType /\ ColdReset /\ UNCHANGED <<profile, saved>>
    BY <1>0, <1>1 DEF SetPresent, AfterChange, LilType
  <2>2. image' = image \/ image' = [v \in Offsets |-> IF BlockOf(v) \in saved THEN "seed" ELSE image[v]]
    BY <1>1 DEF SetPresent
  <2>3. image' \in [Offsets -> {"seed", "new"}] /\ \A v \in Offsets : image'[v] = "new" => image[v] = "new"
    BY <1>0, <2>2
  <2>4. SeedKept' /\ KeepsReadOnly
    BY <1>0, <2>1, <2>3 DEF SeedKept, KeepsReadOnly
  <2> QED BY <2>1, <2>3, <2>4, ColdResetKeeps
<1>2. ASSUME NEW b \in BOOLEAN, SetWritable(b) \/ SetInsertPolicy(b) PROVE SdInv' /\ KeepsReadOnly
  <2>1. lil' \in LilType /\ ColdReset /\ UNCHANGED <<profile, image, saved>>
    BY <1>0, <1>2 DEF SetWritable, SetInsertPolicy, AfterChange, LilType
  <2> QED BY <1>0, <2>1, ColdResetKeeps, SeedStays DEF KeepsReadOnly
<1>3. CASE ControlReset
  <2>1. lil' \in LilType /\ ColdReset /\ UNCHANGED <<profile, image, saved>>
    BY <1>3 DEF ControlReset, LilType, Defaults
  <2> QED BY <1>0, <2>1, ColdResetKeeps, SeedStays DEF KeepsReadOnly
<1>4. ASSUME NEW f \in FaultNames, NEW on \in BOOLEAN, SetFault(f, on) PROVE SdInv' /\ KeepsReadOnly
  <2>1. lil' \in LilType /\ lil'.writable = lil.writable
        /\ UNCHANGED <<profile, card, status, image, saved, asked>>
    BY <1>0, <1>4 DEF SetFault, LilType
  <2> QED
    BY <2>1 DEF SdInv, TypeInv, CardInv, Timed, Buffered, CountInv, Counted, ReadOnlyInv, SeedKept,
                KeepsReadOnly, LilType
<1> QED BY <1>1, <1>2, <1>3, <1>4

----------------------------------------------------------------------------
LEMMA SdInit == Init => SdInv
<1> SUFFICES ASSUME Init PROVE SdInv
  OBVIOUS
<1>1. profile \in Profiles /\ profile.spi \in BOOLEAN
  BY HostAssumption DEF Init
<1>2. /\ card \in CardType /\ card.state = "idle" /\ card.powered = profile.spi
      /\ card.timer = FALSE /\ card.acmd = FALSE /\ card.multi = 0 /\ card.current = 0
  <2>1. /\ "idle" \in States /\ BlockUnits \in 0..BlockUnits /\ 0 \in 0..BlockUnits
        /\ None \in Nat \cup {None} /\ {} \in SUBSET Int /\ {} \in SUBSET CsdBits
        /\ 0 \in Nat /\ 0 \in Int
    BY DEF BlockUnits, States
  <2> QED BY <1>1, <2>1 DEF Init, CardType
<1>3. CardInv
  BY <1>1, <1>2 DEF Init, CardInv, Timed, Buffered
<1>4. lil \in LilType /\ image \in [Offsets -> {"seed", "new"}] /\ SeedKept
  BY DEF Init, LilType, Defaults, SeedKept
<1>5. CountInv /\ ReadOnlyInv
  BY <1>2 DEF Init, CountInv, Counted, Uncounted, ReadOnlyInv
<1> QED BY <1>3, <1>4, <1>5 DEF SdInv, TypeInv, LilType

LEMMA SdStep == SdInv /\ [Next]_vars => SdInv' /\ (KeepsReadOnly \/ UNCHANGED vars)
<1> SUFFICES ASSUME SdInv, [Next]_vars PROVE SdInv' /\ (KeepsReadOnly \/ UNCHANGED vars)
  OBVIOUS
<1>1. CASE UNCHANGED vars
  BY <1>1 DEF vars, SdInv, TypeInv, CardInv, Timed, Buffered, CountInv, Counted, ReadOnlyInv, SeedKept
<1> QED
  BY <1>1, CommandKeeps, ReadFaultKeeps, WriteRefusedKeeps, PowerUpKeeps, SmallDataKeeps,
     WriteBlockKeeps, RefuseBlockKeeps, WriteBlocksKeeps, RegisterDataKeeps, LockDataKeeps,
     ReadBlocksKeeps, HostKeeps
     DEF Next

LEMMA SdInductive == Spec => []SdInv
BY SdInit, SdStep, PTL DEF Spec

(* The type invariant: the buffer of a block is never left, whichever      *)
(* lengths the commands have set and wherever a data phase was cut off.    *)
THEOREM BufferNeverLeft == Spec => []TypeOK
<1>1. SdInv => TypeOK
  BY DEF SdInv, TypeInv, CardInv, CardType, Buffered, TypeOK, StatusBits
<1> QED BY <1>1, SdInductive, PTL

(* Whatever was written or erased, its seed is on record.                  *)
THEOREM SeedIsKept == Spec => []SeedKept
<1>1. SdInv => SeedKept
  BY DEF SdInv
<1> QED BY <1>1, SdInductive, PTL

(* A write of several blocks has the count that was announced for it.      *)
THEOREM CountIsKept == Spec => []Counted
<1>1. SdInv => Counted
  BY DEF SdInv, CountInv
<1> QED BY <1>1, SdInductive, PTL

(* No write reaches a card the host has made read-only.                    *)
THEOREM ReadOnlyIsKept == Spec => ReadOnlyKept
<1>1. SdInv /\ [Next]_vars =>
        [ \A u \in Offsets :
            profile.lilygo /\ ~ lil.writable /\ image[u] = "seed" /\ image'[u] = "new"
              => card'.current = 38 ]_vars
  BY SdStep DEF KeepsReadOnly
<1> QED BY <1>1, SdInductive, PTL DEF Spec, ReadOnlyKept

----------------------------------------------------------------------------
(* A step other than the timer's reports nothing of the timer.             *)
LEMMA TimerStep ==
  ASSUME SdInv, TimerFindsNoPower, [Next]_vars
  PROVE  TimerFindsNoPower'
<1>1. card.timer => ~ card.powered
  BY DEF SdInv, TypeInv, CardInv, Timed
<1>2. CASE PowerUp
  BY <1>1, <1>2 DEF PowerUp, TimerFindsNoPower
<1>3. CASE WriteOther
  BY <1>3 DEF WriteOther, TimerFindsNoPower
<1>4. CASE UNCHANGED aborted
  BY <1>4 DEF TimerFindsNoPower
<1>5. CASE \/ \E cmd \in profile.commands \cup profile.acmds : \E arg \in ArgsOf(cmd) : Command(cmd, arg)
           \/ \E cmd \in {17, 18} : ReadFault(cmd)
           \/ \E cmd \in {24, 25} : WriteRefused(cmd)
  BY <1>4, <1>5 DEF Command, ReadFault, WriteRefused
<1>6. CASE \/ WritePart \/ WriteBlock \/ RefuseBlock \/ WriteBlocks \/ ReadUnit \/ ReadBlocks
           \/ \E data \in CsdData : WriteCsd(data)
           \/ \E d \in LockData : WriteLock(d)
  BY <1>4, <1>6 DEF WritePart, WriteBlock, RefuseBlock, WriteBlocks, ReadUnit, ReadBlocks, WriteCsd, WriteLock
<1>7. CASE \/ \E b \in BOOLEAN : SetPresent(b) \/ SetWritable(b) \/ SetInsertPolicy(b)
           \/ \E f \in FaultNames, on \in BOOLEAN : SetFault(f, on)
           \/ ControlReset
  BY <1>4, <1>7 DEF SetPresent, SetWritable, SetInsertPolicy, SetFault, ControlReset
<1> QED BY <1>2, <1>3, <1>4, <1>5, <1>6, <1>7 DEF Next, vars

(* The power-up timer finds the card without power, whatever commands,     *)
(* resets and cards taken out came since the enquiry that started it: the  *)
(* assertion of sd_ocr_powerup holds.                                      *)
THEOREM TimerAssertionHolds == Spec => []TimerFindsNoPower
<1>1. Init => TimerFindsNoPower
  BY DEF Init, TimerFindsNoPower
<1>2. SdInv /\ TimerFindsNoPower /\ [Next]_vars => TimerFindsNoPower'
  BY TimerStep
<1> QED BY <1>1, <1>2, SdInductive, PTL DEF Spec
=============================================================================
