---------------------------- MODULE BoardProofs ------------------------------
(***************************************************************************)
(* The T5 board, for any activities, fixtures, times and writes of the     *)
(* firmware.  The SPI bus: one owner, one honest trace of each             *)
(* transaction, and no time out of the radio is lost, whatever the         *)
(* expander, the host and the reset do.  The devices on the I2C bus and    *)
(* the receiver: no touch and no press is lost on the firmware, the supply *)
(* earns its good power, and sentences keep their distance.                *)
(*                                                                         *)
(* The host link of the other boards, for any firmware, traffic, chunks    *)
(* and number of connections: its two threads exchange whole requests and  *)
(* answers through the mailboxes they share without a lock, the frames     *)
(* that arrive whole and fit are handed over in order, what the host       *)
(* touches and presses is kept for the firmware, and the panel shows what  *)
(* the firmware exports.                                                   *)
(***************************************************************************)
EXTENDS T5Board, HostLink, Sequences, SequenceTheorems, WellFoundedInduction, TLAPS

Time == 0..Spi!None
RadioType ==
  [powered : BOOLEAN, inReset : BOOLEAN, mode : Spi!Modes, fault : Spi!Faults,
   irq : SUBSET Spi!Interrupts, busy : Time, deadline : Time, pending : Time,
   selected : BOOLEAN, command : Spi!Commands \cup {"none"}, timer : Time]

(* What Schedule needs to find the time out that comes first.              *)
Waiting(r) ==
  /\ r.mode \in {"tx", "rx"} /\ r.deadline = 0 => r.timer # Spi!None
  /\ r.mode = "tx" => r.deadline # Spi!None
(* Nothing is due.                                                         *)
Settled(r) ==
  /\ r.mode \in {"tx", "rx"} => r.deadline # 0
  /\ r.mode = "tx" => r.deadline # Spi!None
Sound(r) == r \in RadioType /\ Spi!TimersArmed(r)

----------------------------------------------------------------------------
(* The radio.                                                              *)

LEMMA Values ==
  /\ 0 \in Time /\ Spi!None \in Time /\ Spi!CommandBusy \in Time
  /\ {TxTime, RxTime} \cup Delays \subseteq Time \ {0, Spi!None} /\ Spi!None # 0
  /\ {"standby", "fs", "sleep", "tx", "rx"} \subseteq Spi!Modes /\ "none" \in Spi!Faults
  /\ {} \in SUBSET Spi!Interrupts
BY BoardAssumption DEF Time, Spi!None, Spi!CommandBusy, Spi!Modes, Spi!Faults

(* TimersArmed, one time out after the other.                              *)
Awaited(r, t) == t \notin {0, Spi!None} => r.timer # Spi!None /\ r.timer <= t
LEMMA ArmedIs ==
  ASSUME NEW r
  PROVE  Spi!TimersArmed(r) <=> /\ Awaited(r, r.busy)
                                /\ r.mode \in {"tx", "rx"} => Awaited(r, r.deadline)
                                /\ r.mode = "rx" => Awaited(r, r.pending)
                                /\ Waiting(r)
<1> DEFINE ts == {r.busy} \cup (IF r.mode \in {"tx", "rx"} THEN {r.deadline} ELSE {})
                          \cup (IF r.mode = "rx" THEN {r.pending} ELSE {})
<1>1. Spi!TimersArmed(r) <=> (\A t \in ts : Awaited(r, t)) /\ Waiting(r)
  BY DEF Spi!TimersArmed, Awaited, Waiting
<1>2. \A t : t \in ts <=> \/ t = r.busy
                          \/ (r.mode \in {"tx", "rx"} /\ t = r.deadline)
                          \/ (r.mode = "rx" /\ t = r.pending)
  OBVIOUS
<1> HIDE DEF ts
<1>3. (\A t \in ts : Awaited(r, t)) <=> /\ Awaited(r, r.busy)
                                        /\ (r.mode \in {"tx", "rx"} => Awaited(r, r.deadline))
                                        /\ (r.mode = "rx" => Awaited(r, r.pending))
  BY <1>2
<1> QED BY <1>1, <1>3

LEMMA ThreeHaveMin ==
  ASSUME NEW a \in Nat, NEW b \in Nat, NEW c \in Nat, NEW S \in SUBSET {a, b, c}, S # {}
  PROVE  \E m \in S : \A x \in S : m <= x
<1>1. PICK x \in S : TRUE
  OBVIOUS
<1>2. CASE a \in S /\ (b \in S => a <= b) /\ (c \in S => a <= c)
  BY <1>2
<1>3. CASE b \in S /\ (a \in S => b <= a) /\ (c \in S => b <= c)
  BY <1>3
<1>4. CASE c \in S /\ (a \in S => c <= a) /\ (b \in S => c <= b)
  BY <1>4
<1> QED BY <1>1, <1>2, <1>3, <1>4

(* The timer is set for the first of what is to come.                      *)
LEMMA ScheduleArms ==
  ASSUME NEW r \in RadioType, Waiting(r)
  PROVE  Sound(Spi!Schedule(r)) /\ \E t \in Time : Spi!Schedule(r) = [r EXCEPT !.timer = t]
<1> DEFINE S == Spi!Upcoming(r)
           s == Spi!Schedule(r)
<1>1. /\ r.busy \in Time /\ r.deadline \in Time /\ r.pending \in Time /\ r.timer \in Time
      /\ Time \subseteq Nat
  BY DEF RadioType, Time, Spi!None
<1>2. /\ S \subseteq {r.busy, r.deadline, r.pending}
      /\ \A t \in S : t \in Time /\ t # Spi!None
      /\ \A t \in {r.busy, r.deadline, r.pending} : t \notin {0, Spi!None} => t \in S
  BY <1>1 DEF Spi!Upcoming
<1> HIDE DEF S
<1>3. CASE S = {}
  <2>1. s = r /\ r = [r EXCEPT !.timer = r.timer]
    BY <1>3 DEF Spi!Schedule, S, RadioType
  <2>2. Spi!TimersArmed(r)
    <3>1. Awaited(r, r.busy) /\ Awaited(r, r.deadline) /\ Awaited(r, r.pending)
      BY <1>2, <1>3 DEF Awaited
    <3> QED BY <3>1, ArmedIs
  <2> QED BY <1>1, <2>1, <2>2 DEF Sound
<1>4. CASE S # {}
  <2> DEFINE m == Spi!Min(S)
  <2>1. m \in S /\ \A x \in S : m <= x
    <3>1. \E y \in S : \A x \in S : y <= x
      BY <1>1, <1>2, <1>4, ThreeHaveMin
    <3> QED BY <3>1 DEF Spi!Min
  <2>2. s = [r EXCEPT !.timer = m]
    BY <1>4 DEF Spi!Schedule, S
  <2> HIDE DEF m
  <2>3. m \in Time /\ m # Spi!None
    BY <1>2, <2>1
  <2>4. s \in RadioType /\ s.timer = m /\ s.busy = r.busy /\ s.deadline = r.deadline
        /\ s.pending = r.pending /\ s.mode = r.mode
    BY <2>2, <2>3 DEF RadioType
  <2> HIDE DEF s
  <2>5. Spi!TimersArmed(s)
    BY <1>2, <2>1, <2>3, <2>4, ArmedIs DEF Awaited, Waiting
  <2> QED BY <2>2, <2>3, <2>4, <2>5 DEF Sound, s
<1> QED BY <1>3, <1>4
LEMMA ScheduleSettled ==
  ASSUME NEW r \in RadioType, Waiting(r) \/ Settled(r) \/ Spi!TimersArmed(r)
  PROVE  Sound(Spi!Schedule(r)) /\ Spi!Schedule(r).selected = r.selected
<1>1. Waiting(r)
  BY ArmedIs DEF Waiting, Settled
<1>2. PICK t \in Time : Spi!Schedule(r) = [r EXCEPT !.timer = t]
  BY <1>1, ScheduleArms
<1>3. Spi!Schedule(r).selected = r.selected
  BY <1>2 DEF RadioType
<1> QED BY <1>1, <1>3, ScheduleArms

(* Schedule of what is settled is settled.                                 *)
LEMMA ScheduleKeepsSettled ==
  ASSUME NEW r \in RadioType, Settled(r)
  PROVE  Settled(Spi!Schedule(r))
<1>1. Waiting(r)
  BY DEF Waiting, Settled
<1>2. PICK t \in Time : Spi!Schedule(r) = [r EXCEPT !.timer = t]
  BY <1>1, ScheduleArms
<1> QED BY <1>2 DEF Settled, RadioType

(* What is due is done.                                                    *)
LEMMA SyncSettles ==
  ASSUME NEW r \in RadioType, r.mode = "tx" => r.deadline # Spi!None
  PROVE  /\ Sound(Spi!Sync(r)) /\ Settled(Spi!Sync(r))
         /\ Spi!Sync(r).selected = r.selected
<1> DEFINE a == Spi!TransmitEnds(r)
           b == Spi!PacketArrives(a)
           c == Spi!ReceiveEnds(b)
<1>0. Spi!None \in Time
  BY DEF Time, Spi!None
<1>1. /\ a \in RadioType /\ a.selected = r.selected
      /\ a.mode = "tx" => a.deadline # 0 /\ a.deadline # Spi!None
  BY <1>0 DEF RadioType, Spi!TransmitEnds, Spi!Modes, Spi!Interrupts
<1> HIDE DEF a
<1>2. /\ b \in RadioType /\ b.selected = r.selected
      /\ b.mode = "tx" => b.deadline # 0 /\ b.deadline # Spi!None
  BY <1>0, <1>1, ZenonT(40) DEF RadioType, Spi!PacketArrives, Spi!Modes, Spi!Interrupts
<1> HIDE DEF b
<1>3. /\ c \in RadioType /\ c.selected = r.selected /\ Settled(c)
  BY <1>0, <1>2 DEF RadioType, Spi!ReceiveEnds, Spi!Modes, Spi!Interrupts, Settled
<1>4. Spi!Sync(r) = Spi!Schedule(c)
  BY DEF Spi!Sync, a, b
<1> HIDE DEF c
<1> QED BY <1>3, <1>4, ScheduleSettled, ScheduleKeepsSettled

LEMMA SoundSyncs ==
  ASSUME NEW r, Sound(r)
  PROVE  /\ Sound(Spi!Sync(r)) /\ Settled(Spi!Sync(r))
         /\ Spi!Sync(r).selected = r.selected
<1>1. r \in RadioType /\ (r.mode = "tx" => r.deadline # Spi!None)
  BY ArmedIs DEF Sound, Waiting
<1> QED BY <1>1, SyncSettles

(* A radio that stands by waits for nothing but the end of Busy.           *)
LEMMA StandbySettled ==
  ASSUME NEW r \in RadioType, r.mode = "standby"
  PROVE  Settled(r)
BY DEF Settled

(* Chip select, with the command that was sent meanwhile.                  *)
LEMMA ChipSelectIsSound ==
  ASSUME NEW r, Sound(r), NEW down \in BOOLEAN
  PROVE  Sound(Spi!SetCs(r, down)) /\ Spi!SetCs(r, down).selected = down
<1> DEFINE s == Spi!Sync(r)
<1>1. s \in RadioType /\ Settled(s)
  BY SoundSyncs DEF Sound
<1> HIDE DEF s
<1>2. CASE down
  <2> DEFINE t == [s EXCEPT !.selected = TRUE, !.command = "none"]
  <2>1. t \in RadioType /\ Settled(t) /\ t.selected = TRUE
    BY <1>1 DEF RadioType, Settled
  <2>2. Spi!SetCs(r, down) = Spi!Schedule(t)
    BY <1>2 DEF Spi!SetCs, s
  <2> HIDE DEF t
  <2> QED BY <1>2, <2>1, <2>2, ScheduleSettled
<1>3. CASE ~ down
  <2> DEFINE u == IF s.selected /\ Spi!Available(s) THEN Spi!Apply(s) ELSE s
             t == [u EXCEPT !.selected = FALSE, !.command = "none"]
  <2>1. u \in RadioType /\ Settled(u)
    <3>1. /\ TxTime \in Time /\ TxTime # 0 /\ TxTime # Spi!None
          /\ RxTime \in Time /\ RxTime # 0
          /\ Spi!None \in Time /\ Spi!None # 0 /\ Spi!CommandBusy \in Time
      BY Values
    <3>2. Spi!Apply(s) \in RadioType /\ Settled(Spi!Apply(s))
      <4>1. CASE s.command \in {"sleep", "standby", "fs"}
        <5>1. Spi!Apply(s) = [s EXCEPT !.mode = s.command, !.busy = Spi!CommandBusy]
          BY <4>1 DEF Spi!Apply
        <5> QED BY <1>1, <3>1, <4>1, <5>1 DEF RadioType, Settled, Spi!Modes
      <4>2. CASE s.command = "tx"
        <5>1. Spi!Apply(s) = [s EXCEPT !.mode = "tx", !.irq = @ \ {"sent", "timeout"},
                                       !.busy = Spi!CommandBusy, !.deadline = TxTime]
          BY <4>2 DEF Spi!Apply
        <5>2. s.irq \ {"sent", "timeout"} \in SUBSET Spi!Interrupts /\ "tx" \in Spi!Modes
          BY <1>1, Values DEF RadioType
        <5> QED BY <1>1, <3>1, <5>1, <5>2, ZenonT(40) DEF RadioType, Settled
      <4>3. CASE s.command \in {"rx", "rx_until"}
        <5>1. PICK d \in {Spi!None, RxTime} :
                Spi!Apply(s) = [s EXCEPT !.mode = "rx", !.irq = @ \cap {"sent"},
                                         !.busy = Spi!CommandBusy, !.deadline = d]
          BY <4>3 DEF Spi!Apply, Spi!Receiving
        <5>2. s.irq \cap {"sent"} \in SUBSET Spi!Interrupts /\ "rx" \in Spi!Modes
              /\ d \in Time /\ d # 0
          BY <1>1, <3>1, Values DEF RadioType
        <5> QED BY <1>1, <3>1, <5>1, <5>2, ZenonT(40) DEF RadioType, Settled
      <4>4. CASE s.command = "clear"
        <5>1. Spi!Apply(s) = [s EXCEPT !.irq = {}, !.busy = Spi!CommandBusy]
          BY <4>4 DEF Spi!Apply
        <5> QED BY <1>1, <3>1, <5>1 DEF RadioType, Settled
      <4>5. CASE s.command \in {"nop", "other"}
        <5>1. Spi!Apply(s) = [s EXCEPT !.busy = Spi!CommandBusy]
          BY <4>5 DEF Spi!Apply
        <5> QED BY <1>1, <3>1, <5>1 DEF RadioType, Settled
      <4>6. CASE s.command \in {"unknown", "none"}
        BY <1>1, <4>6 DEF Spi!Apply
      <4> QED BY <1>1, <4>1, <4>2, <4>3, <4>4, <4>5, <4>6 DEF RadioType, Spi!Commands
    <3> QED BY <1>1, <3>2
  <2> HIDE DEF u
  <2>2. t \in RadioType /\ Settled(t) /\ t.selected = FALSE
    BY <2>1 DEF RadioType, Settled
  <2>3. Spi!SetCs(r, down) = Spi!Schedule(t)
    BY <1>3 DEF Spi!SetCs, Spi!Deselected, s, u
  <2> HIDE DEF t
  <2> QED BY <1>3, <2>2, <2>3, ScheduleSettled
<1> QED BY <1>2, <1>3

(* The bytes of a command.                                                 *)
LEMMA TransferIsSound ==
  ASSUME NEW r, Sound(r), NEW command \in Sent
  PROVE  Sound(Spi!Transfer(r, command)) /\ Spi!Transfer(r, command).selected = r.selected
<1> DEFINE s == Spi!Sync(r)
           t == [s EXCEPT !.command = command,
                          !.mode = IF @ = "sleep" /\ command = "nop" THEN "standby" ELSE @]
<1>1. Sound(s) /\ s \in RadioType /\ s.selected = r.selected
  BY SoundSyncs DEF Sound
<1>2. Spi!Transfer(r, command) \in {s, t}
  BY DEF Spi!Transfer
<1> HIDE DEF s
<1>3. t \in RadioType /\ t.selected = s.selected /\ t.busy = s.busy /\ t.deadline = s.deadline
      /\ t.pending = s.pending /\ t.timer = s.timer
      /\ (t.mode = s.mode \/ t.mode = "standby")
  BY <1>1, BoardAssumption DEF RadioType, Spi!Modes
<1> HIDE DEF t
<1>4. Spi!TimersArmed(t)
  BY <1>1, <1>3, ArmedIs DEF Sound, Awaited, Waiting
<1> QED BY <1>1, <1>2, <1>3, <1>4 DEF Sound

(* The rail, the reset line, the host and the clock.                       *)
LEMMA ResetIsSettled ==
  ASSUME NEW r \in RadioType
  PROVE  LET p == Spi!ResetProtocol(r)
         IN  p \in RadioType /\ Settled(p) /\ ~ p.selected
<1> DEFINE p == Spi!ResetProtocol(r)
<1>1. p \in RadioType /\ p.mode = "standby" /\ ~ p.selected
  BY Values DEF RadioType, Spi!ResetProtocol
<1> QED BY <1>1, StandbySettled

LEMMA ColdResetIsSound ==
  ASSUME NEW r, Sound(r)
  PROVE  Sound(Spi!ColdReset(r)) /\ ~ Spi!ColdReset(r).selected
<1> DEFINE c == Spi!ColdReset(r)
<1>1. r.timer \in Time
  BY DEF Sound, RadioType
<1>2. c \in RadioType /\ c.mode = "standby" /\ c.busy = 0 /\ c.selected = FALSE
  BY <1>1, Values DEF RadioType, Spi!ColdReset, Spi!NewRadio
<1> HIDE DEF c
<1>3. Spi!TimersArmed(c)
  BY <1>2, ArmedIs DEF Awaited, Waiting
<1> QED BY <1>2, <1>3 DEF Sound, c

LEMMA PowerIsSound ==
  ASSUME NEW r, Sound(r), NEW on \in BOOLEAN
  PROVE  Sound(Spi!SetPower(r, on)) /\ ~ Spi!SetPower(r, on).selected
<1> DEFINE p == Spi!ResetProtocol(r)
           q == [p EXCEPT !.powered = on]
<1>1. p \in RadioType /\ Settled(p) /\ ~ p.selected
  BY ResetIsSettled DEF Sound
<1>2. Spi!SetPower(r, on) = Spi!Schedule(q)
  BY DEF Spi!SetPower
<1> HIDE DEF p
<1>3. q \in RadioType /\ Settled(q) /\ q.selected = p.selected
  BY <1>1 DEF RadioType, Settled
<1> HIDE DEF q
<1> QED BY <1>1, <1>2, <1>3, ScheduleSettled

LEMMA ResetLineIsSound ==
  ASSUME NEW r, Sound(r), NEW asserted \in BOOLEAN
  PROVE  /\ Sound(Spi!SetReset(r, asserted))
         /\ Spi!SetReset(r, asserted).selected => r.selected
<1> DEFINE p == Spi!ResetProtocol(r)
           b == IF ~ asserted /\ r.powered THEN Spi!CommandBusy ELSE 0
           q == [p EXCEPT !.inReset = asserted, !.busy = b]
<1>1. r \in RadioType /\ p \in RadioType /\ Settled(p) /\ ~ p.selected
  BY ResetIsSettled DEF Sound
<1>2. Spi!SetReset(r, asserted) = Spi!Schedule(IF r.inReset = asserted THEN r ELSE q)
  BY DEF Spi!SetReset
<1>3. b \in Time
  BY DEF Time, Spi!None, Spi!CommandBusy
<1> HIDE DEF p, b
<1>4. q \in RadioType /\ Settled(q) /\ q.selected = p.selected
  BY <1>1, <1>3 DEF RadioType, Settled
<1> HIDE DEF q
<1>5. CASE r.inReset = asserted
  <2>1. Spi!SetReset(r, asserted) = Spi!Schedule(r)
    BY <1>2, <1>5
  <2> QED BY <1>1, <2>1, ScheduleSettled DEF Sound
<1>6. CASE r.inReset # asserted
  <2>1. Spi!SetReset(r, asserted) = Spi!Schedule(q)
    BY <1>2, <1>6
  <2> QED BY <1>1, <1>4, <2>1, ScheduleSettled
<1> QED BY <1>5, <1>6

LEMMA FaultIsSound ==
  ASSUME NEW r, Sound(r), NEW fault \in RadioFaults
  PROVE  /\ Sound(Spi!SetFault(r, fault))
         /\ Spi!SetFault(r, fault).selected => r.selected
<1> DEFINE y == Spi!Sync(r)
           t == [y EXCEPT !.fault = fault]
<1>1. y \in RadioType /\ Settled(y) /\ y.selected = r.selected
  BY SoundSyncs DEF Sound
<1>2. Spi!SetFault(r, fault) = Spi!Schedule(t)
  BY DEF Spi!SetFault
<1> HIDE DEF y
<1>3. t \in RadioType /\ Settled(t) /\ t.selected = y.selected
  BY <1>1, BoardAssumption DEF RadioType, Settled
<1> HIDE DEF t
<1> QED BY <1>1, <1>2, <1>3, ScheduleSettled

LEMMA PacketIsSound ==
  ASSUME NEW r, Sound(r), NEW delay \in Delays
  PROVE  /\ Sound(Spi!ScheduleReceive(r, delay))
         /\ Spi!ScheduleReceive(r, delay).selected => r.selected
<1> DEFINE y == Spi!Sync(r)
           t == [y EXCEPT !.pending = delay]
<1>1. y \in RadioType /\ Settled(y) /\ y.selected = r.selected
  BY SoundSyncs DEF Sound
<1>2. Spi!ScheduleReceive(r, delay) = Spi!Schedule(t)
  BY DEF Spi!ScheduleReceive
<1> HIDE DEF y
<1>3. t \in RadioType /\ Settled(t) /\ t.selected = y.selected
  BY <1>1, Values DEF RadioType, Settled
<1> HIDE DEF t
<1> QED BY <1>1, <1>2, <1>3, ScheduleSettled

(* The host's reset pulses the reset line; the timer finds what is due.    *)
LEMMA ControlIsSound ==
  ASSUME NEW r, Sound(r), NEW s \in {Spi!ControlReset(r), Spi!TimerFires(r)}
  PROVE  Sound(s) /\ (s.selected => r.selected)
<1>1. CASE s = Spi!ControlReset(r)
  <2> DEFINE y == Spi!Sync(r)
             u == Spi!SetReset(y, TRUE)
             v == Spi!SetReset(u, FALSE)
  <2>1. s = Spi!Schedule(v)
    BY <1>1 DEF Spi!ControlReset
  <2>2. Sound(y) /\ y.selected = r.selected
    BY SoundSyncs
  <2> HIDE DEF y
  <2>3. Sound(u) /\ (u.selected => y.selected)
    BY <2>2, ResetLineIsSound
  <2> HIDE DEF u
  <2>4. Sound(v) /\ (v.selected => u.selected)
    BY <2>3, ResetLineIsSound
  <2> HIDE DEF v
  <2>5. Sound(s) /\ s.selected = v.selected
    BY <2>1, <2>4, ScheduleSettled DEF Sound
  <2> QED BY <2>2, <2>3, <2>4, <2>5
<1>2. CASE s = Spi!TimerFires(r)
  <2> DEFINE t == [r EXCEPT !.timer = Spi!None]
  <2>1. s = Spi!Sync(t)
    BY <1>2 DEF Spi!TimerFires
  <2>2. r \in RadioType /\ (r.mode = "tx" => r.deadline # Spi!None)
    BY ArmedIs DEF Sound, Waiting
  <2>3. t \in RadioType /\ (t.mode = "tx" => t.deadline # Spi!None) /\ t.selected = r.selected
    BY <2>2, Values DEF RadioType
  <2> HIDE DEF t
  <2> QED BY <2>1, <2>3, SyncSettles
<1> QED BY <1>1, <1>2

LEMMA TickIsSound ==
  ASSUME NEW r, Sound(r)
  PROVE  Sound(Spi!Tick(r)) /\ Spi!Tick(r).selected = r.selected
<1> DEFINE s == Spi!Tick(r)
<1>1. r \in RadioType /\ r.busy \in Time /\ r.deadline \in Time /\ r.pending \in Time
      /\ r.timer \in Time
  BY DEF Sound, RadioType
<1>2. ASSUME NEW t \in Time
      PROVE  /\ Spi!Later(t) \in Time /\ (Spi!Later(t) = Spi!None => t = Spi!None)
             /\ (Spi!Later(t) # 0 => t # 0)
             /\ (t # 0 /\ t # Spi!None => Spi!Later(t) = t - 1)
             /\ (t = 0 => Spi!Later(t) = 0) /\ (t = Spi!None => Spi!Later(t) = Spi!None)
  BY DEF Time, Spi!Later, Spi!None
<1>3. /\ s \in RadioType /\ s.mode = r.mode /\ s.selected = r.selected
      /\ s.busy = Spi!Later(r.busy) /\ s.deadline = Spi!Later(r.deadline)
      /\ s.pending = Spi!Later(r.pending) /\ s.timer = Spi!Later(r.timer)
  BY <1>1, <1>2 DEF RadioType, Spi!Tick
<1> HIDE DEF s
<1>4. ASSUME NEW t \in Time, Awaited(r, t) PROVE Awaited(s, Spi!Later(t))
  BY <1>1, <1>2, <1>3, <1>4 DEF Awaited, Time, Spi!None
<1>5. /\ Awaited(r, r.busy) /\ (r.mode \in {"tx", "rx"} => Awaited(r, r.deadline))
      /\ (r.mode = "rx" => Awaited(r, r.pending)) /\ Waiting(r)
  BY ArmedIs DEF Sound
<1>6. Waiting(s)
  <2>1. ASSUME r.mode \in {"tx", "rx"}, s.deadline = 0 PROVE s.timer # Spi!None
    <3>1. CASE r.deadline = 0
      BY <1>1, <1>2, <1>3, <1>5, <2>1, <3>1 DEF Waiting
    <3>2. CASE r.deadline # 0
      <4>1. r.deadline # Spi!None
        BY <1>1, <1>2, <1>3, <2>1, Values
      <4> QED BY <1>1, <1>2, <1>3, <1>5, <2>1, <3>2, <4>1 DEF Awaited
    <3> QED BY <3>1, <3>2
  <2>2. r.mode = "tx" => s.deadline # Spi!None
    BY <1>1, <1>2, <1>3, <1>5 DEF Waiting
  <2> QED BY <1>3, <2>1, <2>2 DEF Waiting
<1>7. Spi!TimersArmed(s)
  BY <1>1, <1>3, <1>4, <1>5, <1>6, ArmedIs
<1> QED BY <1>3, <1>7 DEF Sound, s
----------------------------------------------------------------------------
(* The bus.                                                                *)

BusTypeOK ==
  /\ high \in [Spi!Devices -> BOOLEAN]
  /\ active \in Spi!Devices \cup {"conflict", "none"}
  /\ error \in BOOLEAN /\ flawed \in BOOLEAN /\ honest \in BOOLEAN
  /\ low \subseteq Spi!Devices

(* While a device owns the transaction the controller knows of everything  *)
(* that went wrong; a conflict is no success.                              *)
Known ==
  /\ honest
  /\ active \in Spi!Devices => error = flawed
  /\ active = "conflict" => flawed

BInv == BusTypeOK /\ Sound(radio) /\ Spi!OneOwner /\ Known

(* The lines to the radio.                                                 *)
LEMMA LinesAreSound ==
  ASSUME NEW r, Sound(r), NEW from \in SUBSET Spi!Devices, NEW to \in SUBSET Spi!Devices,
         r.selected => "radio" \in from
  PROVE  Sound(Spi!Lines(r, from, to)) /\ (Spi!Lines(r, from, to).selected => "radio" \in to)
<1>1. CASE ("radio" \in from) = ("radio" \in to)
  BY <1>1 DEF Spi!Lines
<1>2. CASE ("radio" \in from) # ("radio" \in to)
  <2>1. ("radio" \in to) \in BOOLEAN
    OBVIOUS
  <2>2. Spi!Lines(r, from, to) = Spi!SetCs(r, "radio" \in to)
    BY <1>2 DEF Spi!Lines
  <2>3. Sound(Spi!SetCs(r, "radio" \in to)) /\ Spi!SetCs(r, "radio" \in to).selected = ("radio" \in to)
    BY <2>1, ChipSelectIsSound
  <2> QED BY <2>2, <2>3
<1> QED BY <1>1, <1>2

LEMMA AbortIsSound ==
  ASSUME BInv
  PROVE  Sound(Spi!Abort(radio)) /\ ~ Spi!Abort(radio).selected
<1> DEFINE l == Spi!Lines(radio, low, {})
<1>1. Sound(l)
  BY LinesAreSound DEF BInv, BusTypeOK, Spi!OneOwner
<1> HIDE DEF l
<1>2. Spi!Abort(radio) = Spi!ColdReset(l)
  BY DEF Spi!Abort, l
<1> QED BY <1>1, <1>2, ColdResetIsSound

(* A step of the radio alone, which is not selected by it.                 *)
LEMMA RadioAlone ==
  ASSUME BInv, NEW r, Sound(r), r.selected => radio.selected, radio' = r,
         UNCHANGED <<high, active, error, low, owed, flawed, honest>>
  PROVE  BInv'
<1>1. Sound(radio')
  OBVIOUS
<1>2. BusTypeOK' /\ Known'
  BY DEF BInv, BusTypeOK, Known
<1>3. Spi!OneOwner'
  BY DEF BInv, Spi!OneOwner
<1> QED BY <1>1, <1>2, <1>3 DEF BInv

LEMMA SelectFirstKeeps ==
  ASSUME BInv, NEW d \in Spi!Devices, Spi!SelectFirst(d)
  PROVE  BInv'
<1> DEFINE l == Spi!Lines(radio, low, {d})
<1>1. /\ active = "none" /\ high' = [high EXCEPT ![d] = FALSE] /\ error' = FALSE
      /\ owed' = owed + 1 /\ honest' = honest
      /\ \/ active' = d /\ low' = {d} /\ radio' = l /\ flawed' = FALSE
         \/ active' = "conflict" /\ low' = {} /\ radio' = Spi!Abort(radio) /\ flawed' = TRUE
  BY DEF Spi!SelectFirst
<1>2. /\ owed = 0 /\ \A e \in Spi!Devices : high[e]
  BY <1>1 DEF BInv, Spi!OneOwner
<1>3. Sound(l) /\ (l.selected => "radio" \in {d})
  BY LinesAreSound DEF BInv, BusTypeOK, Spi!OneOwner
<1> HIDE DEF l
<1>4. BusTypeOK' /\ Known'
  BY <1>1 DEF BInv, BusTypeOK, Known, Spi!Devices
<1>5. Sound(radio') /\ (radio'.selected => "radio" \in low')
  BY <1>1, <1>3, AbortIsSound
<1>6. \A e \in Spi!Devices : high'[e] <=> e # d
  BY <1>1, <1>2 DEF BInv, BusTypeOK
<1>7. Spi!OneOwner'
  <2>1. owed' = 1 /\ active' # "none" /\ ~ \A e \in Spi!Devices : high'[e]
    BY <1>1, <1>2, <1>6 DEF Spi!Devices
  <2>2. low' = {active'} \cap Spi!Devices
    BY <1>1 DEF Spi!Devices
  <2>3. active' \in Spi!Devices => active' = d
    BY <1>1 DEF Spi!Devices
  <2> QED BY <1>5, <1>6, <2>1, <2>2, <2>3 DEF Spi!OneOwner
<1> QED BY <1>4, <1>5, <1>7 DEF BInv

LEMMA SelectSecondKeeps ==
  ASSUME BInv, NEW d \in Spi!Devices, Spi!SelectSecond(d)
  PROVE  BInv'
<1>1. /\ high[d] /\ active # "none" /\ high' = [high EXCEPT ![d] = FALSE] /\ low' = {}
      /\ radio' = Spi!Abort(radio) /\ flawed' = TRUE /\ UNCHANGED <<error, owed, honest>>
  BY DEF Spi!SelectSecond
<1>2. active' = "conflict"
  BY <1>1 DEF Spi!SelectSecond, BInv, Spi!OneOwner
<1>3. BusTypeOK' /\ Known'
  BY <1>1, <1>2 DEF BInv, BusTypeOK, Known, Spi!Devices
<1>4. Sound(radio') /\ ~ radio'.selected
  BY <1>1, AbortIsSound
<1>5. ~ high'[d]
  BY <1>1 DEF BInv, BusTypeOK
<1>6. Spi!OneOwner'
  BY <1>1, <1>2, <1>4, <1>5 DEF BInv, Spi!OneOwner, Spi!Devices
<1> QED BY <1>3, <1>4, <1>6 DEF BInv

(* The trace is sent when the last select is high again.                   *)
LEMMA DeselectKeeps ==
  ASSUME BInv, NEW d \in Spi!Devices, Spi!Deselect(d)
  PROVE  BInv'
<1> DEFINE l == Spi!Lines(radio, low, low \ {d})
<1>1. /\ ~ high[d] /\ high' = [high EXCEPT ![d] = TRUE] /\ low' = low \ {d} /\ radio' = l
  BY DEF Spi!Deselect
<1>2. Sound(l) /\ (l.selected => "radio" \in low \ {d})
  BY LinesAreSound DEF BInv, BusTypeOK, Spi!OneOwner
<1> HIDE DEF l
<1>3. Sound(radio') /\ (radio'.selected => "radio" \in low')
  BY <1>1, <1>2
<1>4. active # "none" /\ high'[d] /\ \A e \in Spi!Devices : e # d => high'[e] = high[e]
  BY <1>1 DEF BInv, BusTypeOK, Spi!OneOwner
<1>5. high' \in [Spi!Devices -> BOOLEAN] /\ low' \subseteq Spi!Devices
  BY <1>1 DEF BInv, BusTypeOK
<1>6. CASE \A e \in Spi!Devices : high'[e]
  <2>1. /\ active' = "none" /\ error' = FALSE /\ flawed' = FALSE /\ owed' = owed - 1
        /\ honest' = (honest /\ Spi!ResultOk = ~ flawed)
    BY <1>4, <1>6 DEF Spi!Deselect, Spi!Finished
  <2>2. Spi!ResultOk = ~ flawed
    <3>1. CASE active \in Spi!Devices
      BY <3>1 DEF BInv, BusTypeOK, Known, Spi!ResultOk
    <3>2. CASE active = "conflict"
      BY <3>2 DEF BInv, BusTypeOK, Known, Spi!ResultOk, Spi!Devices
    <3> QED BY <1>4, <3>1, <3>2 DEF BInv, BusTypeOK
  <2>3. honest'
    BY <2>1, <2>2 DEF BInv, Known
  <2>4. BusTypeOK' /\ Known'
    BY <1>5, <2>1, <2>3 DEF BInv, BusTypeOK, Known, Spi!Devices
  <2>5. low' = {}
    BY <1>1, <1>4 DEF BInv, Spi!OneOwner, Spi!Devices
  <2>6. Spi!OneOwner'
    BY <1>3, <1>4, <1>6, <2>1, <2>5 DEF BInv, Spi!OneOwner, Spi!Devices
  <2> QED BY <1>3, <2>4, <2>6 DEF BInv
<1>7. CASE ~ \A e \in Spi!Devices : high'[e]
  <2>1. UNCHANGED <<active, error, owed, flawed, honest>>
    BY <1>7 DEF Spi!Deselect
  <2>2. active = "conflict"
    BY <1>1, <1>4, <1>7 DEF BInv, BusTypeOK, Spi!OneOwner
  <2>3. BusTypeOK' /\ Known'
    BY <1>5, <2>1 DEF BInv, BusTypeOK, Known
  <2>4. Spi!OneOwner'
    BY <1>1, <1>3, <1>7, <2>1, <2>2 DEF BInv, Spi!OneOwner, Spi!Devices
  <2> QED BY <1>3, <2>3, <2>4 DEF BInv
<1> QED BY <1>6, <1>7
(* A transfer of the guest: what goes wrong in a transaction is noted.     *)
LEMMA GuestWriteKeeps ==
  ASSUME BInv, NEW outcome \in Spi!Outcomes, NEW command \in Sent, Spi!GuestWrite(outcome, command)
  PROVE  BInv'
<1>1. ASSUME NEW cardFails \in BOOLEAN, Spi!TransferSelected(outcome, command, cardFails)
      PROVE  BInv'
  <2> DEFINE wrong == \/ outcome # "moved" \/ active = "conflict"
                      \/ cardFails /\ active = "sd" /\ outcome # "refused"
  <2>1. /\ radio' \in {radio, Spi!Transfer(radio, command)}
        /\ error' = (error \/ wrong) /\ flawed' = (flawed \/ wrong)
        /\ UNCHANGED <<high, active, low, owed, honest>>
    BY <1>1 DEF Spi!TransferSelected
  <2>2. Sound(radio') /\ radio'.selected = radio.selected
    BY <2>1, TransferIsSound DEF BInv
  <2>3. BusTypeOK' /\ Known'
    BY <2>1 DEF BInv, BusTypeOK, Known
  <2>4. Spi!OneOwner'
    BY <2>1, <2>2 DEF BInv, Spi!OneOwner
  <2> QED BY <2>2, <2>3, <2>4 DEF BInv
<1>2. ASSUME NEW enabled \in SUBSET Spi!Devices, Spi!TransferHardware(enabled, outcome, command)
      PROVE  BInv'
  <2> DEFINE chosen == Spi!SetCs(radio, TRUE)
             used == IF outcome = "refused" THEN chosen ELSE Spi!Transfer(chosen, command)
  <2>1. /\ active = "none" /\ error' = FALSE
        /\ UNCHANGED <<high, active, low, owed, flawed, honest>>
        /\ radio' \in {Spi!Abort(radio), radio, Spi!SetCs(used, FALSE)}
    BY <1>2 DEF Spi!TransferHardware
  <2>2. Sound(radio') /\ (radio'.selected => radio.selected)
    <3>1. Sound(chosen)
      BY ChipSelectIsSound DEF BInv
    <3> HIDE DEF chosen
    <3>2. Sound(used)
      BY <3>1, TransferIsSound
    <3> HIDE DEF used
    <3>3. Sound(Spi!SetCs(used, FALSE)) /\ ~ Spi!SetCs(used, FALSE).selected
      BY <3>2, ChipSelectIsSound
    <3> QED BY <2>1, <3>3, AbortIsSound DEF BInv
  <2>3. BusTypeOK' /\ Known'
    BY <2>1 DEF BInv, BusTypeOK, Known, Spi!Devices
  <2>4. Spi!OneOwner'
    BY <2>1, <2>2 DEF BInv, Spi!OneOwner
  <2> QED BY <2>2, <2>3, <2>4 DEF BInv
<1>3. CASE Spi!TransferNowhere(outcome)
  <2>1. /\ active = "none" /\ error' = TRUE
        /\ UNCHANGED <<high, active, low, radio, owed, flawed, honest>>
    BY <1>3 DEF Spi!TransferNowhere
  <2>2. BusTypeOK' /\ Known' /\ Spi!OneOwner'
    BY <2>1 DEF BInv, BusTypeOK, Known, Spi!Devices, Spi!OneOwner
  <2> QED BY <2>1, <2>2 DEF BInv
<1> QED BY <1>1, <1>2, <1>3 DEF Spi!GuestWrite

LEMMA ResetKeeps ==
  ASSUME BInv, Spi!Reset
  PROVE  BInv'
<1>1. /\ active' = "none" /\ error' = FALSE /\ flawed' = FALSE /\ honest' = honest
      /\ owed' = IF active = "none" THEN owed ELSE owed - 1
      /\ high' = [e \in Spi!Devices |-> TRUE] /\ low' = {} /\ radio' = Spi!Abort(radio)
  BY DEF Spi!Reset
<1>2. owed' = 0
  BY <1>1 DEF BInv, Spi!OneOwner
<1>3. Sound(radio') /\ ~ radio'.selected
  BY <1>1, AbortIsSound
<1>4. BusTypeOK' /\ Known'
  BY <1>1 DEF BInv, BusTypeOK, Known, Spi!Devices
<1>5. Spi!OneOwner'
  BY <1>1, <1>2, <1>3 DEF Spi!OneOwner, Spi!Devices
<1> QED BY <1>3, <1>4, <1>5 DEF BInv

LEMMA RailKeeps ==
  ASSUME BInv, NEW on \in BOOLEAN, Spi!Rail(on)
  PROVE  BInv'
<1>1. Sound(Spi!SetPower(radio, on)) /\ ~ Spi!SetPower(radio, on).selected
  BY PowerIsSound DEF BInv
<1> QED BY <1>1, RadioAlone DEF Spi!Rail, Spi!RadioStep

LEMMA TimeKeeps ==
  ASSUME BInv, Spi!Time
  PROVE  BInv'
<1>1. Sound(Spi!Tick(radio)) /\ Spi!Tick(radio).selected = radio.selected
  BY TickIsSound DEF BInv
<1> QED BY <1>1, RadioAlone DEF Spi!Time, Spi!RadioStep

LEMMA BusStepKeeps ==
  ASSUME BInv, Spi!BusStep
  PROVE  BInv'
<1>0. Sound(radio)
  BY DEF BInv
<1>1. ASSUME NEW d \in Spi!Devices, Spi!SelectFirst(d) \/ Spi!SelectSecond(d) \/ Spi!Deselect(d)
      PROVE  BInv'
  BY <1>1, SelectFirstKeeps, SelectSecondKeeps, DeselectKeeps
<1>2. ASSUME NEW outcome \in Spi!Outcomes, NEW command \in Sent, Spi!GuestWrite(outcome, command)
      PROVE  BInv'
  BY <1>2, GuestWriteKeeps
<1>3. ASSUME NEW command \in Sent, NEW usable \in BOOLEAN, Spi!PollingTransmit(usable, command)
      PROVE  BInv'
  <2>1. CASE usable
    <3>1. /\ radio' = Spi!Transfer(radio, command)
          /\ UNCHANGED <<high, active, error, low, owed, flawed, honest>>
      BY <1>3, <2>1 DEF Spi!PollingTransmit, Spi!DirectTransfer
    <3>2. Sound(Spi!Transfer(radio, command))
          /\ Spi!Transfer(radio, command).selected = radio.selected
      BY <1>0, TransferIsSound
    <3> QED BY <3>1, <3>2, RadioAlone
  <2>2. CASE ~ usable
    <3>1. UNCHANGED <<radio, high, active, error, low, owed, flawed, honest>>
      BY <1>3, <2>2 DEF Spi!PollingTransmit, Spi!vars
    <3> QED BY <1>0, <3>1, RadioAlone
  <2> QED BY <2>1, <2>2
<1>4. ASSUME NEW kind \in {"once", "latched"}, Spi!ArmConflict(kind) PROVE BInv'
  BY <1>0, <1>4, RadioAlone DEF Spi!ArmConflict
<1>5. CASE Spi!Reset
  BY <1>5, ResetKeeps
<1>6. CASE Spi!RadioReset
  <2>1. Sound(Spi!ControlReset(radio)) /\ (Spi!ControlReset(radio).selected => radio.selected)
    BY <1>0, ControlIsSound
  <2> QED BY <1>6, <2>1, RadioAlone DEF Spi!RadioReset, Spi!RadioStep
<1>7. CASE Spi!RadioTimer
  <2>1. Sound(Spi!TimerFires(radio)) /\ (Spi!TimerFires(radio).selected => radio.selected)
    BY <1>0, ControlIsSound
  <2> QED BY <1>7, <2>1, RadioAlone DEF Spi!RadioTimer, Spi!RadioStep
<1>8. CASE Spi!Poll
  BY <1>0, <1>8, SoundSyncs, RadioAlone DEF Spi!Poll, Spi!RadioStep
<1>9. ASSUME NEW on \in BOOLEAN, Spi!ResetLine(on) PROVE BInv'
  BY <1>0, <1>9, ResetLineIsSound, RadioAlone DEF Spi!ResetLine, Spi!RadioStep
<1>10. ASSUME NEW fault \in RadioFaults, Spi!RadioFault(fault) PROVE BInv'
  <2>1. Sound(Spi!SetFault(radio, fault)) /\ (Spi!SetFault(radio, fault).selected => radio.selected)
    BY <1>0, FaultIsSound
  <2> QED BY <1>10, <2>1, RadioAlone DEF Spi!RadioFault, Spi!RadioStep
<1>11. ASSUME NEW delay \in Delays, NEW broker \in BOOLEAN, Spi!Packet(delay, broker) PROVE BInv'
  <2>1. /\ Sound(Spi!ScheduleReceive(radio, delay))
        /\ Spi!ScheduleReceive(radio, delay).selected => radio.selected
    BY <1>0, PacketIsSound
  <2> QED BY <1>11, <2>1, RadioAlone DEF Spi!Packet, Spi!RadioStep
<1> QED
  BY <1>1, <1>2, <1>3, <1>4, <1>5, <1>6, <1>7, <1>8, <1>9, <1>10, <1>11 DEF Spi!BusStep

----------------------------------------------------------------------------
LEMMA BInit == Init => BInv
<1> SUFFICES ASSUME Spi!Init PROVE BInv
  BY DEF Init
<1>1. /\ radio = Spi!NewRadio /\ radio \in RadioType /\ radio.mode = "standby" /\ radio.busy = 0
      /\ radio.selected = FALSE
  BY Values DEF Spi!Init, RadioType, Spi!NewRadio
<1>2. Sound(radio)
  BY <1>1, ArmedIs DEF Sound, Awaited, Waiting
<1>3. BusTypeOK /\ Known
  BY DEF Spi!Init, BusTypeOK, Known, Spi!Devices
<1>4. Spi!OneOwner
  BY <1>1 DEF Spi!Init, Spi!OneOwner, Spi!Devices
<1> QED BY <1>2, <1>3, <1>4 DEF BInv

LEMMA BStep == BInv /\ [Next]_vars => BInv'
<1> SUFFICES ASSUME BInv, [Next]_vars PROVE BInv'
  OBVIOUS
<1>1. ASSUME UNCHANGED spiVars PROVE BInv'
  BY <1>1, RadioAlone DEF spiVars, BInv
<1>2. CASE DeviceStep
  BY <1>1, <1>2 DEF DeviceStep
<1>3. CASE BusStep
  BY <1>3, BusStepKeeps DEF BusStep
<1>4. ASSUME NEW w \in Writes, WriteExpander(w) PROVE BInv'
  <2>1. UNCHANGED spiVars \/ Spi!Rail(Board!OutputHigh(pca', "rail"))
    BY <1>4 DEF WriteExpander
  <2>2. Board!OutputHigh(pca', "rail") \in BOOLEAN
    BY DEF Board!OutputHigh
  <2> QED BY <1>1, <2>1, <2>2, RailKeeps
<1>5. CASE Restart
  BY <1>5, ResetKeeps DEF Restart
<1>6. CASE Tick
  BY <1>1, <1>6, TimeKeeps DEF Tick
<1>7. CASE UNCHANGED vars
  BY <1>1, <1>7 DEF vars
<1> QED BY <1>2, <1>3, <1>4, <1>5, <1>6, <1>7 DEF Next

LEMMA BusInductive == Spec => []BInv
BY BInit, BStep, PTL DEF Spec

(* The SPI bus has one owner, a transaction one trace, and the radio's     *)
(* timer is set for everything that is to come, across rail changes,       *)
(* faults, the host's requests and restarts.                               *)
THEOREM BusHasOneOwner == Spec => []OneOwner
<1>1. BInv => OneOwner
  BY DEF BInv, OneOwner, Sound, Spi!RadioTimers
<1> QED BY <1>1, BusInductive, PTL

(* No trace reports a success that was none, or a failure that was one.    *)
THEOREM TracesAreHonest == Spec => []HonestTrace
<1>1. BInv => HonestTrace
  BY DEF BInv, Known, HonestTrace, Spi!HonestTrace
<1> QED BY <1>1, BusInductive, PTL

----------------------------------------------------------------------------
(* The devices on the I2C bus and the receiver.                            *)

TouchType ==
  [status : {"none", "contact", "released"}, active : BOOLEAN, release : BOOLEAN,
   asleep : BOOLEAN, trigger : {"low", "edge"}, intLow : BOOLEAN]
HostType == [finger : {"up", "down"}, key : {"up", "down"}, level : BOOLEAN]
ToldType == [finger : {"up", "down"}, owes : BOOLEAN]
ExpanderType ==
  [external : SUBSET Board!Pins, output : SUBSET Board!Pins, config : SUBSET Board!Pins,
   polarity : SUBSET Board!Pins, unread : BOOLEAN, release : BOOLEAN]
SupplyType == [enable : BOOLEAN, hold : BOOLEAN, ready : BOOLEAN, pending : BOOLEAN, left : Nat]
ReceiverType ==
  [fixture : Board!Fixtures, powered : BOOLEAN, next : Nat, stale : BOOLEAN,
   window : Seq(Board!Pieces), pending : BOOLEAN, probeTimer : Nat, timer : Nat]

(* The touch: a report of a finger that is down is not acknowledged away    *)
(* while it is down, and one that the firmware has read of a finger that is *)
(* down stands until it is acknowledged, so that the lift comes after it.   *)
TouchInv ==
  /\ gt911 \in TouchType /\ told \in ToldType /\ host \in HostType
  /\ Board!FingerTold
  /\ gt911.active <=> host.finger = "down"
  /\ gt911.release \/ gt911.status = "released" => ~ gt911.active
  /\ gt911.status = "contact" => gt911.active \/ gt911.release
  /\ told.owes /\ told.finger = "down" => gt911.status = "contact"
  /\ host.level => gt911.trigger = "low"
  /\ gt911.status # "none" /\ host.level => gt911.intLow

(* The key: a press the firmware has not read is one the expander keeps.   *)
KeyInv ==
  /\ pca \in ExpanderType /\ host \in HostType /\ pressOwed \in BOOLEAN
  /\ Board!KeyTold
  /\ pressOwed => pca.unread
  /\ pca.release => host.key = "up"
  /\ "function" \in pca.config /\ "function" \notin pca.polarity

(* The supply: what is left of the start and what has passed make a whole. *)
SupplyInv ==
  /\ tps \in SupplyType /\ pca \in ExpanderType /\ held \in 0 .. ReadyDelay
  /\ Board!PowerGoodEarned
  /\ tps.pending => Board!Supplied(tps, pca) /\ held + tps.left >= ReadyDelay

(* The receiver: a sentence is due only when the last is a second old.     *)
PaceInv ==
  /\ gnss \in ReceiverType /\ quiet \in 0 .. Second /\ said \in BOOLEAN
  /\ quiet + gnss.next >= Second
  /\ gnss.fixture = "stale" /\ said => gnss.stale

----------------------------------------------------------------------------
LEMMA TouchStep ==
  ASSUME TouchInv, Board!DeviceStep
  PROVE  TouchInv'
<1>0. ASSUME UNCHANGED <<gt911, told>>, host' \in HostType, host'.finger = host.finger,
             host'.level = host.level
      PROVE  TouchInv'
  BY <1>0 DEF TouchInv, Board!FingerTold
<1> USE DEF TouchInv, TouchType, HostType, ToldType, Board!FingerTold
<1>1. ASSUME NEW down \in BOOLEAN, Board!InjectContact(down) PROVE TouchInv'
  BY <1>1 DEF Board!InjectContact, Board!Down, Board!Up
<1>2. CASE Board!ReadStatus
  BY <1>2 DEF Board!ReadStatus
<1>3. CASE Board!AcknowledgeStatus
  BY <1>3 DEF Board!AcknowledgeStatus, Board!Acknowledged
<1>4. ASSUME NEW mode \in {"low", "edge"}, Board!SetTrigger(mode) PROVE TouchInv'
  BY <1>4 DEF Board!SetTrigger
<1>5. ASSUME NEW sleep \in BOOLEAN, Board!WriteCommand(sleep) PROVE TouchInv'
  BY <1>5 DEF Board!WriteCommand, Board!TouchCommand, Board!Forgotten
<1>6. CASE Board!ResetTouch
  BY <1>6 DEF Board!ResetTouch, Board!NewTouch, Board!Forgotten
<1>7. ASSUME NEW pressed \in BOOLEAN, Board!InjectFunction(pressed) PROVE TouchInv'
  BY <1>7 DEF Board!InjectFunction
<1>8. CASE UNCHANGED <<gt911, told, host>>
  BY <1>8
<1> QED
  BY <1>1, <1>2, <1>3, <1>4, <1>5, <1>6, <1>7, <1>8
     DEF Board!DeviceStep, Board!ReadInput, Board!WriteEnable, Board!ReadSupply, Board!HoldNotReady,
         Board!SetSupply, Board!ResetSupply, Board!GuestWritesUart, Board!GnssTimer,
         Board!GnssProbeTimer, Board!ghosts, Board!ConfigureReceiver, Board!ChangeFixture,
         Board!ReinitReceiver, Board!ControlReceiver

----------------------------------------------------------------------------
(* The expander's own pins and the supply's leave the key's alone.         *)
LEMMA PinsKeep ==
  ASSUME NEW p \in ExpanderType, NEW good \in BOOLEAN, NEW fault \in BOOLEAN
  PROVE  LET q == Board!DrivePca(p, good, fault)
         IN  /\ q \in ExpanderType /\ q.output = p.output /\ q.config = p.config
             /\ q.polarity = p.polarity /\ q.unread = p.unread /\ q.release = p.release
             /\ "function" \in q.external <=> "function" \in p.external
BY DEF ExpanderType, Board!DrivePca, Board!SetExternal, Board!Pins

LEMMA PinsOfKeep ==
  ASSUME NEW p \in ExpanderType, NEW s \in SupplyType
  PROVE  LET q == Board!PinsOf(s, p)
         IN  /\ q \in ExpanderType /\ q.output = p.output /\ q.config = p.config
             /\ q.polarity = p.polarity /\ q.unread = p.unread /\ q.release = p.release
             /\ "function" \in q.external <=> "function" \in p.external
<1> DEFINE good == Board!Sequenced(p) /\ ~ s.hold
<1>1. good \in BOOLEAN /\ s.hold \in BOOLEAN
  BY DEF SupplyType, Board!Sequenced, Board!OutputHigh
<1>2. Board!PinsOf(s, p) = Board!DrivePca(p, good, s.hold)
  BY DEF Board!PinsOf
<1> HIDE DEF good
<1> QED BY <1>1, <1>2, PinsKeep

LEMMA SyncIsSupply ==
  ASSUME NEW s \in SupplyType, NEW p
  PROVE  Board!SupplySync(s, p) \in SupplyType
BY BoardAssumption DEF SupplyType, Board!SupplySync

LEMMA WrittenKeeps ==
  ASSUME NEW p \in ExpanderType, NEW w \in Writes
  PROVE  LET q == Board!WriteRegister(p, w)
         IN  /\ q \in ExpanderType /\ q.external = p.external /\ q.unread = p.unread
             /\ q.release = p.release
             /\ "function" \in p.config => "function" \in q.config
             /\ "function" \notin p.polarity => "function" \notin q.polarity
<1>1. /\ w.register \in {"output", "config", "polarity"} /\ w.high \subseteq Board!Pins
      /\ w.register = "config" /\ "function" \in w.port => "function" \in w.high
      /\ w.register = "polarity" => "function" \notin w.high
  BY WritesAssumption
<1> QED BY <1>1 DEF Board!WriteRegister, ExpanderType

LEMMA SyncedKey ==
  ASSUME KeyInv, NEW p \in ExpanderType, p.unread = pca.unread, p.release = pca.release,
         "function" \in p.external <=> "function" \in pca.external,
         "function" \in p.config, "function" \notin p.polarity,
         UNCHANGED <<pressOwed, host>>, pca' = p
  PROVE  KeyInv'
BY DEF KeyInv, Board!KeyTold

LEMMA KeyStep ==
  ASSUME KeyInv, SupplyInv, Board!DeviceStep
  PROVE  KeyInv'
<1>0. tps \in SupplyType /\ pca \in ExpanderType
  BY DEF SupplyInv
<1>1. ASSUME NEW pressed \in BOOLEAN, Board!InjectFunction(pressed) PROVE KeyInv'
  <2>1. pca' = Board!SetFunctionPressed(pca, pressed) /\ pressOwed' = (pressOwed \/ pressed)
        /\ host' = [host EXCEPT !.key = IF pressed THEN "down" ELSE "up"]
    BY <1>1 DEF Board!InjectFunction
  <2> QED BY <2>1 DEF KeyInv, Board!KeyTold, Board!SetFunctionPressed, Board!SetExternal,
                      ExpanderType, HostType, Board!Pins
<1>2. CASE Board!ReadInput
  <2> DEFINE s == Board!SupplySync(tps, pca)
             q == Board!PinsOf(s, pca)
  <2>1. /\ pca' = Board!AckFunctionRead(q) /\ host' = host
        /\ pressOwed' = (pressOwed /\ "function" \in Board!ReadPort(q))
    BY <1>2 DEF Board!ReadInput
  <2>2. /\ q \in ExpanderType /\ q.config = pca.config /\ q.polarity = pca.polarity
        /\ q.unread = pca.unread /\ q.release = pca.release
        /\ "function" \in q.external <=> "function" \in pca.external
    BY <1>0, SyncIsSupply, PinsOfKeep
  <2> HIDE DEF q
  <2>3. "function" \in Board!ReadPort(q) <=> "function" \in q.external
    BY <2>2 DEF Board!ReadPort, Board!OutputHigh, Board!Pins, KeyInv
  <2> QED BY <2>1, <2>2, <2>3 DEF KeyInv, Board!KeyTold, Board!AckFunctionRead, Board!SetExternal,
                      ExpanderType, HostType, Board!Pins
<1>3. ASSUME NEW s \in SupplyType, Board!SetSupply(s) PROVE KeyInv'
  <2> DEFINE q == Board!PinsOf(Board!SupplySync(s, pca), pca)
  <2>1. pca' = q /\ UNCHANGED <<pressOwed, host>>
    BY <1>3 DEF Board!SetSupply
  <2>2. /\ q \in ExpanderType /\ q.config = pca.config /\ q.polarity = pca.polarity
        /\ q.unread = pca.unread /\ q.release = pca.release
        /\ "function" \in q.external <=> "function" \in pca.external
    BY <1>0, SyncIsSupply, PinsOfKeep
  <2> HIDE DEF q
  <2> QED BY <2>1, <2>2, SyncedKey DEF KeyInv
<1>4. ASSUME NEW on \in BOOLEAN, Board!WriteEnable(on) \/ Board!HoldNotReady(on) PROVE KeyInv'
  <2>1. [tps EXCEPT !.enable = on] \in SupplyType /\ [tps EXCEPT !.hold = on] \in SupplyType
    BY <1>0 DEF SupplyType
  <2> QED BY <1>3, <1>4, <2>1 DEF Board!WriteEnable, Board!HoldNotReady
<1>5. CASE Board!ReadSupply
  BY <1>0, <1>3, <1>5 DEF Board!ReadSupply
<1>6. CASE Board!ResetSupply
  <2>1. pca' = Board!DrivePca(pca, FALSE, FALSE) /\ UNCHANGED <<pressOwed, host>>
    BY <1>6 DEF Board!ResetSupply
  <2> DEFINE q == Board!DrivePca(pca, FALSE, FALSE)
  <2>2. /\ q \in ExpanderType /\ q.config = pca.config /\ q.polarity = pca.polarity
        /\ q.unread = pca.unread /\ q.release = pca.release
        /\ "function" \in q.external <=> "function" \in pca.external
    BY <1>0, PinsKeep
  <2> HIDE DEF q
  <2> QED BY <2>1, <2>2, SyncedKey DEF KeyInv, q
<1>7. ASSUME UNCHANGED <<pca, pressOwed>>, host' \in HostType, host'.key = host.key PROVE KeyInv'
  BY <1>7 DEF KeyInv, Board!KeyTold
<1>8. ASSUME NEW down \in BOOLEAN, Board!InjectContact(down) PROVE KeyInv'
  <2>1. host' \in HostType /\ host'.key = host.key
    BY <1>8 DEF Board!InjectContact, HostType, KeyInv
  <2> QED BY <1>7, <1>8, <2>1 DEF Board!InjectContact
<1>9. ASSUME NEW mode, Board!SetTrigger(mode) PROVE KeyInv'
  <2>1. host' \in HostType /\ host'.key = host.key
    BY <1>9 DEF Board!SetTrigger, HostType, KeyInv
  <2> QED BY <1>7, <1>9, <2>1 DEF Board!SetTrigger
<1>10. ASSUME NEW sleep \in BOOLEAN, Board!WriteCommand(sleep) PROVE KeyInv'
  <2>1. host' \in HostType /\ host'.key = host.key
    BY <1>10 DEF Board!WriteCommand, HostType, KeyInv
  <2> QED BY <1>7, <1>10, <2>1 DEF Board!WriteCommand
<1>11. CASE Board!ResetTouch
  <2>1. host' \in HostType /\ host'.key = host.key
    BY <1>11 DEF Board!ResetTouch, HostType, KeyInv
  <2> QED BY <1>7, <1>11, <2>1 DEF Board!ResetTouch
<1>12. CASE UNCHANGED <<pca, pressOwed, host>>
  BY <1>7, <1>12 DEF KeyInv
<1> QED
  BY <1>1, <1>2, <1>4, <1>5, <1>6, <1>8, <1>9, <1>10, <1>11, <1>12
     DEF Board!DeviceStep, Board!ReadStatus, Board!AcknowledgeStatus, Board!GuestWritesUart,
         Board!GnssTimer, Board!GnssProbeTimer, Board!ghosts, Board!ConfigureReceiver,
         Board!ChangeFixture, Board!ReinitReceiver, Board!ControlReceiver

----------------------------------------------------------------------------
(* The supply after its pins may have changed.                             *)
LEMMA SupplySyncEarns ==
  ASSUME NEW s \in SupplyType, NEW p \in ExpanderType, NEW h \in 0 .. ReadyDelay,
         s.ready /\ Board!Supplied(s, p) => h = ReadyDelay,
         s.pending /\ Board!Supplied(s, p) => h + s.left >= ReadyDelay,
         NEW q \in ExpanderType, q.output = p.output, q.config = p.config
  PROVE  LET t == Board!SupplySync(s, p)
             k == IF Board!Supplied(t, q) THEN h ELSE 0
         IN  /\ k \in 0 .. ReadyDelay
             /\ t.ready => Board!Supplied(t, q) /\ k = ReadyDelay
             /\ t.pending => Board!Supplied(t, q) /\ k + t.left >= ReadyDelay
<1> DEFINE t == Board!SupplySync(s, p)
<1>1. t \in SupplyType
  BY SyncIsSupply
<1>2. t.enable = s.enable /\ t.hold = s.hold
  BY DEF Board!SupplySync, SupplyType
<1>3. Board!Supplied(t, q) <=> Board!Supplied(s, p)
  BY <1>2 DEF Board!Supplied, Board!Sequenced, Board!OutputHigh
<1>4. CASE ~ Board!Supplied(s, p)
  <2>1. ~ t.ready /\ ~ t.pending
    BY <1>4 DEF Board!SupplySync, SupplyType
  <2> QED BY <1>1, <1>3, <1>4, <2>1, BoardAssumption
<1>5. CASE Board!Supplied(s, p)
  <2>1. /\ t.ready => s.ready \/ (s.pending /\ s.left = 0)
        /\ t.pending => (s.pending /\ t.left = s.left) \/ t.left = ReadyDelay
    BY <1>5 DEF Board!SupplySync, SupplyType
  <2>2. ReadyDelay \in Nat /\ s.left \in Nat
    BY BoardAssumption DEF SupplyType
  <2> QED BY <1>1, <1>3, <1>5, <2>1, <2>2
<1> QED BY <1>4, <1>5

LEMMA SetSupplyKeeps ==
  ASSUME SupplyInv, NEW s \in SupplyType, s.ready = tps.ready, s.pending = tps.pending,
         s.left = tps.left, NEW p \in ExpanderType, NEW q \in ExpanderType,
         q.output = p.output, q.config = p.config,
         tps' = Board!SupplySync(s, p), pca' = q, Board!Supplying
  PROVE  SupplyInv'
<1> DEFINE t == Board!SupplySync(s, p)
<1>1. t \in SupplyType
  BY SyncIsSupply
<1>2. /\ held \in 0 .. ReadyDelay
      /\ s.ready => held = ReadyDelay
      /\ s.pending => held + s.left >= ReadyDelay
  BY DEF SupplyInv, Board!PowerGoodEarned
<1>3. held' = IF Board!Supplied(t, q) THEN held ELSE 0
  BY DEF Board!Supplying, Board!Supplied, Board!Sequenced, Board!OutputHigh
<1>4. /\ held' \in 0 .. ReadyDelay
      /\ t.ready => Board!Supplied(t, q) /\ held' = ReadyDelay
      /\ t.pending => Board!Supplied(t, q) /\ held' + t.left >= ReadyDelay
  BY <1>2, <1>3, SupplySyncEarns
<1> HIDE DEF t
<1>5. Board!Supplied(tps, pca)' <=> Board!Supplied(t, q)
  BY DEF t, Board!Supplied, Board!Sequenced, Board!OutputHigh
<1> QED BY <1>1, <1>4, <1>5 DEF SupplyInv, Board!PowerGoodEarned, t

LEMMA AckKeepsOutputs ==
  ASSUME NEW p \in ExpanderType
  PROVE  LET q == Board!AckFunctionRead(p)
         IN  q \in ExpanderType /\ q.output = p.output /\ q.config = p.config
BY DEF Board!AckFunctionRead, Board!SetExternal, ExpanderType, Board!Pins

LEMMA FunctionKeepsOutputs ==
  ASSUME NEW p \in ExpanderType, NEW pressed \in BOOLEAN
  PROVE  LET q == Board!SetFunctionPressed(p, pressed)
         IN  q \in ExpanderType /\ q.output = p.output /\ q.config = p.config
BY DEF Board!SetFunctionPressed, Board!SetExternal, ExpanderType, Board!Pins

LEMMA SupplyStep ==
  ASSUME SupplyInv, Board!DeviceStep
  PROVE  SupplyInv'
<1>0. tps \in SupplyType /\ pca \in ExpanderType
  BY DEF SupplyInv
<1>1. ASSUME NEW pressed \in BOOLEAN, Board!InjectFunction(pressed) PROVE SupplyInv'
  <2>1. pca' = Board!SetFunctionPressed(pca, pressed) /\ UNCHANGED <<tps, held>>
    BY <1>1 DEF Board!InjectFunction
  <2>2. pca' \in ExpanderType /\ pca'.output = pca.output /\ pca'.config = pca.config
    BY <1>0, <2>1, FunctionKeepsOutputs
  <2> QED BY <2>1, <2>2 DEF SupplyInv, Board!PowerGoodEarned, Board!Supplied, Board!Sequenced,
                            Board!OutputHigh
<1>2. CASE Board!ReadInput
  <2> DEFINE s == Board!SupplySync(tps, pca)
             q == Board!PinsOf(s, pca)
             r == Board!AckFunctionRead(q)
  <2>1. pca' = r /\ tps' = s /\ Board!Supplying
    BY <1>2 DEF Board!ReadInput
  <2>2. q \in ExpanderType /\ q.output = pca.output /\ q.config = pca.config
    BY <1>0, SyncIsSupply, PinsOfKeep
  <2> HIDE DEF q
  <2>3. r \in ExpanderType /\ r.output = pca.output /\ r.config = pca.config
    BY <2>2, AckKeepsOutputs
  <2> HIDE DEF r
  <2> QED BY <1>0, <2>1, <2>3, SetSupplyKeeps
<1>3. ASSUME NEW s \in SupplyType, s.ready = tps.ready, s.pending = tps.pending,
             s.left = tps.left, Board!SetSupply(s)
      PROVE  SupplyInv'
  <2> DEFINE q == Board!PinsOf(Board!SupplySync(s, pca), pca)
  <2>1. tps' = Board!SupplySync(s, pca) /\ pca' = q /\ Board!Supplying
    BY <1>3 DEF Board!SetSupply
  <2>2. q \in ExpanderType /\ q.output = pca.output /\ q.config = pca.config
    BY <1>0, SyncIsSupply, PinsOfKeep
  <2> HIDE DEF q
  <2> QED BY <1>0, <1>3, <2>1, <2>2, SetSupplyKeeps
<1>4. ASSUME NEW on \in BOOLEAN, Board!WriteEnable(on) PROVE SupplyInv'
  <2> DEFINE s == [tps EXCEPT !.enable = on]
  <2>1. s \in SupplyType /\ s.ready = tps.ready /\ s.pending = tps.pending /\ s.left = tps.left
    BY <1>0 DEF SupplyType
  <2> QED BY <1>3, <1>4, <2>1 DEF Board!WriteEnable
<1>5. ASSUME NEW hold \in BOOLEAN, Board!HoldNotReady(hold) PROVE SupplyInv'
  <2> DEFINE s == [tps EXCEPT !.hold = hold]
  <2>1. s \in SupplyType /\ s.ready = tps.ready /\ s.pending = tps.pending /\ s.left = tps.left
    BY <1>0 DEF SupplyType
  <2> QED BY <1>3, <1>5, <2>1 DEF Board!HoldNotReady
<1>6. CASE Board!ReadSupply
  BY <1>0, <1>3, <1>6 DEF Board!ReadSupply
<1>7. CASE Board!ResetSupply
  <2>1. pca' = Board!DrivePca(pca, FALSE, FALSE) /\ tps' = Board!NewSupply /\ held' = 0
    BY <1>7 DEF Board!ResetSupply
  <2>2. pca' \in ExpanderType
    BY <1>0, <2>1, PinsKeep
  <2>3. tps' \in SupplyType /\ ~ tps'.ready /\ ~ tps'.pending
    BY <2>1 DEF Board!NewSupply, SupplyType
  <2>4. held' \in 0 .. ReadyDelay
    BY <2>1, BoardAssumption
  <2> QED BY <2>2, <2>3, <2>4 DEF SupplyInv, Board!PowerGoodEarned
<1>8. CASE UNCHANGED <<pca, tps, held>>
  BY <1>8 DEF SupplyInv, Board!PowerGoodEarned, Board!Supplied, Board!Sequenced, Board!OutputHigh
<1> QED
  BY <1>1, <1>2, <1>4, <1>5, <1>6, <1>7, <1>8
     DEF Board!DeviceStep, Board!InjectContact, Board!ReadStatus, Board!AcknowledgeStatus,
         Board!SetTrigger, Board!WriteCommand, Board!ResetTouch, Board!GuestWritesUart,
         Board!GnssTimer, Board!GnssProbeTimer, Board!ghosts, Board!ConfigureReceiver,
         Board!ChangeFixture, Board!ReinitReceiver, Board!ControlReceiver

----------------------------------------------------------------------------
(* The receiver.                                                           *)
Paced(g, q, told_) ==
  /\ g \in ReceiverType /\ q \in 0 .. Second /\ told_ \in BOOLEAN
  /\ q + g.next >= Second
  /\ g.fixture = "stale" /\ told_ => g.stale

LEMMA TakenIsReceiver ==
  ASSUME NEW g \in ReceiverType, NEW piece \in Board!Pieces
  PROVE  LET h == Board!ReceiveGuestBytes(g, piece)
         IN  /\ h \in ReceiverType /\ h.next = g.next /\ h.fixture = g.fixture
             /\ h.stale = g.stale /\ h.powered = g.powered /\ (g.pending => h.pending)
<1> DEFINE full == Append(g.window, piece)
           window == IF Len(full) > WindowSize THEN Tail(full) ELSE full
<1>1. g.window \in Seq(Board!Pieces)
  BY DEF ReceiverType
<1>2. full \in Seq(Board!Pieces) /\ full # << >>
  BY <1>1
<1>3. window \in Seq(Board!Pieces)
  BY <1>2
<1>4. << >> \in Seq(Board!Pieces) /\ ProbeDelay \in Nat
  BY BoardAssumption
<1> HIDE DEF window
<1>5. Board!TakePiece(g, piece) \in {Board!HoldReply(g), [g EXCEPT !.window = window]}
  BY DEF Board!TakePiece, window
<1>6. Board!ReceiveGuestBytes(g, piece) \in {g, Board!HoldReply(g), [g EXCEPT !.window = window]}
  BY <1>5 DEF Board!ReceiveGuestBytes
<1> DEFINE h == Board!ReceiveGuestBytes(g, piece)
<1> HIDE DEF h
<1> QED BY <1>3, <1>4, <1>6 DEF ReceiverType, Board!HoldReply, h

LEMMA AdvancePaced ==
  ASSUME NEW g \in ReceiverType, NEW q, NEW s, Paced(g, q, s)
  PROVE  LET h == Board!AdvanceTime(g)
             k == IF Board!Speaks(g) THEN 0 ELSE q
         IN  /\ Paced(h, k, s \/ Board!Speaks(g)) /\ h.pending = g.pending
             /\ Board!Speaks(g) => q = Second /\ g.powered /\ (g.fixture = "stale" => ~ s)
<1> DEFINE h == Board!AdvanceTime(g)
           k == IF Board!Speaks(g) THEN 0 ELSE q
           t == s \/ Board!Speaks(g)
<1>1. Second \in Nat
  BY BoardAssumption
<1>2. h \in {g, [g EXCEPT !.next = Second, !.stale = @ \/ g.fixture = "stale"]}
      /\ (Board!Due(g) => h = [g EXCEPT !.next = Second, !.stale = @ \/ g.fixture = "stale"])
  BY DEF Board!AdvanceTime
<1>3. /\ h \in ReceiverType /\ h.pending = g.pending /\ h.fixture = g.fixture
      /\ h.next \in {g.next, Second} /\ (Board!Due(g) => h.next = Second)
      /\ g.stale => h.stale
      /\ Board!Due(g) /\ g.fixture = "stale" => h.stale
  BY <1>1, <1>2 DEF ReceiverType
<1>4. q \in 0 .. Second /\ s \in BOOLEAN /\ q + g.next >= Second /\ g.next \in Nat
      /\ (g.fixture = "stale" /\ s => g.stale)
  BY DEF Paced, ReceiverType
<1>5. Board!Speaks(g) => Board!Due(g) /\ q = Second /\ g.powered /\ (g.fixture = "stale" => ~ s)
  BY <1>1, <1>4 DEF Board!Speaks, Board!Due
<1>6. k \in 0 .. Second /\ k + h.next >= Second
  BY <1>1, <1>3, <1>4, <1>5
<1>7. t \in BOOLEAN /\ (h.fixture = "stale" /\ t => h.stale)
  BY <1>3, <1>4, <1>5
<1> QED BY <1>3, <1>5, <1>6, <1>7 DEF Paced

LEMMA PowerPaced ==
  ASSUME NEW g, NEW q, NEW s, Paced(g, q, s), NEW on \in BOOLEAN
  PROVE  Paced(Board!SetPower(g, on), IF g.powered = on THEN q ELSE Second, s /\ g.powered = on)
<1>1. Second \in Nat /\ << >> \in Seq(Board!Pieces)
  BY BoardAssumption
<1> DEFINE h == Board!SetPower(g, on)
<1>2. g \in ReceiverType /\ q \in 0 .. Second /\ q + g.next >= Second
      /\ (g.fixture = "stale" /\ s => g.stale) /\ s \in BOOLEAN
  BY DEF Paced
<1>3. CASE g.powered = on
  <2>1. h = g
    BY <1>3 DEF Board!SetPower
  <2> QED BY <1>2, <1>3, <2>1 DEF Paced
<1>4. CASE g.powered # on
  <2>1. h = [g EXCEPT !.powered = on, !.window = << >>, !.next = 0, !.stale = FALSE]
    BY <1>4 DEF Board!SetPower
  <2>2. [g EXCEPT !.powered = on, !.window = << >>, !.next = 0, !.stale = FALSE] \in ReceiverType
    BY <1>1, <1>2 DEF ReceiverType
  <2>3. h \in ReceiverType /\ h.next = 0 /\ h.stale = FALSE
    BY <1>2, <2>1, <2>2 DEF ReceiverType
  <2> QED BY <1>1, <1>4, <2>3 DEF Paced
<1> QED BY <1>3, <1>4

LEMMA FixturePaced ==
  ASSUME NEW g \in ReceiverType, NEW f \in SetFixtures
  PROVE  Paced(Board!SetFixture(g, f), Second, FALSE)
<1>1. Second \in Nat /\ f \in Board!Fixtures
  BY BoardAssumption
<1> DEFINE h == Board!SetFixture(g, f)
<1>2. h \in ReceiverType /\ h.next = 0
  BY <1>1 DEF ReceiverType, Board!SetFixture
<1> QED BY <1>1, <1>2 DEF Paced

LEMMA InitPaced ==
  ASSUME NEW g \in ReceiverType
  PROVE  Paced(Board!InitReceiver(g), Second, FALSE)
<1>1. Second \in Nat /\ << >> \in Seq(Board!Pieces) /\ "fixed" \in Board!Fixtures
  BY BoardAssumption DEF Board!Fixtures
<1> DEFINE h == Board!InitReceiver(g)
<1>2. h \in ReceiverType /\ h.next = 0
  BY <1>1 DEF ReceiverType, Board!InitReceiver
<1> QED BY <1>1, <1>2 DEF Paced

(* What a step that emits a sentence promises.                             *)
Pace == uart' = "sentence" =>
          /\ quiet = Second
          /\ gnss.powered
          /\ ~ gnss.pending /\ ~ gnss'.pending
          /\ gnss.fixture = "stale" => ~ said

LEMMA PaceStep ==
  ASSUME PaceInv, Board!DeviceStep
  PROVE  PaceInv' /\ Pace
<1>0. Paced(gnss, quiet, said) /\ gnss \in ReceiverType
  BY DEF PaceInv, Paced
<1>1. ASSUME Paced(gnss', quiet', said') PROVE PaceInv'
  BY <1>1 DEF PaceInv, Paced, ReceiverType
<1>2. ASSUME NEW piece \in Board!Pieces, Board!GuestWritesUart(piece) PROVE PaceInv' /\ Pace
  <2> DEFINE h == Board!ReceiveGuestBytes(gnss, piece)
  <2>1. /\ h \in ReceiverType /\ h.next = gnss.next /\ h.fixture = gnss.fixture
        /\ h.stale = gnss.stale /\ h.powered = gnss.powered /\ (gnss.pending => h.pending)
    BY <1>0, TakenIsReceiver
  <2>2. /\ gnss' = (IF Board!Free(h) THEN Board!AdvanceTime(h) ELSE h)
        /\ Board!Spoke(Board!Free(h) /\ Board!Speaks(h))
    BY <1>2 DEF Board!GuestWritesUart, Board!GuestWrites, Board!WriteSpeaks
  <2> HIDE DEF h
  <2>3. Paced(h, quiet, said)
    BY <1>0, <2>1 DEF Paced
  <2>4. CASE Board!Free(h)
    <3>1. /\ gnss' = Board!AdvanceTime(h) /\ uart' = IF Board!Speaks(h) THEN "sentence" ELSE "none"
          /\ quiet' = IF Board!Speaks(h) THEN 0 ELSE quiet
          /\ said' = (said \/ Board!Speaks(h))
      BY <2>2, <2>4 DEF Board!Spoke
    <3>2. ~ h.pending /\ ~ gnss.pending
      BY <2>1, <2>4 DEF Board!Free
    <3> QED BY <1>1, <2>1, <2>3, <3>1, <3>2, AdvancePaced DEF Pace
  <2>5. CASE ~ Board!Free(h)
    <3>1. gnss' = h /\ uart' = "none" /\ quiet' = quiet /\ said' = said
      BY <2>2, <2>5, <1>0 DEF Board!Spoke, Paced
    <3> QED BY <1>1, <2>3, <3>1 DEF Pace
  <2> QED BY <2>4, <2>5
<1>3. CASE Board!GnssTimer
  <2> DEFINE a == IF gnss.pending THEN gnss ELSE Board!AdvanceTime(gnss)
  <2>1. /\ gnss' = [a EXCEPT !.timer = Second]
        /\ Board!Spoke(~ gnss.pending /\ Board!Speaks(gnss))
    BY <1>3 DEF Board!GnssTimer, Board!TimerRuns, Board!TimerSpeaks
  <2>2. /\ Paced(a, quiet', said') /\ a.pending = gnss.pending /\ Pace
    <3>1. CASE gnss.pending
      BY <1>0, <2>1, <3>1 DEF Board!Spoke, Pace, Paced
    <3>2. CASE ~ gnss.pending
      <4>1. /\ uart' = IF Board!Speaks(gnss) THEN "sentence" ELSE "none"
            /\ quiet' = IF Board!Speaks(gnss) THEN 0 ELSE quiet
            /\ said' = (said \/ Board!Speaks(gnss)) /\ a = Board!AdvanceTime(gnss)
        BY <2>1, <3>2 DEF Board!Spoke
      <4>2. gnss'.pending = a.pending
        BY <1>0, <2>1, <4>1, AdvancePaced DEF Paced, ReceiverType
      <4> HIDE DEF a
      <4> QED BY <1>0, <3>2, <4>1, <4>2, AdvancePaced DEF Pace
    <3> QED BY <3>1, <3>2
  <2> HIDE DEF a
  <2>3. Second \in Nat
    BY BoardAssumption
  <2>4. Paced(gnss', quiet', said')
    BY <2>1, <2>2, <2>3 DEF Paced, ReceiverType
  <2> QED BY <1>1, <2>2, <2>4
<1>4. CASE Board!GnssProbeTimer
  <2>1. gnss' = [gnss EXCEPT !.pending = FALSE, !.probeTimer = Board!Unset]
        /\ uart' \in {"identity", "none"} /\ UNCHANGED <<quiet, said>>
    BY <1>4 DEF Board!GnssProbeTimer, Board!ProbeTimerRuns, Board!ghosts
  <2>2. Paced(gnss', quiet', said')
    BY <1>0, <2>1 DEF Paced, ReceiverType, Board!Unset
  <2> QED BY <1>1, <2>1, <2>2 DEF Pace
<1>5. ASSUME NEW f \in SetFixtures, NEW on \in BOOLEAN, Board!ConfigureReceiver(f, on)
      PROVE  PaceInv' /\ Pace
  <2> DEFINE i == Board!InitReceiver(gnss)
             g == Board!SetFixture(i, f)
  <2>1. i \in ReceiverType
    BY <1>0, InitPaced DEF Paced
  <2> HIDE DEF i
  <2>2. Paced(g, Second, FALSE)
    BY <2>1, FixturePaced
  <2> HIDE DEF g
  <2>3. Paced(Board!SetPower(g, on), Second, FALSE)
    BY <2>2, PowerPaced
  <2>4. gnss' = Board!SetPower(g, on) /\ quiet' = Second /\ said' = FALSE /\ uart' = "none"
    BY <1>5 DEF Board!ConfigureReceiver, Board!ControlReceiver, g, i
  <2> QED BY <1>1, <2>3, <2>4 DEF Pace
<1>6. ASSUME NEW f \in SetFixtures, Board!ChangeFixture(f) PROVE PaceInv' /\ Pace
  BY <1>0, <1>1, <1>6, FixturePaced DEF Board!ChangeFixture, Board!ControlReceiver, Pace
<1>7. CASE Board!ReinitReceiver
  BY <1>0, <1>1, <1>7, InitPaced DEF Board!ReinitReceiver, Board!ControlReceiver, Pace
<1>8. CASE UNCHANGED <<gnss, quiet, said>> /\ uart' = "none"
  BY <1>0, <1>1, <1>8 DEF Pace
<1> QED
  BY <1>2, <1>3, <1>4, <1>5, <1>6, <1>7, <1>8
     DEF Board!DeviceStep, Board!InjectContact, Board!ReadStatus, Board!AcknowledgeStatus,
         Board!SetTrigger, Board!WriteCommand, Board!ResetTouch, Board!InjectFunction,
         Board!ReadInput, Board!WriteEnable, Board!ReadSupply, Board!HoldNotReady,
         Board!SetSupply, Board!ResetSupply

----------------------------------------------------------------------------
(* The writes to the expander, which T5Board adds, the reset and the clock.*)

DevicesInv == TouchInv /\ KeyInv /\ SupplyInv /\ PaceInv

LEMMA WriteKeeps ==
  ASSUME DevicesInv, NEW w \in Writes, Board!WriteExpander(w)
  PROVE  DevicesInv' /\ Pace
<1> DEFINE written == Board!WriteRegister(pca, w)
           s == Board!SupplySync(tps, written)
           q == Board!PinsOf(s, written)
<1>0. tps \in SupplyType /\ pca \in ExpanderType
  BY DEF DevicesInv, SupplyInv
<1>1. /\ written \in ExpanderType /\ written.external = pca.external
      /\ written.unread = pca.unread /\ written.release = pca.release
      /\ "function" \in written.config /\ "function" \notin written.polarity
  BY <1>0, WrittenKeeps DEF DevicesInv, KeyInv
<1> HIDE DEF written
<1>2. /\ q \in ExpanderType /\ q.output = written.output /\ q.config = written.config
      /\ q.polarity = written.polarity /\ q.unread = written.unread
      /\ q.release = written.release
      /\ "function" \in q.external <=> "function" \in written.external
  BY <1>0, <1>1, SyncIsSupply, PinsOfKeep
<1> HIDE DEF q
<1> DEFINE on == Board!OutputHigh(written, "rail")
<1>3. /\ pca' = q /\ tps' = s /\ Board!Supplying /\ uart' = "none"
      /\ UNCHANGED <<gt911, host, told, pressOwed>>
      /\ UNCHANGED <<gnss, quiet, said>> \/ Board!Switched(on)
  BY DEF Board!WriteExpander, written, q
<1>4. on \in BOOLEAN
  BY DEF Board!OutputHigh
<1> HIDE DEF s, on
<1>5. TouchInv'
  BY <1>3 DEF DevicesInv, TouchInv, Board!FingerTold
<1>6. KeyInv'
  <2>1. /\ q.unread = pca.unread /\ q.release = pca.release
        /\ "function" \in q.external <=> "function" \in pca.external
        /\ "function" \in q.config /\ "function" \notin q.polarity
    BY <1>1, <1>2
  <2> QED BY <1>2, <1>3, <2>1, SyncedKey DEF DevicesInv
<1>7. SupplyInv'
  BY <1>0, <1>1, <1>2, <1>3, SetSupplyKeeps DEF DevicesInv, s
<1>8. PaceInv'
  <2>1. Paced(gnss, quiet, said)
    BY DEF DevicesInv, PaceInv, Paced
  <2>2. Paced(gnss', quiet', said')
    <3>1. CASE UNCHANGED <<gnss, quiet, said>>
      BY <2>1, <3>1
    <3>2. CASE Board!Switched(on)
      BY <1>4, <2>1, <3>2, PowerPaced DEF Board!Switched
    <3> QED BY <1>3, <3>1, <3>2
  <2> QED BY <2>2 DEF PaceInv, Paced
<1>9. Pace
  BY <1>3 DEF Pace
<1> QED BY <1>5, <1>6, <1>7, <1>8, <1>9 DEF DevicesInv

LEMMA RestartKeeps ==
  ASSUME DevicesInv, Board!Restart
  PROVE  DevicesInv' /\ Pace
<1>1. TouchInv'
  BY DEF Board!Restart, Board!NewTouch, Board!Forgotten, TouchInv, TouchType, HostType, ToldType,
         Board!FingerTold
<1>2. /\ Board!NewExpander \in ExpanderType /\ "function" \in Board!NewExpander.external
      /\ "function" \in Board!NewExpander.config /\ Board!NewExpander.polarity = {}
      /\ ~ Board!NewExpander.unread /\ ~ Board!NewExpander.release
  BY DEF Board!NewExpander, ExpanderType, Board!Pins
<1> DEFINE p == Board!NewExpander
           q == Board!DrivePca(p, FALSE, FALSE)
<1>a. /\ q \in ExpanderType /\ "function" \in q.external /\ "function" \in q.config
      /\ q.polarity = {} /\ ~ q.unread /\ ~ q.release
  BY <1>2, PinsKeep
<1>b. pca' = p \/ pca' = q
  BY DEF Board!Restart
<1> HIDE DEF p, q
<1>3. /\ pca' \in ExpanderType /\ "function" \in pca'.external
      /\ "function" \in pca'.config /\ pca'.polarity = {}
      /\ ~ pca'.unread /\ ~ pca'.release
  BY <1>2, <1>a, <1>b DEF p
<1>4. KeyInv'
  BY <1>3 DEF Board!Restart, KeyInv, HostType, Board!KeyTold
<1>5. SupplyInv'
  <2>1. held' \in 0 .. ReadyDelay
    BY BoardAssumption DEF Board!Restart
  <2> QED BY <1>3, <2>1 DEF Board!Restart, Board!NewSupply, SupplyInv, SupplyType,
                            Board!PowerGoodEarned
<1>6. PaceInv' /\ Pace
  BY DEF Board!Restart, DevicesInv, PaceInv, Pace
<1> QED BY <1>1, <1>4, <1>5, <1>6 DEF DevicesInv

LEMMA SoonerBy ==
  ASSUME NEW t \in Nat
  PROVE  Board!Sooner(t) \in Nat /\ Board!Sooner(t) + 1 >= t
BY DEF Board!Sooner, Board!Unset

LEMMA TickKeeps ==
  ASSUME DevicesInv, Board!Tick
  PROVE  DevicesInv' /\ Pace
<1>1. TouchInv'
  BY DEF Board!Tick, DevicesInv, TouchInv, Board!FingerTold
<1>2. KeyInv'
  BY DEF Board!Tick, DevicesInv, KeyInv, Board!KeyTold
<1>3. SupplyInv'
  <2>1. ReadyDelay \in Nat /\ tps.left \in Nat /\ Board!Sooner(tps.left) \in Nat
        /\ Board!Sooner(tps.left) + 1 >= tps.left
    BY BoardAssumption, SoonerBy DEF DevicesInv, SupplyInv, SupplyType
  <2>2. /\ tps' \in SupplyType /\ tps'.ready = tps.ready /\ tps'.pending = tps.pending
        /\ tps'.left = Board!Sooner(tps.left) /\ tps'.enable = tps.enable /\ tps'.hold = tps.hold
    BY <2>1 DEF Board!Tick, DevicesInv, SupplyInv, SupplyType
  <2>3. /\ held' = (IF Board!Supplied(tps, pca) /\ held < ReadyDelay THEN held + 1 ELSE held)
        /\ pca' = pca
    BY DEF Board!Tick
  <2>4. Board!Supplied(tps, pca)' <=> Board!Supplied(tps, pca)
    BY <2>2, <2>3 DEF Board!Supplied, Board!Sequenced, Board!OutputHigh
  <2>5. /\ held \in 0 .. ReadyDelay /\ pca \in ExpanderType
        /\ tps.ready => Board!Supplied(tps, pca) /\ held = ReadyDelay
        /\ tps.pending => Board!Supplied(tps, pca) /\ held + tps.left >= ReadyDelay
    BY DEF DevicesInv, SupplyInv, Board!PowerGoodEarned
  <2>6. /\ held' \in 0 .. ReadyDelay /\ held' >= held
        /\ Board!Supplied(tps, pca) => held' = ReadyDelay \/ held' = held + 1
    BY <2>1, <2>3, <2>5
  <2>7. tps.pending => held' + tps'.left >= ReadyDelay
    BY <2>1, <2>2, <2>5, <2>6
  <2> QED BY <2>1, <2>2, <2>3, <2>4, <2>5, <2>6, <2>7 DEF SupplyInv, Board!PowerGoodEarned
<1>4. PaceInv'
  <2>1. /\ Second \in Nat /\ gnss \in ReceiverType /\ quiet \in 0 .. Second
        /\ quiet + gnss.next >= Second
    BY BoardAssumption DEF DevicesInv, PaceInv
  <2>2. gnss.next \in Nat /\ gnss.probeTimer \in Nat /\ gnss.timer \in Nat
    BY <2>1 DEF ReceiverType
  <2>3. /\ Board!Sooner(gnss.next) \in Nat /\ Board!Sooner(gnss.probeTimer) \in Nat
        /\ Board!Sooner(gnss.timer) \in Nat /\ Board!Sooner(gnss.next) + 1 >= gnss.next
    BY <2>2, SoonerBy
  <2>4. /\ gnss' \in ReceiverType /\ gnss'.next = Board!Sooner(gnss.next)
        /\ gnss'.fixture = gnss.fixture /\ gnss'.stale = gnss.stale
    BY <2>1, <2>3 DEF Board!Tick, Board!TickReceiver, ReceiverType
  <2>5. quiet' \in 0 .. Second /\ (quiet' = Second \/ quiet' = quiet + 1)
    BY <2>1 DEF Board!Tick
  <2>6. quiet' + gnss'.next >= Second
    BY <2>1, <2>2, <2>3, <2>4, <2>5
  <2> QED BY <2>4, <2>5, <2>6 DEF Board!Tick, DevicesInv, PaceInv
<1>5. Pace
  BY DEF Board!Tick, Pace
<1> QED BY <1>1, <1>2, <1>3, <1>4, <1>5 DEF DevicesInv

LEMMA DevicesInit == Init => DevicesInv
<1> SUFFICES ASSUME Board!Init PROVE DevicesInv
  BY DEF Init
<1>0. Second \in Nat /\ ReadyDelay \in Nat /\ << >> \in Seq(Board!Pieces)
  BY BoardAssumption
<1>1. TouchInv
  BY DEF Board!Init, Board!NewTouch, TouchInv, TouchType, HostType, ToldType, Board!FingerTold
<1>2. /\ Board!NewExpander \in ExpanderType /\ "function" \in Board!NewExpander.external
      /\ "function" \in Board!NewExpander.config /\ Board!NewExpander.polarity = {}
      /\ ~ Board!NewExpander.unread /\ ~ Board!NewExpander.release
  BY DEF Board!NewExpander, ExpanderType, Board!Pins
<1>3. /\ pca \in ExpanderType /\ "function" \in pca.external
      /\ "function" \in pca.config /\ pca.polarity = {}
      /\ ~ pca.unread /\ ~ pca.release
  BY <1>2, PinsKeep DEF Board!Init
<1>4. KeyInv
  BY <1>3 DEF Board!Init, KeyInv, HostType, Board!KeyTold
<1>5. SupplyInv
  <2>1. tps \in SupplyType /\ ~ tps.ready /\ ~ tps.pending
    BY DEF Board!Init, Board!NewSupply, SupplyType
  <2>2. held \in 0 .. ReadyDelay
    BY <1>0 DEF Board!Init
  <2> QED BY <1>3, <2>1, <2>2 DEF SupplyInv, Board!PowerGoodEarned
<1>6. PaceInv
  <2>1. Board!NewReceiver \in ReceiverType /\ Board!NewReceiver.next = 0
    BY <1>0 DEF Board!NewReceiver, ReceiverType, Board!Fixtures, Board!Unset
  <2>2. gnss \in ReceiverType /\ gnss.next = 0
    BY <2>1 DEF Board!Init
  <2>3. quiet \in 0 .. Second /\ quiet + gnss.next >= Second
    BY <1>0, <2>2 DEF Board!Init
  <2>4. said \in BOOLEAN /\ ~ said
    BY DEF Board!Init
  <2> QED BY <2>2, <2>3, <2>4 DEF PaceInv
<1> QED BY <1>1, <1>4, <1>5, <1>6 DEF DevicesInv

LEMMA DevicesStep == DevicesInv /\ [Next]_vars => DevicesInv' /\ (Pace \/ UNCHANGED Board!vars)
<1> SUFFICES ASSUME DevicesInv, [Next]_vars
             PROVE  DevicesInv' /\ (Pace \/ UNCHANGED Board!vars)
  OBVIOUS
<1>1. CASE UNCHANGED boardVars
  <2>1. TouchInv' /\ PaceInv'
    BY <1>1 DEF boardVars, DevicesInv, TouchInv, PaceInv, Board!FingerTold
  <2>2. KeyInv' /\ SupplyInv'
    BY <1>1 DEF boardVars, DevicesInv, KeyInv, Board!KeyTold, SupplyInv, Board!PowerGoodEarned,
                Board!Supplied, Board!Sequenced, Board!OutputHigh
  <2> QED BY <1>1, <2>1, <2>2 DEF DevicesInv, boardVars, Board!vars
<1>2. CASE Board!DeviceStep
  BY <1>2, TouchStep, KeyStep, SupplyStep, PaceStep DEF DevicesInv
<1>3. ASSUME NEW w \in Writes, Board!WriteExpander(w) PROVE DevicesInv' /\ Pace
  BY <1>3, WriteKeeps
<1>4. CASE Board!Restart
  BY <1>4, RestartKeeps
<1>5. CASE Board!Tick
  BY <1>5, TickKeeps
<1> QED
  BY <1>1, <1>2, <1>3, <1>4, <1>5 DEF Next, vars, DeviceStep, BusStep, WriteExpander, Restart, Tick

LEMMA DevicesInductive == Spec => []DevicesInv
BY DevicesInit, DevicesStep, PTL DEF Spec

(* No touch, no lift and no press is lost on the firmware: what it knows   *)
(* is what the host last did, or the report that tells it so stands.       *)
THEOREM InputsAreTold == Spec => []InputsTold
<1>1. DevicesInv => InputsTold
  BY DEF DevicesInv, TouchInv, KeyInv, InputsTold, Board!InputsTold
<1> QED BY <1>1, DevicesInductive, PTL

(* The supply reports good power only after as long as it takes to start,  *)
(* with nothing taken from it in between.                                  *)
THEOREM PowerIsEarned == Spec => []PowerGoodEarned
<1>1. DevicesInv => PowerGoodEarned
  BY DEF DevicesInv, SupplyInv, PowerGoodEarned
<1> QED BY <1>1, DevicesInductive, PTL

(* Sentences keep their second of distance, and none comes between a poll  *)
(* and its reply.                                                          *)
THEOREM SentencesKeepPace == Spec => SentencesPaced
<1>1. DevicesInv /\ [Next]_vars => [Pace]_(Board!vars)
  BY DevicesStep
<1>2. DevicesInv /\ [Next]_vars =>
        [uart' = "sentence" =>
          /\ quiet = Second
          /\ gnss.powered
          /\ ~ gnss.pending /\ ~ gnss'.pending
          /\ gnss.fixture = "stale" => ~ said]_(Board!vars)
  BY <1>1 DEF Pace
<1> QED BY <1>2, DevicesInductive, PTL DEF Spec, SentencesPaced, Board!SentencesPaced

-----------------------------------------------------------------------------
(* What the main thread has left to do, and the next of it.                *)
ConsoleOps == <<"console_data", "console_len", "console_pending">>
RequestOps == <<"request_data", "request_len", "request_pending", "poll_debug">>
AnswerOps == <<"take_debug", "free_debug", "header", "payload">>
ButtonOps == <<"queue_button", "bits", "set_bits", "events", "set_events">>

OpsInv ==
  \/ ops \in {<< >>, <<"touch">>, <<"header", "payload">>, <<"payload">>, <<"poll_debug">>, <<"ask_debug">>,
              <<"ask_console">>, <<"print_console", "free_console">>, <<"free_console">>}
  \/ ops \in {ConsoleOps, <<"console_len", "console_pending">>, <<"console_pending">>}
  \/ ops \in {RequestOps, <<"request_len", "request_pending", "poll_debug">>, <<"request_pending", "poll_debug">>}
  \/ ops \in {AnswerOps, <<"free_debug", "header", "payload">>}
  \/ ops \in {ButtonOps, <<"bits", "set_bits", "events", "set_events">>, <<"events", "set_events">>}
  \/ \E b : ops = <<"set_bits", b, "events", "set_events">> \/ ops = <<"set_events", b>>

Stage == IF ops = << >> THEN "done" ELSE Head(ops)

----------------------------------------------------------------------------
(* What the mailboxes hold, and whose step it is.  An exchange is asked,   *)
(* read, answered and told: the stage of the main thread, the place of the *)
(* firmware and the flags say how far the last one is.                     *)
Boxes == {"console", "request", "response"}
Fields == {"pending", "len", "data"}
Shape ==
  /\ DOMAIN mem = Boxes \cup Edges \cup {"bits", "polled"}
  /\ \A b \in Boxes : DOMAIN mem[b] = Fields
  /\ DOMAIN log = {"console", "debug", "edges"}
  /\ DOMAIN cpu = {"at", "box", "len", "data"}

CpuInv ==
  \/ cpu.at \in {"idle", "publish"} /\ cpu.box = None
  \/ cpu.at \in {"len", "data"} /\ cpu.box \in {"console", "request"}
  \/ cpu.at = "free" /\ cpu.box = "request"
  \/ cpu.at \in {"answer", "raise"} /\ cpu.box \in {"console", "response"}

\* A log whose last ask requests are not read, and the last tell reads not told.
Listed(s) == Len(s) \in Nat /\ s = [i \in 1 .. Len(s) |-> s[i]]
Kept(l, ask, tell) ==
  /\ DOMAIN l = {"accepted", "read", "told"}
  /\ Listed(l.accepted) /\ Listed(l.read) /\ Listed(l.told)
  /\ Len(l.accepted) = Len(l.read) + ask
  /\ Len(l.read) = Len(l.told) + tell
  /\ \A i \in 1 .. Len(l.read) : l.read[i] = <<l.accepted[i], l.accepted[i]>>
  /\ \A i \in 1 .. Len(l.told) : l.told[i] = l.read[i]
Newest(l) == l.accepted[Len(l.accepted)]

ConsoleStages == {"console_data", "console_len", "console_pending", "print_console", "free_console"}
ConsoleEmpty ==
  /\ mem.console.pending = 0 /\ cpu.box # "console"
  /\ Stage \notin {"print_console", "free_console"}
  /\ Stage \in {"console_len", "console_pending"} => mem.console.data = work.what
  /\ Stage = "console_pending" => mem.console.len = work.what
  /\ Kept(log.console, 0, 0)
ConsoleAsked ==
  /\ mem.console.pending = 1 /\ (cpu.box # "console" \/ cpu.at \in {"len", "data"})
  /\ Stage \notin ConsoleStages
  /\ mem.console.len = Newest(log.console) /\ mem.console.data = Newest(log.console)
  /\ cpu.box = "console" /\ cpu.at = "data" => cpu.len = Newest(log.console)
  /\ Kept(log.console, 1, 0)
ConsoleRead ==
  /\ mem.console.pending = 1 /\ cpu.box = "console" /\ cpu.at \in {"answer", "raise"}
  /\ Stage \notin ConsoleStages
  /\ mem.console.len = Newest(log.console) /\ mem.console.data = Newest(log.console)
  /\ cpu.len = Newest(log.console) /\ cpu.data = Newest(log.console)
  /\ Kept(log.console, 0, 1)
ConsoleAnswered ==
  /\ mem.console.pending = 2 /\ cpu.box # "console"
  /\ Stage \notin {"console_data", "console_len", "console_pending"}
  /\ mem.console.len = Newest(log.console) /\ mem.console.data = Newest(log.console)
  /\ Kept(log.console, 0, IF Stage = "free_console" THEN 0 ELSE 1)
ConsoleMail == ConsoleEmpty \/ ConsoleAsked \/ ConsoleRead \/ ConsoleAnswered

RequestStages == {"request_data", "request_len", "request_pending"}
ResponseStages == {"take_debug", "free_debug"}
Carries == (cpu.box = "request" /\ cpu.at = "free") \/ cpu.box = "response"
Untold == mem.response.pending = 1 /\ Stage # "free_debug"
Owed == (IF Carries THEN 1 ELSE 0) + (IF Untold THEN 1 ELSE 0)

RequestEmpty ==
  /\ mem.request.pending = 0 /\ cpu.box # "request"
  /\ Stage \in {"request_len", "request_pending"} => mem.request.data = work.what
  /\ Stage = "request_pending" => mem.request.len = work.what
  /\ Kept(log.debug, 0, Owed)
RequestAsked ==
  /\ mem.request.pending = 1 /\ (cpu.box # "request" \/ cpu.at \in {"len", "data"})
  /\ Stage \notin RequestStages
  /\ mem.request.len = Newest(log.debug) /\ mem.request.data = Newest(log.debug)
  /\ cpu.box = "request" /\ cpu.at = "data" => cpu.len = Newest(log.debug)
  /\ Kept(log.debug, 1, Owed)
RequestRead ==
  /\ mem.request.pending = 1 /\ cpu.box = "request" /\ cpu.at = "free"
  /\ Stage \notin RequestStages
  /\ Kept(log.debug, 0, Owed)
ResponseInv ==
  /\ mem.response.pending \in {0, 1}
  /\ Stage \in ResponseStages => mem.response.pending = 1
  /\ Carries => log.debug.read[Len(log.debug.read)] = <<cpu.len, cpu.data>>
  /\ Untold => log.debug.read[Len(log.debug.told) + 1] = <<mem.response.len, mem.response.data>>
  /\ cpu.box = "response" /\ cpu.at = "raise" =>
       mem.response = [pending |-> 0, len |-> cpu.len, data |-> cpu.data]
DebugMail == (RequestEmpty \/ RequestAsked \/ RequestRead) /\ ResponseInv

MailInv == OpsInv /\ Shape /\ CpuInv /\ ConsoleMail /\ DebugMail

LEMMA OpsAre ==
  ASSUME OpsInv, NEW name, Op(name)
  PROVE  /\ name = "touch" => ops = <<"touch">>
         /\ name = "payload" => ops = <<"payload">>
         /\ name = "header" => ops = <<"header", "payload">>
         /\ name = "poll_debug" => ops = <<"poll_debug">>
         /\ name = "ask_debug" => ops = <<"ask_debug">>
         /\ name = "ask_console" => ops = <<"ask_console">>
         /\ name = "print_console" => ops = <<"print_console", "free_console">>
         /\ name = "free_console" => ops = <<"free_console">>
         /\ name = "console_data" => ops = ConsoleOps
         /\ name = "console_len" => ops = <<"console_len", "console_pending">>
         /\ name = "console_pending" => ops = <<"console_pending">>
         /\ name = "request_data" => ops = RequestOps
         /\ name = "request_len" => ops = <<"request_len", "request_pending", "poll_debug">>
         /\ name = "request_pending" => ops = <<"request_pending", "poll_debug">>
         /\ name = "take_debug" => ops = AnswerOps
         /\ name = "free_debug" => ops = <<"free_debug", "header", "payload">>
         /\ name = "queue_button" => ops = ButtonOps
         /\ name = "bits" => ops = <<"bits", "set_bits", "events", "set_events">>
         /\ name = "set_bits" => \E b : ops = <<"set_bits", b, "events", "set_events">>
         /\ name = "events" => ops = <<"events", "set_events">>
  BY DEF OpsInv, Op, ConsoleOps, RequestOps, AnswerOps, ButtonOps

(* What is left when the first is done.                                    *)
LEMMA OpsAfter ==
  ASSUME OpsInv, NEW name, Op(name), Then(<< >>)
  PROVE  /\ Stage = name
         /\ name \in {"touch", "payload", "ask_debug", "ask_console", "poll_debug", "free_console",
                      "console_pending"} => ops' = << >>
         /\ name = "header" => ops' = <<"payload">>
         /\ name = "print_console" => ops' = <<"free_console">>
         /\ name = "console_data" => ops' = <<"console_len", "console_pending">>
         /\ name = "console_len" => ops' = <<"console_pending">>
         /\ name = "request_data" => ops' = <<"request_len", "request_pending", "poll_debug">>
         /\ name = "request_len" => ops' = <<"request_pending", "poll_debug">>
         /\ name = "request_pending" => ops' = <<"poll_debug">>
         /\ name = "take_debug" => ops' = <<"free_debug", "header", "payload">>
         /\ name = "free_debug" => ops' = <<"header", "payload">>
         /\ name = "queue_button" => ops' = <<"bits", "set_bits", "events", "set_events">>
<1>1. Stage = name
  BY DEF Op, Stage
<1>2. ops' = << >> \o Tail(ops)
  BY DEF Then
<1>3. \A a, b, c, d, e :
        /\ ops = <<a>> => ops' = << >>
        /\ ops = <<a, b>> => ops' = <<b>>
        /\ ops = <<a, b, c>> => ops' = <<b, c>>
        /\ ops = <<a, b, c, d>> => ops' = <<b, c, d>>
        /\ ops = <<a, b, c, d, e>> => ops' = <<b, c, d, e>>
  <2> TAKE a, b, c, d, e
  <2>1. ops = <<a>> => ops' = << >>
    BY <1>2
  <2>2. ops = <<a, b>> => ops' = <<b>>
    BY <1>2
  <2>3. ops = <<a, b, c>> => ops' = <<b, c>>
    BY <1>2
  <2>4. ops = <<a, b, c, d>> => ops' = <<b, c, d>>
    BY <1>2
  <2>5. ops = <<a, b, c, d, e>> => ops' = <<b, c, d, e>>
    BY <1>2
  <2> QED BY <2>1, <2>2, <2>3, <2>4, <2>5
<1>4. name \in {"touch", "payload", "ask_debug", "ask_console", "poll_debug", "free_console",
               "console_pending"} => ops = <<name>>
  BY OpsAre
<1>5. name \in {"touch", "payload", "ask_debug", "ask_console", "poll_debug", "free_console",
               "console_pending"} => ops' = << >>
  <2>1. \A a : ops = <<a>> => ops' = << >>
    BY <1>3
  <2> QED BY <2>1, <1>4
<1>6. /\ name = "console_data" => ops = ConsoleOps
      /\ name = "request_data" => ops = RequestOps
      /\ name = "take_debug" => ops = AnswerOps
      /\ name = "queue_button" => ops = ButtonOps
  BY OpsAre
<1>7. /\ name = "console_data" => ops' = <<"console_len", "console_pending">>
      /\ name = "request_data" => ops' = <<"request_len", "request_pending", "poll_debug">>
      /\ name = "take_debug" => ops' = <<"free_debug", "header", "payload">>
      /\ name = "queue_button" => ops' = <<"bits", "set_bits", "events", "set_events">>
  BY <1>3, <1>6 DEF ConsoleOps, RequestOps, AnswerOps, ButtonOps
<1>8. /\ name = "header" => ops = <<"header", "payload">>
      /\ name = "print_console" => ops = <<"print_console", "free_console">>
      /\ name = "console_len" => ops = <<"console_len", "console_pending">>
      /\ name = "request_len" => ops = <<"request_len", "request_pending", "poll_debug">>
      /\ name = "request_pending" => ops = <<"request_pending", "poll_debug">>
      /\ name = "free_debug" => ops = <<"free_debug", "header", "payload">>
  BY OpsAre
<1>9. /\ name = "header" => ops' = <<"payload">>
      /\ name = "print_console" => ops' = <<"free_console">>
      /\ name = "console_len" => ops' = <<"console_pending">>
      /\ name = "request_len" => ops' = <<"request_pending", "poll_debug">>
      /\ name = "request_pending" => ops' = <<"poll_debug">>
      /\ name = "free_debug" => ops' = <<"header", "payload">>
  BY <1>3, <1>8
<1> QED BY <1>1, <1>5, <1>7, <1>9

(* The stage, as the program left tells it.                                *)
LEMMA Stages ==
  /\ ops = << >> => Stage = "done"
  /\ \A a : ops = <<a>> => Stage = a
  /\ \A a, b : ops = <<a, b>> => Stage = a
  /\ \A a, b, c : ops = <<a, b, c>> => Stage = a
  /\ \A a, b, c, d : ops = <<a, b, c, d>> => Stage = a
  /\ \A a, b, c, d, e : ops = <<a, b, c, d, e>> => Stage = a
  BY DEF Stage

----------------------------------------------------------------------------
(* Sequences and logs that grow.                                           *)
LEMMA ListedAppend ==
  ASSUME NEW s, NEW e, Listed(s)
  PROVE  /\ Listed(Append(s, e))
         /\ Len(Append(s, e)) = Len(s) + 1
         /\ \A i \in 1 .. Len(s) : Append(s, e)[i] = s[i]
         /\ Append(s, e)[Len(s) + 1] = e
<1> DEFINE n == Len(s)
           S == {s[i] : i \in 1 .. n} \cup {e}
<1>1. n \in Nat /\ s = [i \in 1 .. n |-> s[i]]
  BY DEF Listed
<1>2. s \in Seq(S)
  <2>1. [i \in 1 .. n |-> s[i]] \in [1 .. n -> S]
    OBVIOUS
  <2>2. s \in [1 .. n -> S]
    BY <1>1, <2>1
  <2> QED BY <2>2, <1>1, IsASeq
<1>3. e \in S
  OBVIOUS
<1> DEFINE t == Append(s, e)
<1>4. t \in Seq(S) /\ Len(t) = n + 1 /\ (\A i \in 1 .. n : t[i] = s[i]) /\ t[n + 1] = e
  <2> HIDE DEF S
  <2> QED BY <1>2, <1>3, AppendProperties
<1>5. Listed(t)
  <2> HIDE DEF S, t
  <2> QED BY <1>1, <1>4, LenProperties DEF Listed
<1> QED BY <1>4, <1>5

LEMMA ListedEmpty == Listed(<< >>) /\ Len(<< >>) = 0
  BY DEF Listed

Accepted(l, v) == [l EXCEPT !.accepted = Append(l.accepted, v)]
Read(l, v) == [l EXCEPT !.read = Append(l.read, <<v, v>>)]
Told(l) == [l EXCEPT !.told = Append(l.told, l.read[Len(l.told) + 1])]

(* A request is accepted.                                                  *)
LEMMA KeptAccept ==
  ASSUME NEW l, NEW v, NEW j \in Nat, Kept(l, 0, j)
  PROVE  /\ Kept(Accepted(l, v), 1, j) /\ Newest(Accepted(l, v)) = v
         /\ Accepted(l, v).read = l.read /\ Accepted(l, v).told = l.told
<1> DEFINE m == Accepted(l, v)
<1>1. DOMAIN m = DOMAIN l /\ m.accepted = Append(l.accepted, v) /\ m.read = l.read /\ m.told = l.told
  BY DEF Kept, Accepted
<1> HIDE DEF m
<1>2. /\ Listed(m.accepted) /\ Len(m.accepted) = Len(l.accepted) + 1
      /\ \A i \in 1 .. Len(l.accepted) : m.accepted[i] = l.accepted[i]
      /\ m.accepted[Len(l.accepted) + 1] = v
  BY <1>1, ListedAppend DEF Kept
<1>3. Len(l.accepted) = Len(l.read) /\ Len(l.read) \in Nat
  BY DEF Kept, Listed
<1>4. Kept(m, 1, j) /\ Newest(m) = v /\ m.read = l.read /\ m.told = l.told
  BY <1>1, <1>2, <1>3 DEF Kept, Newest
<1> QED BY <1>4 DEF m

(* The request is read, its length and its data both being the newest.     *)
LEMMA KeptRead ==
  ASSUME NEW l, NEW v, NEW j \in Nat, Kept(l, 1, j), v = Newest(l)
  PROVE  /\ Kept(Read(l, v), 0, j + 1) /\ Newest(Read(l, v)) = v /\ Read(l, v).told = l.told
         /\ Read(l, v).read[Len(Read(l, v).read)] = <<v, v>>
         /\ \A i \in 1 .. Len(l.read) : Read(l, v).read[i] = l.read[i]
<1> DEFINE m == Read(l, v)
<1>1. DOMAIN m = DOMAIN l /\ m.accepted = l.accepted /\ m.read = Append(l.read, <<v, v>>) /\ m.told = l.told
  BY DEF Kept, Read
<1> HIDE DEF m
<1>2. /\ Listed(m.read) /\ Len(m.read) = Len(l.read) + 1
      /\ \A i \in 1 .. Len(l.read) : m.read[i] = l.read[i]
      /\ m.read[Len(l.read) + 1] = <<v, v>>
  BY <1>1, ListedAppend DEF Kept
<1>3. Len(l.accepted) = Len(l.read) + 1 /\ Len(l.read) \in Nat /\ Len(l.told) \in Nat /\ Len(l.read) = Len(l.told) + j
  BY DEF Kept, Listed
<1>4. l.accepted[Len(l.read) + 1] = v
  BY <1>3 DEF Newest
<1>5. \A i \in 1 .. Len(m.read) : m.read[i] = <<m.accepted[i], m.accepted[i]>>
  <2> SUFFICES ASSUME NEW i \in 1 .. Len(m.read)
               PROVE  m.read[i] = <<m.accepted[i], m.accepted[i]>>
    OBVIOUS
  <2>1. CASE i \in 1 .. Len(l.read)
    BY <2>1, <1>1, <1>2 DEF Kept
  <2>2. CASE i = Len(l.read) + 1
    BY <2>2, <1>1, <1>2, <1>4
  <2> QED BY <2>1, <2>2, <1>2, <1>3
<1>6. \A i \in 1 .. Len(m.told) : m.told[i] = m.read[i]
  BY <1>1, <1>2, <1>3 DEF Kept
<1>7. Kept(m, 0, j + 1) /\ Newest(m) = v
  BY <1>1, <1>2, <1>3, <1>5, <1>6 DEF Kept, Newest
<1>8. m.read[Len(m.read)] = <<v, v>>
  BY <1>2
<1> QED BY <1>1, <1>2, <1>7, <1>8 DEF m

(* The first read that is not told is told.                                *)
LEMMA KeptTell ==
  ASSUME NEW l, NEW k, NEW j \in Nat, Kept(l, k, j), j > 0
  PROVE  /\ Kept(Told(l), k, j - 1) /\ Newest(Told(l)) = Newest(l) /\ Told(l).read = l.read
         /\ Len(Told(l).told) = Len(l.told) + 1
<1> DEFINE m == Told(l)
<1> DEFINE e == l.read[Len(l.told) + 1]
<1>1. DOMAIN m = DOMAIN l /\ m.accepted = l.accepted /\ m.told = Append(l.told, e) /\ m.read = l.read
  BY DEF Kept, Told
<1> HIDE DEF m
<1>2. /\ Listed(m.told) /\ Len(m.told) = Len(l.told) + 1
      /\ \A i \in 1 .. Len(l.told) : m.told[i] = l.told[i]
      /\ m.told[Len(l.told) + 1] = e
  BY <1>1, ListedAppend DEF Kept
<1>3. Len(l.read) \in Nat /\ Len(l.told) \in Nat /\ Len(l.read) = Len(l.told) + j
  BY DEF Kept, Listed
<1>4. \A i \in 1 .. Len(m.told) : m.told[i] = m.read[i]
  <2> SUFFICES ASSUME NEW i \in 1 .. Len(m.told)
               PROVE  m.told[i] = m.read[i]
    OBVIOUS
  <2>1. CASE i \in 1 .. Len(l.told)
    BY <2>1, <1>1, <1>2 DEF Kept
  <2>2. CASE i = Len(l.told) + 1
    BY <2>2, <1>1, <1>2
  <2> QED BY <2>1, <2>2, <1>2, <1>3
<1>5. Len(m.read) = Len(m.told) + (j - 1)
  BY <1>1, <1>2, <1>3
<1>6. Kept(m, k, j - 1) /\ Newest(m) = Newest(l)
  BY <1>1, <1>2, <1>4, <1>5 DEF Kept, Newest
<1> QED BY <1>1, <1>2, <1>6 DEF m

(* A log so kept is whole, as the property says it.                        *)
LEMMA KeptWhole ==
  ASSUME NEW l, NEW k \in Nat, NEW j \in Nat, Kept(l, k, j)
  PROVE  /\ \A i \in DOMAIN l.read : l.read[i][1] = l.read[i][2]
         /\ IsPrefix(Same(l.read), l.accepted)
         /\ IsPrefix(l.told, l.read)
<1>1. /\ Len(l.accepted) \in Nat /\ Len(l.read) \in Nat /\ Len(l.told) \in Nat
      /\ l.accepted = [i \in 1 .. Len(l.accepted) |-> l.accepted[i]]
      /\ l.read = [i \in 1 .. Len(l.read) |-> l.read[i]]
      /\ l.told = [i \in 1 .. Len(l.told) |-> l.told[i]]
  BY DEF Kept, Listed
<1>2. DOMAIN l.read = 1 .. Len(l.read)
  BY <1>1
<1>3. \A i \in DOMAIN l.read : l.read[i][1] = l.accepted[i] /\ l.read[i][2] = l.accepted[i]
  BY <1>2 DEF Kept
<1>4. Same(l.read) = [i \in 1 .. Len(l.read) |-> l.accepted[i]]
  BY <1>2, <1>3 DEF Same
<1>5. Len(Same(l.read)) = Len(l.read)
  BY <1>1, <1>4
<1> DEFINE n == Len(l.read)
           r == Len(l.told)
<1>6. n <= Len(l.accepted) /\ r <= n
  BY <1>1 DEF Kept
<1>7. IsPrefix(Same(l.read), l.accepted)
  <2>1. SubSeq(Same(l.read), 1, n) = SubSeq(l.accepted, 1, n)
    BY <1>1, <1>4, <1>6
  <2> QED BY <2>1, <1>5, <1>6 DEF IsPrefix
<1>8. IsPrefix(l.told, l.read)
  <2>1. SubSeq(l.told, 1, r) = SubSeq(l.read, 1, r)
    BY <1>1, <1>6 DEF Kept
  <2> QED BY <2>1, <1>6 DEF IsPrefix
<1> QED BY <1>3, <1>7, <1>8

----------------------------------------------------------------------------
(* A step that is not about a mailbox leaves what is said of it.           *)
Quiet == Stage \notin ConsoleStages /\ Stage \notin RequestStages /\ Stage \notin ResponseStages

LEMMA ConsoleAside ==
  ASSUME ConsoleMail, mem'.console = mem.console, log'.console = log.console,
         cpu' = cpu \/ (cpu.box # "console" /\ cpu'.box # "console"),
         (Stage' = Stage /\ work' = work) \/ (Stage \notin ConsoleStages /\ Stage' \notin ConsoleStages)
  PROVE  ConsoleMail'
<1>1. CASE ConsoleEmpty
  <2>1. ConsoleEmpty'
    BY <1>1 DEF ConsoleEmpty, ConsoleStages
  <2> QED BY <2>1 DEF ConsoleMail
<1>2. CASE ConsoleAsked
  <2>1. ConsoleAsked'
    BY <1>2 DEF ConsoleAsked, ConsoleStages
  <2> QED BY <2>1 DEF ConsoleMail
<1>3. CASE ConsoleRead
  <2>1. ConsoleRead'
    BY <1>3 DEF ConsoleRead, ConsoleStages
  <2> QED BY <2>1 DEF ConsoleMail
<1>4. CASE ConsoleAnswered
  <2>1. ConsoleAnswered'
    BY <1>4 DEF ConsoleAnswered, ConsoleStages
  <2> QED BY <2>1 DEF ConsoleMail
<1> QED BY <1>1, <1>2, <1>3, <1>4 DEF ConsoleMail

LEMMA DebugAside ==
  ASSUME DebugMail, mem'.request = mem.request, mem'.response = mem.response, log'.debug = log.debug,
         cpu' = cpu \/ (cpu.box \notin {"request", "response"} /\ cpu'.box \notin {"request", "response"}),
         \/ Stage' = Stage /\ work' = work
         \/ /\ Stage \notin RequestStages \cup ResponseStages
            /\ Stage' \notin RequestStages \cup ResponseStages
  PROVE  DebugMail'
<1>1. Carries' = Carries /\ Untold' = Untold /\ Owed' = Owed
  BY DEF Carries, Untold, Owed, ResponseStages
<1>2. ResponseInv'
  <2>1. Stage' \in ResponseStages => mem'.response.pending = 1
    BY DEF DebugMail, ResponseInv
  <2>2. Carries' => log'.debug.read[Len(log'.debug.read)] = <<cpu'.len, cpu'.data>>
    BY <1>1 DEF DebugMail, ResponseInv, Carries
  <2>3. Untold' => log'.debug.read[Len(log'.debug.told) + 1] = <<mem'.response.len, mem'.response.data>>
    BY <1>1 DEF DebugMail, ResponseInv
  <2>4. cpu'.box = "response" /\ cpu'.at = "raise" =>
          mem'.response = [pending |-> 0, len |-> cpu'.len, data |-> cpu'.data]
    BY DEF DebugMail, ResponseInv
  <2> QED BY <2>1, <2>2, <2>3, <2>4 DEF DebugMail, ResponseInv
<1>3. CASE RequestEmpty
  <2>1. RequestEmpty'
    BY <1>1, <1>3 DEF RequestEmpty, RequestStages
  <2> QED BY <1>2, <2>1 DEF DebugMail
<1>4. CASE RequestAsked
  <2>1. RequestAsked'
    BY <1>1, <1>4 DEF RequestAsked, RequestStages
  <2> QED BY <1>2, <2>1 DEF DebugMail
<1>5. CASE RequestRead
  <2>1. RequestRead'
    BY <1>1, <1>5 DEF RequestRead, RequestStages
  <2> QED BY <1>2, <2>1 DEF DebugMail
<1> QED BY <1>3, <1>4, <1>5 DEF DebugMail

LEMMA NothingMoves ==
  ASSUME MailInv, UNCHANGED <<ops, work, mem, cpu, log>>
  PROVE  MailInv'
<1>1. OpsInv' /\ Shape' /\ CpuInv' /\ Stage' = Stage
  BY DEF MailInv, OpsInv, Shape, CpuInv, Stage
<1>2. ConsoleMail'
  BY <1>1, ConsoleAside DEF MailInv
<1>3. DebugMail'
  BY <1>1, DebugAside DEF MailInv
<1> QED BY <1>1, <1>2, <1>3 DEF MailInv

(* The main thread does something that is not about the mailboxes.         *)
LEMMA MainAside ==
  ASSUME MailInv, OpsInv', Quiet, Quiet', UNCHANGED <<cpu, log>>, Shape',
         \A b \in Boxes : mem'[b] = mem[b]
  PROVE  MailInv'
<1>1. mem'.console = mem.console /\ mem'.request = mem.request /\ mem'.response = mem.response
  BY DEF Boxes
<1>2. CpuInv'
  BY DEF MailInv, CpuInv
<1>3. ConsoleMail'
  BY <1>1, ConsoleAside DEF MailInv, Quiet
<1>4. DebugMail'
  BY <1>1, DebugAside DEF MailInv, Quiet
<1> QED BY <1>2, <1>3, <1>4 DEF MailInv

(* The firmware goes between idling and publishing.                        *)
LEMMA FirmwareAside ==
  ASSUME MailInv, UNCHANGED <<ops, work, mem, log>>, Shape', CpuInv', cpu.box = None, cpu'.box = None
  PROVE  MailInv'
<1>1. OpsInv' /\ Stage' = Stage
  BY DEF MailInv, OpsInv, Stage
<1>2. ConsoleMail'
  BY <1>1, ConsoleAside DEF MailInv, None
<1>3. DebugMail'
  BY <1>1, DebugAside DEF MailInv, None
<1> QED BY <1>1, <1>2, <1>3 DEF MailInv

LEMMA WriteSays ==
  ASSUME Shape, NEW box \in Boxes, NEW field \in Fields, NEW value, Write(box, field, value),
         DOMAIN log' = DOMAIN log, DOMAIN cpu' = DOMAIN cpu
  PROVE  /\ Shape'
         /\ mem'[box][field] = value
         /\ \A f \in Fields : f # field => mem'[box][f] = mem[box][f]
         /\ \A b \in Boxes : b # box => mem'[b] = mem[b]
<1>1. mem' = [mem EXCEPT ![box] = [mem[box] EXCEPT ![field] = value]]
  BY DEF Write
<1>2. mem'[box] = [mem[box] EXCEPT ![field] = value] /\ DOMAIN mem' = DOMAIN mem
  BY <1>1 DEF Shape, Boxes
<1>3. \A b \in Boxes : b # box => mem'[b] = mem[b]
  BY <1>1 DEF Shape, Boxes
<1>4. DOMAIN mem'[box] = Fields /\ mem'[box][field] = value
  BY <1>2 DEF Shape
<1>5. \A f \in Fields : f # field => mem'[box][f] = mem[box][f]
  BY <1>2 DEF Shape
<1> QED BY <1>2, <1>3, <1>4, <1>5 DEF Shape

----------------------------------------------------------------------------
(* The parser hands a frame over.                                          *)
LEMMA DispatchKeeps ==
  ASSUME MailInv, ops = << >>, NEW f, Dispatch(f), UNCHANGED <<mem, cpu, log>>
  PROVE  MailInv'
<1>1. ops' = OpsFor(f)
  BY DEF Dispatch
<1>2. OpsFor(f) \in {<<"touch">>, ButtonOps, <<"header", "payload">>, <<"poll_debug">>, <<"ask_debug">>,
                     <<"ask_console">>, << >>}
  BY DEF OpsFor, ButtonOps
<1>3. OpsInv'
  BY <1>1, <1>2 DEF OpsInv
<1>4. Quiet
  BY DEF Quiet, Stage, ConsoleStages, RequestStages, ResponseStages
<1>5. Stage' \in {"done", "touch", "queue_button", "header", "poll_debug", "ask_debug", "ask_console"}
  BY <1>1, <1>2 DEF Stage, ButtonOps
<1>6. Quiet'
  BY <1>5 DEF Quiet, ConsoleStages, RequestStages, ResponseStages
<1>7. Shape'
  BY DEF Shape, MailInv
<1> QED BY <1>3, <1>4, <1>6, <1>7, MainAside

LEMMA ParserKeeps ==
  ASSUME MailInv, HeaderTurn \/ PayloadTurn
  PROVE  MailInv'
<1>1. ops = << >> /\ UNCHANGED <<mem, cpu, log>>
  BY DEF HeaderTurn, PayloadTurn, Parsing
<1>2. UNCHANGED <<ops, work>> \/ \E f : Dispatch(f)
  BY DEF HeaderTurn, PayloadTurn
<1>3. CASE UNCHANGED <<ops, work>>
  BY <1>1, <1>3, NothingMoves
<1>4. CASE \E f : Dispatch(f)
  BY <1>1, <1>4, DispatchKeeps
<1> QED BY <1>2, <1>3, <1>4

(* The other work of the main thread.                                      *)
LEMMA OtherWorkKeeps ==
  ASSUME MailInv, SendHeader \/ SendPayload \/ InjectTouches \/ QueueButton
  PROVE  MailInv'
<1>1. PICK name \in {"header", "payload", "touch", "queue_button"} : Op(name)
  BY DEF SendHeader, SendPayload, InjectTouches, QueueButton
<1>2. Then(<< >>) /\ UNCHANGED <<mem, cpu, log, work>>
  BY DEF SendHeader, SendPayload, InjectTouches, QueueButton, MainOnly
<1>3. /\ Stage = name
      /\ ops' \in {<< >>, <<"payload">>, <<"bits", "set_bits", "events", "set_events">>}
  BY <1>1, <1>2, OpsAfter DEF MailInv
<1>4. OpsInv'
  BY <1>3 DEF OpsInv
<1>5. Stage' \in {"done", "payload", "bits"}
  BY <1>3 DEF Stage
<1>6. Quiet /\ Quiet'
  BY <1>3, <1>5 DEF Quiet, ConsoleStages, RequestStages, ResponseStages
<1>7. Shape'
  BY <1>2 DEF MailInv, Shape
<1> QED BY <1>2, <1>4, <1>6, <1>7, MainAside

LEMMA LastTwo ==
  ASSUME NEW a, NEW b, NEW c, NEW d, NEW o, o = <<a, b, c, d>>
  PROVE  SubSeq(o, 3, Len(o)) = <<c, d>>
<1>1. Len(o) = 4 /\ o[3] = c /\ o[4] = d
  OBVIOUS
<1>2. SubSeq(o, 3, 4) = [i \in 1 .. 2 |-> o[3 + i - 1]]
  OBVIOUS
<1>3. <<c, d>> = [i \in 1 .. 2 |-> IF i = 1 THEN c ELSE d]
  OBVIOUS
<1>4. \A i \in 1 .. 2 : o[3 + i - 1] = IF i = 1 THEN c ELSE d
  BY <1>1
<1> QED BY <1>1, <1>2, <1>3, <1>4

LEMMA TwoAndTwo ==
  ASSUME NEW a, NEW b, NEW c, NEW d
  PROVE  <<a, b>> \o <<c, d>> = <<a, b, c, d>>
<1> DEFINE p == <<a, b>>
           q == <<c, d>>
           o == p \o q
           r == <<a, b, c, d>>
           S == {a, b, c, d}
<1>1. p \in Seq(S) /\ q \in Seq(S) /\ r \in Seq(S) /\ Len(p) = 2 /\ Len(q) = 2 /\ Len(r) = 4
  OBVIOUS
<1>2. /\ o \in Seq(S) /\ Len(o) = 4
      /\ \A i \in 1 .. 4 : o[i] = IF i <= 2 THEN p[i] ELSE q[i - 2]
  <2>1. p \in Seq(S) /\ q \in Seq(S) /\ Len(p) = 2 /\ Len(q) = 2
    BY <1>1
  <2> HIDE DEF p, q, S
  <2>2. /\ p \o q \in Seq(S) /\ Len(p \o q) = Len(p) + Len(q)
        /\ \A i \in 1 .. Len(p) + Len(q) : (p \o q)[i] = IF i <= Len(p) THEN p[i] ELSE q[i - Len(p)]
    BY <2>1, ConcatProperties, Zenon
  <2> QED BY <2>1, <2>2
<1>3. \A i \in 1 .. 4 : o[i] = r[i]
  <2>1. p[1] = a /\ p[2] = b /\ q[1] = c /\ q[2] = d /\ r[1] = a /\ r[2] = b /\ r[3] = c /\ r[4] = d
    OBVIOUS
  <2> HIDE DEF p, q, r, o
  <2>2. o[1] = r[1] /\ o[2] = r[2] /\ o[3] = r[3] /\ o[4] = r[4]
    BY <1>2, <2>1
  <2> QED BY <2>2
<1>4. o = r
  <2> HIDE DEF o, r, S
  <2> QED BY <1>1, <1>2, <1>3, SeqEqual
<1> QED BY <1>4

LEMMA ButtonsKeep ==
  ASSUME MailInv, ReadBits \/ SetBits \/ ReadEvents \/ SetEvents
  PROVE  MailInv'
<1>1. PICK name \in {"bits", "set_bits", "events", "set_events"} : Op(name)
  BY DEF ReadBits, SetBits, ReadEvents, SetEvents
<1>2. UNCHANGED <<cpu, log, work>>
  BY DEF ReadBits, SetBits, ReadEvents, SetEvents, MainOnly
<1>3. Shape' /\ \A b \in Boxes : mem'[b] = mem[b]
  <2>1. CASE mem' = mem
    BY <1>2, <2>1 DEF MailInv, Shape
  <2>2. CASE SetBits
    BY <1>2, <2>2 DEF SetBits, MailInv, Shape, Boxes, Edges
  <2>3. CASE SetEvents
    <3>1. Edge \in Edges
      BY DEF Edge, EdgeOf, Edges
    <3>2. mem' = [mem EXCEPT ![Edge] = ops[2] \cup {work.what.id}]
      BY <2>3 DEF SetEvents
    <3> QED BY <1>2, <3>1, <3>2 DEF MailInv, Shape, Boxes, Edges
  <2> QED BY <2>1, <2>2, <2>3 DEF ReadBits, ReadEvents
<1>4. OpsInv' /\ Stage' \in {"set_bits", "events", "set_events", "done"}
  <2>1. CASE ReadBits
    <3>1. ops = <<"bits", "set_bits", "events", "set_events">>
      BY <2>1, OpsAre DEF ReadBits, MailInv
    <3>2. ops' = <<"set_bits", mem.bits, "events", "set_events">>
      <4>1. SubSeq(ops, 3, Len(ops)) = <<"events", "set_events">>
        BY <3>1, LastTwo
      <4>2. ops' = <<"set_bits", mem.bits>> \o <<"events", "set_events">>
        BY <2>1, <4>1 DEF ReadBits
      <4>3. <<"set_bits", mem.bits>> \o <<"events", "set_events">> = <<"set_bits", mem.bits, "events", "set_events">>
        BY TwoAndTwo
      <4> QED BY <4>2, <4>3
    <3> QED BY <3>2 DEF OpsInv, Stage
  <2>2. CASE SetBits
    <3>1. PICK b : ops = <<"set_bits", b, "events", "set_events">>
      BY <2>2, OpsAre DEF SetBits, MailInv
    <3>2. ops' = <<"events", "set_events">>
      <4>1. SubSeq(ops, 3, Len(ops)) = <<"events", "set_events">>
        BY <3>1, LastTwo
      <4> QED BY <2>2, <4>1 DEF SetBits
    <3> QED BY <3>2 DEF OpsInv, Stage
  <2>3. CASE ReadEvents
    <3>1. ops' = <<"set_events", mem[Edge]>>
      BY <2>3 DEF ReadEvents
    <3> QED BY <3>1 DEF OpsInv, Stage
  <2>4. CASE SetEvents
    <3>1. ops' = << >>
      BY <2>4 DEF SetEvents
    <3> QED BY <3>1 DEF OpsInv, Stage
  <2> QED BY <2>1, <2>2, <2>3, <2>4
<1>5. Quiet /\ Quiet'
  BY <1>1, <1>4 DEF Quiet, Op, Stage, ConsoleStages, RequestStages, ResponseStages
<1> QED BY <1>2, <1>3, <1>4, <1>5, MainAside

----------------------------------------------------------------------------
(* The console mailbox, from the main thread's side.                       *)
LEMMA OneMore ==
  ASSUME NEW a, NEW b, NEW c, NEW d
  PROVE  Append(<<a, b, c>>, d) = <<a, b, c, d>>
<1> DEFINE p == <<a, b, c>>
           o == Append(p, d)
           r == <<a, b, c, d>>
<1>1. Listed(p) /\ Listed(r) /\ Len(p) = 3 /\ Len(r) = 4
  BY DEF Listed
<1>2. p[1] = a /\ p[2] = b /\ p[3] = c /\ r[1] = a /\ r[2] = b /\ r[3] = c /\ r[4] = d
  OBVIOUS
<1>3. Listed(o) /\ Len(o) = 4 /\ (\A i \in 1 .. 3 : o[i] = p[i]) /\ o[4] = d
  <2> HIDE DEF p
  <2> QED BY <1>1, ListedAppend, SMTT(30)
<1>4. \A i \in 1 .. 4 : o[i] = r[i]
  <2> HIDE DEF p, r, o
  <2>1. o[1] = r[1] /\ o[2] = r[2] /\ o[3] = r[3] /\ o[4] = r[4]
    BY <1>2, <1>3
  <2> QED BY <2>1
<1>5. o = r
  <2> HIDE DEF o, r
  <2> QED BY <1>1, <1>3, <1>4 DEF Listed
<1> QED BY <1>5

LEMMA NothingAfter ==
  ASSUME NEW s, NEW a, NEW o, o = <<a>>, Listed(s)
  PROVE  s \o Tail(o) = s
<1>1. Tail(o) = << >>
  OBVIOUS
<1>2. s \in Seq({s[i] : i \in 1 .. Len(s)})
  <2> DEFINE S == {s[i] : i \in 1 .. Len(s)}
  <2>1. [i \in 1 .. Len(s) |-> s[i]] \in [1 .. Len(s) -> S]
    OBVIOUS
  <2>2. s \in [1 .. Len(s) -> S]
    BY <2>1 DEF Listed
  <2> QED BY <2>2, IsASeq DEF Listed
<1>3. s \o << >> = s
  BY <1>2, ConcatEmptySeq, Zenon
<1> QED BY <1>1, <1>3

LEMMA AskConsoleKeeps ==
  ASSUME MailInv, AskConsole
  PROVE  MailInv'
<1>1. /\ ops = <<"ask_console">> /\ UNCHANGED <<mem, cpu, log, work>>
      /\ ops' = (IF Has("console") /\ mem.console.pending = 0 THEN ConsoleSteps ELSE << >>) \o Tail(ops)
  BY OpsAre DEF AskConsole, Ask, MailInv, MainOnly, Then
<1>2. Stage = "ask_console" /\ Quiet
  BY <1>1 DEF Stage, Quiet, ConsoleStages, RequestStages, ResponseStages
<1>3. Shape' /\ CpuInv'
  BY <1>1 DEF MailInv, Shape, CpuInv
<1>4. CASE mem.console.pending = 0 /\ ops' = ConsoleSteps \o Tail(ops)
  <2>1. ops' = ConsoleOps
    <3>1. Listed(ConsoleSteps)
      BY DEF Listed, ConsoleSteps
    <3> QED BY <1>1, <1>4, <3>1, NothingAfter DEF ConsoleOps, ConsoleSteps
  <2>2. OpsInv' /\ Stage' = "console_data"
    BY <2>1 DEF OpsInv, Stage, ConsoleOps
  <2>3. DebugMail'
    BY <1>1, <1>2, <2>2, DebugAside DEF MailInv, Quiet, RequestStages, ResponseStages
  <2>4. ConsoleEmpty
    BY <1>4 DEF MailInv, ConsoleMail, ConsoleEmpty, ConsoleAsked, ConsoleRead, ConsoleAnswered
  <2>5. ConsoleEmpty'
    BY <1>1, <2>2, <2>4 DEF ConsoleEmpty
  <2> QED BY <1>3, <2>2, <2>3, <2>5 DEF MailInv, ConsoleMail
<1>5. CASE ops' = << >> \o Tail(ops)
  <2>1. ops' = << >>
    BY <1>1, <1>5
  <2>2. OpsInv' /\ Quiet'
    BY <2>1 DEF OpsInv, Stage, Quiet, ConsoleStages, RequestStages, ResponseStages
  <2> QED BY <1>1, <1>2, <1>3, <2>2, MainAside
<1> QED BY <1>1, <1>4, <1>5

LEMMA DeliverConsoleKeeps ==
  ASSUME MailInv, DeliverConsole
  PROVE  MailInv'
<1>1. UNCHANGED <<work, cpu>>
  BY DEF DeliverConsole, Deliver, MainOnly
<1>2. PICK name \in {"console_data", "console_len", "console_pending"} : Op(name) /\ Then(<< >>)
  BY DEF DeliverConsole, Deliver, ConsoleSteps
<1>3. Stage = name /\ CpuInv' /\ "console" \in Boxes /\ Fields = {"pending", "len", "data"}
  BY <1>1, <1>2, OpsAfter DEF MailInv, CpuInv, Boxes, Fields
<1>4. ConsoleEmpty
  BY <1>3 DEF MailInv, ConsoleMail, ConsoleEmpty, ConsoleAsked, ConsoleRead, ConsoleAnswered, ConsoleStages
<1>5. CASE name = "console_data"
  <2>1. Write("console", "data", work.what) /\ log' = log
    BY <1>2, <1>5 DEF DeliverConsole, Deliver, ConsoleSteps, Op
  <2>2. ops' = <<"console_len", "console_pending">>
    BY <1>2, <1>5, OpsAfter DEF MailInv
  <2>3. OpsInv' /\ Stage' = "console_len"
    BY <2>2 DEF OpsInv, Stage
  <2>4. /\ Shape' /\ mem'.console.data = work.what /\ mem'.console.pending = mem.console.pending
        /\ mem'.request = mem.request /\ mem'.response = mem.response
    BY <1>1, <1>3, <2>1, WriteSays DEF MailInv, Boxes
  <2>5. DebugMail'
    BY <1>1, <1>3, <1>5, <2>1, <2>3, <2>4, DebugAside DEF MailInv, RequestStages, ResponseStages
  <2>6. ConsoleEmpty'
    BY <1>1, <1>4, <2>1, <2>3, <2>4 DEF ConsoleEmpty
  <2> QED BY <1>3, <2>3, <2>4, <2>5, <2>6 DEF MailInv, ConsoleMail
<1>6. CASE name = "console_len"
  <2>1. Write("console", "len", work.what) /\ log' = log
    BY <1>2, <1>6 DEF DeliverConsole, Deliver, ConsoleSteps, Op
  <2>2. ops' = <<"console_pending">>
    BY <1>2, <1>6, OpsAfter DEF MailInv
  <2>3. OpsInv' /\ Stage' = "console_pending"
    BY <2>2 DEF OpsInv, Stage
  <2>4. /\ Shape' /\ mem'.console.len = work.what /\ mem'.console.pending = mem.console.pending
        /\ mem'.console.data = mem.console.data
        /\ mem'.request = mem.request /\ mem'.response = mem.response
    BY <1>1, <1>3, <2>1, WriteSays DEF MailInv, Boxes
  <2>5. DebugMail'
    BY <1>1, <1>3, <1>6, <2>1, <2>3, <2>4, DebugAside DEF MailInv, RequestStages, ResponseStages
  <2>6. ConsoleEmpty'
    BY <1>1, <1>3, <1>4, <1>6, <2>1, <2>3, <2>4 DEF ConsoleEmpty
  <2> QED BY <1>3, <2>3, <2>4, <2>5, <2>6 DEF MailInv, ConsoleMail
<1>7. CASE name = "console_pending"
  <2>1. Write("console", "pending", 1) /\ log' = [log EXCEPT !.console.accepted = Append(@, work.what)]
    BY <1>2, <1>7 DEF DeliverConsole, Deliver, ConsoleSteps, Op
  <2>2. ops' = << >>
    BY <1>2, <1>7, OpsAfter DEF MailInv
  <2>3. OpsInv' /\ Stage' = "done"
    BY <2>2 DEF OpsInv, Stage
  <2>4. /\ log'.console = Accepted(log.console, work.what)
        /\ log'.debug = log.debug /\ DOMAIN log' = DOMAIN log
    BY <2>1 DEF MailInv, Shape, Accepted
  <2>5. /\ Shape' /\ mem'.console.pending = 1 /\ mem'.console.len = mem.console.len
        /\ mem'.console.data = mem.console.data
        /\ mem'.request = mem.request /\ mem'.response = mem.response
    BY <1>1, <1>3, <2>1, <2>4, WriteSays DEF MailInv, Boxes
  <2>6. DebugMail'
    BY <1>1, <1>3, <1>7, <2>3, <2>4, <2>5, DebugAside DEF MailInv, RequestStages, ResponseStages
  <2>7. Kept(log'.console, 1, 0) /\ Newest(log'.console) = work.what
    <3>1. Kept(log.console, 0, 0) /\ 0 \in Nat
      BY <1>4 DEF ConsoleEmpty
    <3> QED BY <2>4, <3>1, KeptAccept
  <2>8. ConsoleAsked'
    BY <1>1, <1>3, <1>4, <1>7, <2>3, <2>5, <2>7 DEF ConsoleEmpty, ConsoleAsked, ConsoleStages
  <2> QED BY <1>3, <2>3, <2>5, <2>6, <2>8 DEF MailInv, ConsoleMail
<1> QED BY <1>2, <1>5, <1>6, <1>7

LEMMA ConsoleTimerKeeps ==
  ASSUME MailInv, ConsoleTimer
  PROVE  MailInv'
<1>1. /\ ops = << >> /\ ops' = <<"print_console", "free_console">>
      /\ mem.console.pending = 2 /\ UNCHANGED <<mem, cpu, log, work>>
  BY DEF ConsoleTimer, MainOnly
<1>2. OpsInv' /\ Stage = "done" /\ Stage' = "print_console"
  BY <1>1 DEF OpsInv, Stage
<1>3. Shape' /\ CpuInv'
  BY <1>1 DEF MailInv, Shape, CpuInv
<1>4. DebugMail'
  BY <1>1, <1>2, DebugAside DEF MailInv, RequestStages, ResponseStages
<1>5. ConsoleAnswered
  BY <1>1 DEF MailInv, ConsoleMail, ConsoleEmpty, ConsoleAsked, ConsoleRead, ConsoleAnswered
<1>6. ConsoleAnswered'
  BY <1>1, <1>2, <1>5 DEF ConsoleAnswered
<1> QED BY <1>2, <1>3, <1>4, <1>6 DEF MailInv, ConsoleMail

LEMMA PrintConsoleKeeps ==
  ASSUME MailInv, PrintConsole
  PROVE  MailInv'
<1>1. /\ Op("print_console") /\ Then(<< >>) /\ UNCHANGED <<mem, cpu, work>>
      /\ log' = [log EXCEPT !.console.told = Append(@, <<mem.console.len, mem.console.data>>)]
  BY DEF PrintConsole, MainOnly
<1>2. Stage = "print_console" /\ ops' = <<"free_console">>
  BY <1>1, OpsAfter DEF MailInv
<1>3. OpsInv' /\ Stage' = "free_console"
  BY <1>2 DEF OpsInv, Stage
<1>4. ConsoleAnswered
  BY <1>2 DEF MailInv, ConsoleMail, ConsoleEmpty, ConsoleAsked, ConsoleRead, ConsoleAnswered, ConsoleStages
<1> DEFINE l == log.console
<1>5. Kept(l, 0, 1)
  BY <1>2, <1>4 DEF ConsoleAnswered
<1>6. <<mem.console.len, mem.console.data>> = l.read[Len(l.told) + 1]
  <2>1. /\ Len(l.read) = Len(l.told) + 1 /\ Len(l.accepted) = Len(l.read) /\ Len(l.told) \in Nat
        /\ \A i \in 1 .. Len(l.read) : l.read[i] = <<l.accepted[i], l.accepted[i]>>
    BY <1>5 DEF Kept, Listed
  <2>2. l.read[Len(l.read)] = <<Newest(l), Newest(l)>>
    BY <2>1 DEF Newest
  <2> QED BY <1>4, <2>1, <2>2 DEF ConsoleAnswered
<1>7. log'.console = Told(l) /\ log'.debug = log.debug /\ DOMAIN log' = DOMAIN log
  BY <1>1, <1>6 DEF MailInv, Shape, Told
<1>8. Kept(Told(l), 0, 0) /\ Newest(Told(l)) = Newest(l)
  <2>1. 1 \in Nat /\ 1 > 0 /\ 1 - 1 = 0
    OBVIOUS
  <2> HIDE DEF l
  <2> QED BY <1>5, <2>1, KeptTell
<1>9. ConsoleAnswered'
  BY <1>1, <1>3, <1>4, <1>7, <1>8 DEF ConsoleAnswered
<1>10. Shape' /\ CpuInv'
  BY <1>1, <1>7 DEF MailInv, Shape, CpuInv
<1>11. DebugMail'
  BY <1>1, <1>2, <1>3, <1>7, DebugAside DEF MailInv, RequestStages, ResponseStages
<1> QED BY <1>3, <1>9, <1>10, <1>11 DEF MailInv, ConsoleMail

LEMMA FreeConsoleKeeps ==
  ASSUME MailInv, FreeConsole
  PROVE  MailInv'
<1>1. /\ Op("free_console") /\ Then(<< >>) /\ UNCHANGED <<cpu, work, log>>
      /\ Write("console", "pending", 0)
  BY DEF FreeConsole, MainOnly
<1>2. Stage = "free_console" /\ ops' = << >>
  BY <1>1, OpsAfter DEF MailInv
<1>3. OpsInv' /\ Stage' = "done"
  BY <1>2 DEF OpsInv, Stage
<1>4. ConsoleAnswered
  BY <1>2 DEF MailInv, ConsoleMail, ConsoleEmpty, ConsoleAsked, ConsoleRead, ConsoleAnswered, ConsoleStages
<1>5. /\ Shape' /\ mem'.console.pending = 0
      /\ mem'.request = mem.request /\ mem'.response = mem.response
  BY <1>1, WriteSays DEF MailInv, Boxes, Fields
<1>6. ConsoleEmpty'
  BY <1>1, <1>2, <1>3, <1>4, <1>5 DEF ConsoleAnswered, ConsoleEmpty
<1>7. DebugMail'
  BY <1>1, <1>2, <1>3, <1>5, DebugAside DEF MailInv, RequestStages, ResponseStages
<1>8. CpuInv'
  BY <1>1 DEF MailInv, CpuInv
<1> QED BY <1>3, <1>5, <1>6, <1>7, <1>8 DEF MailInv, ConsoleMail

----------------------------------------------------------------------------
(* The debug mailboxes, from the main thread's side.                       *)
LEMMA AskDebugKeeps ==
  ASSUME MailInv, AskDebug
  PROVE  MailInv'
<1> DEFINE steps == Append(RequestSteps, "poll_debug")
<1>1. /\ ops = <<"ask_debug">> /\ UNCHANGED <<mem, cpu, log, work>>
      /\ ops' = (IF Has("debug") /\ mem.request.pending = 0 THEN steps ELSE << >>) \o Tail(ops)
  BY OpsAre DEF AskDebug, Ask, MailInv, MainOnly, Then
<1>2. Stage = "ask_debug" /\ Quiet
  BY <1>1 DEF Stage, Quiet, ConsoleStages, RequestStages, ResponseStages
<1>3. Shape' /\ CpuInv'
  BY <1>1 DEF MailInv, Shape, CpuInv
<1>4. CASE mem.request.pending = 0 /\ ops' = steps \o Tail(ops)
  <2>1. steps = RequestOps
    BY OneMore DEF RequestSteps, RequestOps
  <2>2. ops' = RequestOps
    <3>1. Listed(RequestOps)
      BY DEF Listed, RequestOps
    <3>2. ops' = RequestOps \o Tail(ops)
      BY <1>4, <2>1
    <3> QED BY <1>1, <3>1, <3>2, NothingAfter
  <2>3. OpsInv' /\ Stage' = "request_data"
    BY <2>2 DEF OpsInv, Stage, RequestOps
  <2>4. ConsoleMail'
    BY <1>1, <1>2, <2>3, ConsoleAside DEF MailInv, Quiet, ConsoleStages
  <2>5. RequestEmpty /\ ResponseInv
    BY <1>4 DEF MailInv, DebugMail, RequestEmpty, RequestAsked, RequestRead
  <2>6. Carries' = Carries /\ Untold' = Untold /\ Owed' = Owed
    BY <1>1, <1>2, <2>3 DEF Carries, Untold, Owed
  <2>7. RequestEmpty'
    BY <1>1, <2>3, <2>5, <2>6 DEF RequestEmpty
  <2>8. ResponseInv'
    BY <1>1, <2>3, <2>5, <2>6 DEF ResponseInv, ResponseStages
  <2> QED BY <1>3, <2>3, <2>4, <2>7, <2>8 DEF MailInv, DebugMail
<1>5. CASE ops' = << >> \o Tail(ops)
  <2>1. ops' = << >>
    BY <1>1, <1>5
  <2>2. OpsInv' /\ Quiet'
    BY <2>1 DEF OpsInv, Stage, Quiet, ConsoleStages, RequestStages, ResponseStages
  <2> QED BY <1>1, <1>2, <1>3, <2>2, MainAside
<1> QED BY <1>1, <1>4, <1>5

(* What is said of the answer does not change with the request.            *)
LEMMA ResponseAside ==
  ASSUME ResponseInv, mem'.response = mem.response, cpu' = cpu,
         log'.debug.read = log.debug.read, log'.debug.told = log.debug.told,
         Stage \notin ResponseStages, Stage' \notin ResponseStages
  PROVE  ResponseInv' /\ Owed' = Owed
<1>1. Carries' = Carries /\ Untold' = Untold /\ Owed' = Owed
  BY DEF Carries, Untold, Owed, ResponseStages
<1>2. Carries' => log'.debug.read[Len(log'.debug.read)] = <<cpu'.len, cpu'.data>>
  BY <1>1 DEF ResponseInv
<1>3. Untold' => log'.debug.read[Len(log'.debug.told) + 1] = <<mem'.response.len, mem'.response.data>>
  BY <1>1 DEF ResponseInv
<1> QED BY <1>1, <1>2, <1>3 DEF ResponseInv

LEMMA DeliverRequestKeeps ==
  ASSUME MailInv, DeliverRequest
  PROVE  MailInv'
<1>1. UNCHANGED <<work, cpu>>
  BY DEF DeliverRequest, Deliver, MainOnly
<1>2. PICK name \in {"request_data", "request_len", "request_pending"} : Op(name) /\ Then(<< >>)
  BY DEF DeliverRequest, Deliver, RequestSteps
<1>3. Stage = name /\ CpuInv' /\ "request" \in Boxes /\ Fields = {"pending", "len", "data"}
  BY <1>1, <1>2, OpsAfter DEF MailInv, CpuInv, Boxes, Fields
<1>4. RequestEmpty /\ ResponseInv /\ Stage \notin ResponseStages
  BY <1>3 DEF MailInv, DebugMail, RequestEmpty, RequestAsked, RequestRead, RequestStages, ResponseStages
<1>5. CASE name = "request_data"
  <2>1. Write("request", "data", work.what) /\ log' = log
    BY <1>2, <1>5 DEF DeliverRequest, Deliver, RequestSteps, Op
  <2>2. ops' = <<"request_len", "request_pending", "poll_debug">>
    BY <1>2, <1>5, OpsAfter DEF MailInv
  <2>3. OpsInv' /\ Stage' = "request_len"
    BY <2>2 DEF OpsInv, Stage
  <2>4. /\ Shape' /\ mem'.request.data = work.what /\ mem'.request.pending = mem.request.pending
        /\ mem'.console = mem.console /\ mem'.response = mem.response
    BY <1>1, <1>3, <2>1, WriteSays DEF MailInv, Boxes
  <2>5. ConsoleMail'
    BY <1>1, <1>3, <1>5, <2>1, <2>3, <2>4, ConsoleAside DEF MailInv, ConsoleStages
  <2>6. ResponseInv' /\ Owed' = Owed
    BY <1>1, <1>4, <2>1, <2>3, <2>4, ResponseAside DEF ResponseStages
  <2>7. RequestEmpty'
    BY <1>1, <1>4, <2>1, <2>3, <2>4, <2>6 DEF RequestEmpty
  <2> QED BY <1>3, <2>3, <2>4, <2>5, <2>6, <2>7 DEF MailInv, DebugMail
<1>6. CASE name = "request_len"
  <2>1. Write("request", "len", work.what) /\ log' = log
    BY <1>2, <1>6 DEF DeliverRequest, Deliver, RequestSteps, Op
  <2>2. ops' = <<"request_pending", "poll_debug">>
    BY <1>2, <1>6, OpsAfter DEF MailInv
  <2>3. OpsInv' /\ Stage' = "request_pending"
    BY <2>2 DEF OpsInv, Stage
  <2>4. /\ Shape' /\ mem'.request.len = work.what /\ mem'.request.pending = mem.request.pending
        /\ mem'.request.data = mem.request.data
        /\ mem'.console = mem.console /\ mem'.response = mem.response
    BY <1>1, <1>3, <2>1, WriteSays DEF MailInv, Boxes
  <2>5. ConsoleMail'
    BY <1>1, <1>3, <1>6, <2>1, <2>3, <2>4, ConsoleAside DEF MailInv, ConsoleStages
  <2>6. ResponseInv' /\ Owed' = Owed
    BY <1>1, <1>4, <2>1, <2>3, <2>4, ResponseAside DEF ResponseStages
  <2>7. RequestEmpty'
    BY <1>1, <1>3, <1>4, <1>6, <2>1, <2>3, <2>4, <2>6 DEF RequestEmpty
  <2> QED BY <1>3, <2>3, <2>4, <2>5, <2>6, <2>7 DEF MailInv, DebugMail
<1>7. CASE name = "request_pending"
  <2>1. Write("request", "pending", 1) /\ log' = [log EXCEPT !.debug.accepted = Append(@, work.what)]
    BY <1>2, <1>7 DEF DeliverRequest, Deliver, RequestSteps, Op
  <2>2. ops' = <<"poll_debug">>
    BY <1>2, <1>7, OpsAfter DEF MailInv
  <2>3. OpsInv' /\ Stage' = "poll_debug"
    BY <2>2 DEF OpsInv, Stage
  <2>4. /\ log'.debug = Accepted(log.debug, work.what)
        /\ log'.console = log.console /\ DOMAIN log' = DOMAIN log
    BY <2>1 DEF MailInv, Shape, Accepted
  <2>5. /\ Shape' /\ mem'.request.pending = 1 /\ mem'.request.len = mem.request.len
        /\ mem'.request.data = mem.request.data
        /\ mem'.console = mem.console /\ mem'.response = mem.response
    BY <1>1, <1>3, <2>1, <2>4, WriteSays DEF MailInv, Boxes
  <2>6. ConsoleMail'
    BY <1>1, <1>3, <1>7, <2>3, <2>4, <2>5, ConsoleAside DEF MailInv, ConsoleStages
  <2>7. /\ Kept(log'.debug, 1, Owed) /\ Newest(log'.debug) = work.what
        /\ log'.debug.read = log.debug.read /\ log'.debug.told = log.debug.told
    <3>1. Kept(log.debug, 0, Owed) /\ Owed \in Nat
      BY <1>4 DEF RequestEmpty, Owed
    <3> QED BY <2>4, <3>1, KeptAccept
  <2>8. ResponseInv' /\ Owed' = Owed
    BY <1>1, <1>4, <2>3, <2>5, <2>7, ResponseAside DEF ResponseStages
  <2>9. RequestAsked'
    BY <1>1, <1>3, <1>4, <1>7, <2>3, <2>5, <2>7, <2>8 DEF RequestEmpty, RequestAsked, RequestStages
  <2> QED BY <1>3, <2>3, <2>5, <2>6, <2>8, <2>9 DEF MailInv, DebugMail
<1> QED BY <1>2, <1>5, <1>6, <1>7

(* Nor what is said of the request with the answer.                        *)
RequestInv == RequestEmpty \/ RequestAsked \/ RequestRead

LEMMA RequestAside ==
  ASSUME RequestInv, mem'.request = mem.request, cpu' = cpu,
         Stage \notin RequestStages, Stage' \notin RequestStages,
         Newest(log'.debug) = Newest(log.debug),
         \A k : Kept(log.debug, k, Owed) => Kept(log'.debug, k, Owed')
  PROVE  RequestInv'
<1>1. CASE RequestEmpty
  BY <1>1 DEF RequestInv, RequestEmpty, RequestStages
<1>2. CASE RequestAsked
  BY <1>2 DEF RequestInv, RequestAsked, RequestStages
<1>3. CASE RequestRead
  BY <1>3 DEF RequestInv, RequestRead, RequestStages
<1> QED BY <1>1, <1>2, <1>3 DEF RequestInv

LEMMA PollDebugKeeps ==
  ASSUME MailInv, PollDebug
  PROVE  MailInv'
<1>1. /\ ops = <<"poll_debug">> /\ UNCHANGED <<mem, cpu, log, work>>
      /\ ops' = (IF Has("debug") /\ mem.response.pending # 0 THEN AnswerOps ELSE << >>) \o Tail(ops)
  BY OpsAre DEF PollDebug, MailInv, MainOnly, Then, AnswerOps
<1>2. Stage = "poll_debug" /\ Quiet
  BY <1>1 DEF Stage, Quiet, ConsoleStages, RequestStages, ResponseStages
<1>3. Shape' /\ CpuInv'
  BY <1>1 DEF MailInv, Shape, CpuInv
<1>4. CASE mem.response.pending # 0 /\ ops' = AnswerOps \o Tail(ops)
  <2>1. ops' = AnswerOps
    <3>1. Listed(AnswerOps)
      BY DEF Listed, AnswerOps
    <3> QED BY <1>1, <1>4, <3>1, NothingAfter
  <2>2. OpsInv' /\ Stage' = "take_debug"
    BY <2>1 DEF OpsInv, Stage, AnswerOps
  <2>3. ConsoleMail'
    BY <1>1, <1>2, <2>2, ConsoleAside DEF MailInv, Quiet, ConsoleStages
  <2>4. RequestInv /\ ResponseInv
    BY DEF MailInv, DebugMail, RequestInv
  <2>5. Carries' = Carries /\ Untold' = Untold /\ Owed' = Owed
    BY <1>1, <1>2, <2>2 DEF Carries, Untold, Owed
  <2>6. RequestInv'
    BY <1>1, <1>2, <2>2, <2>4, <2>5, RequestAside DEF RequestStages
  <2>7. ResponseInv'
    BY <1>1, <1>4, <2>2, <2>4, <2>5 DEF ResponseInv, ResponseStages
  <2> QED BY <1>3, <2>2, <2>3, <2>6, <2>7 DEF MailInv, DebugMail, RequestInv
<1>5. CASE ops' = << >> \o Tail(ops)
  <2>1. ops' = << >>
    BY <1>1, <1>5
  <2>2. OpsInv' /\ Quiet'
    BY <2>1 DEF OpsInv, Stage, Quiet, ConsoleStages, RequestStages, ResponseStages
  <2> QED BY <1>1, <1>2, <1>3, <2>2, MainAside
<1> QED BY <1>1, <1>4, <1>5

LEMMA TakeDebugKeeps ==
  ASSUME MailInv, TakeDebug
  PROVE  MailInv'
<1>1. /\ Op("take_debug") /\ Then(<< >>) /\ UNCHANGED <<mem, cpu, work>>
      /\ log' = [log EXCEPT !.debug.told = Append(@, <<mem.response.len, mem.response.data>>)]
  BY DEF TakeDebug, MainOnly
<1>2. Stage = "take_debug" /\ ops' = <<"free_debug", "header", "payload">>
  BY <1>1, OpsAfter DEF MailInv
<1>3. OpsInv' /\ Stage' = "free_debug"
  BY <1>2 DEF OpsInv, Stage
<1>4. RequestInv /\ ResponseInv
  BY DEF MailInv, DebugMail, RequestInv
<1>5. Untold /\ ~ Untold' /\ Carries' = Carries
  BY <1>1, <1>2, <1>3, <1>4 DEF ResponseInv, Untold, Carries, ResponseStages
<1>6. Owed \in Nat /\ Owed > 0 /\ Owed' = Owed - 1
  BY <1>5 DEF Owed
<1>7. log'.debug = Told(log.debug) /\ log'.console = log.console /\ DOMAIN log' = DOMAIN log
  BY <1>1, <1>4, <1>5 DEF MailInv, Shape, Told, ResponseInv
<1>8. \E k \in Nat : Kept(log.debug, k, Owed)
  BY <1>4 DEF RequestInv, RequestEmpty, RequestAsked, RequestRead
<1>9. /\ \A k : Kept(log.debug, k, Owed) => Kept(log'.debug, k, Owed')
      /\ Newest(log'.debug) = Newest(log.debug) /\ log'.debug.read = log.debug.read
  <2>1. \A k : Kept(log.debug, k, Owed) =>
                 /\ Kept(Told(log.debug), k, Owed - 1)
                 /\ Newest(Told(log.debug)) = Newest(log.debug)
                 /\ Told(log.debug).read = log.debug.read
    BY <1>6, KeptTell
  <2> QED BY <1>6, <1>7, <1>8, <2>1
<1>10. RequestInv'
  BY <1>1, <1>2, <1>3, <1>4, <1>9, RequestAside DEF RequestStages
<1>11. ResponseInv'
  BY <1>1, <1>2, <1>3, <1>4, <1>5, <1>9 DEF ResponseInv, ResponseStages
<1>12. Shape' /\ CpuInv'
  BY <1>1, <1>7 DEF MailInv, Shape, CpuInv
<1>13. ConsoleMail'
  BY <1>1, <1>2, <1>3, <1>7, ConsoleAside DEF MailInv, ConsoleStages
<1> QED BY <1>3, <1>10, <1>11, <1>12, <1>13 DEF MailInv, DebugMail, RequestInv

LEMMA FreeDebugKeeps ==
  ASSUME MailInv, FreeDebug
  PROVE  MailInv'
<1>1. /\ Op("free_debug") /\ Then(<< >>) /\ UNCHANGED <<cpu, work, log>>
      /\ Write("response", "pending", 0)
  BY DEF FreeDebug, MainOnly
<1>2. Stage = "free_debug" /\ ops' = <<"header", "payload">>
  BY <1>1, OpsAfter DEF MailInv
<1>3. OpsInv' /\ Stage' = "header"
  BY <1>2 DEF OpsInv, Stage
<1>4. RequestInv /\ ResponseInv
  BY DEF MailInv, DebugMail, RequestInv
<1>5. /\ Shape' /\ mem'.response.pending = 0
      /\ mem'.request = mem.request /\ mem'.console = mem.console
  BY <1>1, WriteSays DEF MailInv, Boxes, Fields
<1>6. ~ Untold /\ ~ Untold' /\ Carries' = Carries /\ Owed' = Owed
  BY <1>1, <1>2, <1>5 DEF Untold, Carries, Owed
<1>7. RequestInv'
  BY <1>1, <1>2, <1>3, <1>4, <1>5, <1>6, RequestAside DEF RequestStages
<1>8. ResponseInv'
  <2>1. mem.response.pending = 1
    BY <1>2, <1>4 DEF ResponseInv, ResponseStages
  <2>2. ~ (cpu.box = "response" /\ cpu.at = "raise")
    BY <1>4, <2>1 DEF ResponseInv
  <2> QED BY <1>1, <1>3, <1>4, <1>5, <1>6, <2>2 DEF ResponseInv, ResponseStages
<1>9. ConsoleMail'
  BY <1>1, <1>2, <1>3, <1>5, ConsoleAside DEF MailInv, ConsoleStages
<1>10. CpuInv'
  BY <1>1 DEF MailInv, CpuInv
<1> QED BY <1>3, <1>5, <1>7, <1>8, <1>9, <1>10 DEF MailInv, DebugMail, RequestInv

----------------------------------------------------------------------------
(* The firmware at its mailboxes.                                          *)
LEMMA SeesRequestKeeps ==
  ASSUME MailInv, SeesRequest("console", "console") \/ SeesRequest("request", "debug")
  PROVE  MailInv'
<1>1. cpu.at = "idle" /\ cpu.box = None /\ UNCHANGED <<ops, work, mem, log>>
  BY DEF SeesRequest, Cpu, CpuOnly, MailInv, CpuInv
<1>2. OpsInv' /\ Stage' = Stage
  BY <1>1 DEF MailInv, OpsInv, Stage
<1>3. CASE SeesRequest("console", "console")
  <2>1. cpu' = [cpu EXCEPT !.at = "len", !.box = "console"] /\ mem.console.pending = 1
    BY <1>3 DEF SeesRequest
  <2>2. cpu'.at = "len" /\ cpu'.box = "console" /\ Shape' /\ CpuInv'
    BY <1>1, <2>1 DEF MailInv, Shape, CpuInv
  <2>3. ConsoleAsked
    BY <1>1, <2>1 DEF MailInv, ConsoleMail, ConsoleEmpty, ConsoleAsked, ConsoleRead, ConsoleAnswered, None
  <2>4. ConsoleAsked'
    BY <1>1, <1>2, <2>2, <2>3 DEF ConsoleAsked
  <2>5. DebugMail'
    BY <1>1, <1>2, <2>2, DebugAside DEF MailInv, None
  <2> QED BY <1>2, <2>2, <2>4, <2>5 DEF MailInv, ConsoleMail
<1>4. CASE SeesRequest("request", "debug")
  <2>1. cpu' = [cpu EXCEPT !.at = "len", !.box = "request"] /\ mem.request.pending = 1
    BY <1>4 DEF SeesRequest
  <2>2. cpu'.at = "len" /\ cpu'.box = "request" /\ Shape' /\ CpuInv'
    BY <1>1, <2>1 DEF MailInv, Shape, CpuInv
  <2>3. RequestAsked /\ ResponseInv
    BY <1>1, <2>1 DEF MailInv, DebugMail, RequestEmpty, RequestAsked, RequestRead, None
  <2>4. ~ Carries /\ ~ Carries' /\ Untold' = Untold /\ Owed' = Owed
    BY <1>1, <1>2, <2>2 DEF Carries, Untold, Owed, None
  <2>5. RequestAsked'
    BY <1>1, <1>2, <2>2, <2>3, <2>4 DEF RequestAsked
  <2>6. ResponseInv'
    BY <1>1, <1>2, <2>2, <2>3, <2>4 DEF ResponseInv
  <2>7. ConsoleMail'
    BY <1>1, <1>2, <2>2, ConsoleAside DEF MailInv, None
  <2> QED BY <1>2, <2>2, <2>5, <2>6, <2>7 DEF MailInv, DebugMail
<1> QED BY <1>3, <1>4

LEMMA ReadsLengthKeeps ==
  ASSUME MailInv, ReadsLength
  PROVE  MailInv'
<1>1. /\ cpu.at = "len" /\ cpu.box \in {"console", "request"} /\ UNCHANGED <<ops, work, mem, log>>
      /\ cpu' = [cpu EXCEPT !.at = "data", !.len = mem[cpu.box].len]
  BY DEF ReadsLength, Cpu, CpuOnly, MailInv, CpuInv
<1>2. OpsInv' /\ Stage' = Stage
  BY <1>1 DEF MailInv, OpsInv, Stage
<1>3. cpu'.at = "data" /\ cpu'.box = cpu.box /\ cpu'.len = mem[cpu.box].len /\ Shape' /\ CpuInv'
  BY <1>1 DEF MailInv, Shape, CpuInv
<1>4. CASE cpu.box = "console"
  <2>1. ConsoleAsked
    BY <1>1, <1>4 DEF MailInv, ConsoleMail, ConsoleEmpty, ConsoleAsked, ConsoleRead, ConsoleAnswered
  <2>2. ConsoleAsked'
    BY <1>1, <1>2, <1>3, <1>4, <2>1 DEF ConsoleAsked
  <2>3. DebugMail'
    BY <1>1, <1>2, <1>3, <1>4, DebugAside DEF MailInv
  <2> QED BY <1>2, <1>3, <2>2, <2>3 DEF MailInv, ConsoleMail
<1>5. CASE cpu.box = "request"
  <2>1. RequestAsked /\ ResponseInv
    BY <1>1, <1>5 DEF MailInv, DebugMail, RequestEmpty, RequestAsked, RequestRead
  <2>2. ~ Carries /\ ~ Carries' /\ Untold' = Untold /\ Owed' = Owed
    BY <1>1, <1>2, <1>3, <1>5 DEF Carries, Untold, Owed
  <2>3. RequestAsked'
    BY <1>1, <1>2, <1>3, <1>5, <2>1, <2>2 DEF RequestAsked
  <2>4. ResponseInv'
    BY <1>1, <1>2, <1>3, <1>5, <2>1, <2>2 DEF ResponseInv
  <2>5. ConsoleMail'
    BY <1>1, <1>2, <1>3, <1>5, ConsoleAside DEF MailInv
  <2> QED BY <1>2, <1>3, <2>3, <2>4, <2>5 DEF MailInv, DebugMail
<1> QED BY <1>1, <1>4, <1>5

LEMMA ReadsDataKeeps ==
  ASSUME MailInv, ReadsData
  PROVE  MailInv'
<1>1. /\ cpu.at = "data" /\ cpu.box \in {"console", "request"} /\ UNCHANGED <<ops, work, mem>>
      /\ cpu' = [cpu EXCEPT !.at = IF cpu.box = "console" THEN "answer" ELSE "free", !.data = mem[cpu.box].data]
      /\ log' = [log EXCEPT ![LogOf(cpu.box)].read = Append(@, <<cpu.len, mem[cpu.box].data>>)]
  BY DEF ReadsData, Cpu, CpuOnly, MailInv, CpuInv
<1>2. OpsInv' /\ Stage' = Stage
  BY <1>1 DEF MailInv, OpsInv, Stage
<1>3. CASE cpu.box = "console"
  <2>1. /\ cpu'.at = "answer" /\ cpu'.box = "console" /\ cpu'.len = cpu.len /\ cpu'.data = mem.console.data
        /\ DOMAIN cpu' = DOMAIN cpu /\ CpuInv'
    BY <1>1, <1>3 DEF MailInv, Shape, CpuInv
  <2>2. ConsoleAsked /\ cpu.len = Newest(log.console) /\ mem.console.data = Newest(log.console)
    BY <1>1, <1>3 DEF MailInv, ConsoleMail, ConsoleEmpty, ConsoleAsked, ConsoleRead, ConsoleAnswered
  <2> DEFINE v == Newest(log.console)
  <2>3. /\ log'.console = Read(log.console, v) /\ log'.debug = log.debug /\ DOMAIN log' = DOMAIN log
    BY <1>1, <1>3, <2>2 DEF MailInv, Shape, Read, LogOf
  <2>4. Kept(log'.console, 0, 1) /\ Newest(log'.console) = v
    <3>1. Kept(log.console, 1, 0) /\ 0 \in Nat /\ 0 + 1 = 1
      BY <2>2 DEF ConsoleAsked
    <3>2. Kept(Read(log.console, v), 0, 0 + 1) /\ Newest(Read(log.console, v)) = v
      BY <3>1, KeptRead
    <3> QED BY <2>3, <3>1, <3>2
  <2>5. ConsoleRead'
    BY <1>1, <1>2, <2>1, <2>2, <2>4 DEF ConsoleAsked, ConsoleRead
  <2>6. Shape'
    BY <1>1, <2>1, <2>3 DEF MailInv, Shape
  <2>7. DebugMail'
    BY <1>1, <1>2, <1>3, <2>1, <2>3, DebugAside DEF MailInv
  <2> QED BY <1>2, <2>1, <2>5, <2>6, <2>7 DEF MailInv, ConsoleMail
<1>4. CASE cpu.box = "request"
  <2>1. /\ cpu'.at = "free" /\ cpu'.box = "request" /\ cpu'.len = cpu.len /\ cpu'.data = mem.request.data
        /\ DOMAIN cpu' = DOMAIN cpu /\ CpuInv'
    BY <1>1, <1>4 DEF MailInv, Shape, CpuInv
  <2>2. /\ RequestAsked /\ ResponseInv
        /\ cpu.len = Newest(log.debug) /\ mem.request.data = Newest(log.debug)
    BY <1>1, <1>4 DEF MailInv, DebugMail, RequestEmpty, RequestAsked, RequestRead
  <2> DEFINE v == Newest(log.debug)
             l == log.debug
  <2>3. log'.debug = Read(l, v) /\ log'.console = log.console /\ DOMAIN log' = DOMAIN log
    BY <1>1, <1>4, <2>2 DEF MailInv, Shape, Read, LogOf
  <2>4. ~ Carries /\ Carries' /\ Untold' = Untold /\ Owed \in Nat /\ Owed' = Owed + 1
    BY <1>1, <1>2, <1>4, <2>1 DEF Carries, Untold, Owed
  <2>5. /\ Kept(log'.debug, 0, Owed + 1) /\ log'.debug.told = l.told
        /\ log'.debug.read[Len(log'.debug.read)] = <<v, v>>
        /\ \A i \in 1 .. Len(l.read) : log'.debug.read[i] = l.read[i]
    <3>1. Kept(l, 1, Owed)
      BY <2>2 DEF RequestAsked
    <3> HIDE DEF l
    <3>2. /\ Kept(Read(l, v), 0, Owed + 1) /\ Read(l, v).told = l.told
          /\ Read(l, v).read[Len(Read(l, v).read)] = <<v, v>>
          /\ \A i \in 1 .. Len(l.read) : Read(l, v).read[i] = l.read[i]
      BY <2>4, <3>1, KeptRead DEF l
    <3> QED BY <2>3, <3>2
  <2>6. RequestRead'
    BY <1>1, <1>2, <2>1, <2>2, <2>4, <2>5 DEF RequestAsked, RequestRead
  <2>7. ResponseInv'
    <3>0. mem' = mem /\ Stage' = Stage
      BY <1>1, <1>2
    <3>1. Untold' => log'.debug.read[Len(log'.debug.told) + 1] = <<mem'.response.len, mem'.response.data>>
      <4>1. Untold => Len(l.told) + 1 \in 1 .. Len(l.read)
        <5>1. Untold => Owed = 1
          BY <2>4 DEF Owed
        <5>2. Len(l.told) \in Nat /\ Len(l.read) = Len(l.told) + Owed
          BY <2>2 DEF RequestAsked, Kept, Listed
        <5> QED BY <5>1, <5>2
      <4>2. Untold => log.debug.read[Len(l.told) + 1] = <<mem.response.len, mem.response.data>>
        BY <2>2 DEF ResponseInv
      <4>3. Untold' => log'.debug.read[Len(l.told) + 1] = <<mem.response.len, mem.response.data>>
        BY <2>4, <2>5, <4>1, <4>2
      <4> QED BY <2>5, <3>0, <4>3
    <3>2. log'.debug.read[Len(log'.debug.read)] = <<cpu'.len, cpu'.data>>
      BY <2>1, <2>2, <2>5
    <3> QED BY <2>1, <2>2, <3>0, <3>1, <3>2 DEF ResponseInv
  <2>8. Shape'
    BY <1>1, <2>1, <2>3 DEF MailInv, Shape
  <2>9. ConsoleMail'
    BY <1>1, <1>2, <1>4, <2>1, <2>3, ConsoleAside DEF MailInv
  <2> QED BY <1>2, <2>1, <2>6, <2>7, <2>8, <2>9 DEF MailInv, DebugMail
<1> QED BY <1>1, <1>3, <1>4

LEMMA FreesRequestKeeps ==
  ASSUME MailInv, FreesRequest
  PROVE  MailInv'
<1>1. /\ cpu.at = "free" /\ cpu.box = "request" /\ UNCHANGED <<ops, work, log>>
      /\ cpu' = [cpu EXCEPT !.at = "answer", !.box = "response"] /\ Write("request", "pending", 0)
  BY DEF FreesRequest, Cpu, CpuOnly, MailInv, CpuInv
<1>2. OpsInv' /\ Stage' = Stage
  BY <1>1 DEF MailInv, OpsInv, Stage
<1>3. /\ cpu'.at = "answer" /\ cpu'.box = "response" /\ cpu'.len = cpu.len /\ cpu'.data = cpu.data
      /\ DOMAIN cpu' = DOMAIN cpu /\ CpuInv'
  BY <1>1 DEF MailInv, Shape, CpuInv
<1>4. /\ Shape' /\ mem'.request.pending = 0
      /\ mem'.response = mem.response /\ mem'.console = mem.console
  BY <1>1, <1>3, WriteSays DEF MailInv, Boxes, Fields
<1>5. RequestRead /\ ResponseInv
  BY <1>1 DEF MailInv, DebugMail, RequestEmpty, RequestAsked, RequestRead
<1>6. Carries /\ Carries' /\ Untold' = Untold /\ Owed' = Owed
  BY <1>1, <1>2, <1>3, <1>4 DEF Carries, Untold, Owed
<1>7. RequestEmpty'
  BY <1>1, <1>2, <1>3, <1>4, <1>5, <1>6 DEF RequestRead, RequestEmpty, RequestStages
<1>8. ResponseInv'
  BY <1>1, <1>2, <1>3, <1>4, <1>5, <1>6 DEF ResponseInv
<1>9. ConsoleMail'
  BY <1>1, <1>2, <1>3, <1>4, ConsoleAside DEF MailInv
<1> QED BY <1>2, <1>3, <1>4, <1>7, <1>8, <1>9 DEF MailInv, DebugMail

LEMMA WritesAnswerKeeps ==
  ASSUME MailInv, WritesAnswer
  PROVE  MailInv'
<1>1. /\ cpu.at = "answer" /\ cpu.box \in {"console", "response"} /\ UNCHANGED <<ops, work, log>>
      /\ mem' = [mem EXCEPT ![cpu.box].len = cpu.len, ![cpu.box].data = cpu.data]
      /\ cpu' = [cpu EXCEPT !.at = "raise"]
      /\ cpu.box = "response" => mem.response.pending = 0
  BY DEF WritesAnswer, Cpu, Goes, CpuOnly, MailInv, CpuInv
<1>2. OpsInv' /\ Stage' = Stage
  BY <1>1 DEF MailInv, OpsInv, Stage
<1>3. /\ cpu'.at = "raise" /\ cpu'.box = cpu.box /\ cpu'.len = cpu.len /\ cpu'.data = cpu.data
      /\ DOMAIN cpu' = DOMAIN cpu /\ CpuInv'
  BY <1>1 DEF MailInv, Shape, CpuInv
<1>4. CASE cpu.box = "console"
  <2>1. mem' = [mem EXCEPT !.console = [mem.console EXCEPT !.len = cpu.len, !.data = cpu.data]]
    BY <1>1, <1>4 DEF MailInv, Shape, Boxes
  <2>2. /\ mem'.console.pending = mem.console.pending
        /\ mem'.console.len = cpu.len /\ mem'.console.data = cpu.data
        /\ mem'.request = mem.request /\ mem'.response = mem.response
        /\ DOMAIN mem' = DOMAIN mem /\ DOMAIN mem'.console = DOMAIN mem.console
    BY <2>1 DEF MailInv, Shape, Boxes, Fields
  <2>3. Shape'
    BY <1>1, <1>3, <2>2 DEF MailInv, Shape, Boxes
  <2>4. ConsoleRead
    BY <1>1, <1>4 DEF MailInv, ConsoleMail, ConsoleEmpty, ConsoleAsked, ConsoleRead, ConsoleAnswered
  <2>5. ConsoleRead'
    BY <1>1, <1>2, <1>3, <1>4, <2>2, <2>4 DEF ConsoleRead
  <2>6. DebugMail'
    BY <1>1, <1>2, <1>3, <1>4, <2>2, DebugAside DEF MailInv
  <2> QED BY <1>2, <1>3, <2>3, <2>5, <2>6 DEF MailInv, ConsoleMail
<1>5. CASE cpu.box = "response"
  <2>1. mem' = [mem EXCEPT !.response = [mem.response EXCEPT !.len = cpu.len, !.data = cpu.data]]
    BY <1>1, <1>5 DEF MailInv, Shape, Boxes
  <2>2. /\ mem'.response = [pending |-> 0, len |-> cpu.len, data |-> cpu.data]
        /\ mem'.console = mem.console /\ mem'.request = mem.request /\ DOMAIN mem' = DOMAIN mem
    BY <1>1, <1>5, <2>1 DEF MailInv, Shape, Boxes, Fields
  <2>3. Shape'
    <3>1. DOMAIN mem'.response = Fields
      BY <2>2 DEF Fields
    <3> QED BY <1>1, <1>3, <2>2, <3>1 DEF MailInv, Shape, Boxes
  <2>4. RequestInv /\ ResponseInv
    BY DEF MailInv, DebugMail, RequestInv
  <2>5. Carries /\ Carries' /\ ~ Untold /\ ~ Untold' /\ Owed' = Owed
    BY <1>1, <1>2, <1>3, <1>5, <2>2 DEF Carries, Untold, Owed
  <2>6. RequestInv'
    BY <1>1, <1>2, <1>3, <1>5, <2>2, <2>4, <2>5 DEF RequestInv, RequestEmpty, RequestAsked, RequestRead
  <2>7. ResponseInv'
    BY <1>1, <1>2, <1>3, <1>5, <2>2, <2>4, <2>5 DEF ResponseInv
  <2>8. ConsoleMail'
    <3>1. cpu.box # "console" /\ cpu'.box # "console"
      BY <1>3, <1>5
    <3> QED BY <1>1, <1>2, <2>2, <3>1, ConsoleAside DEF MailInv
  <2> QED BY <1>2, <1>3, <2>3, <2>6, <2>7, <2>8 DEF MailInv, DebugMail, RequestInv
<1> QED BY <1>1, <1>4, <1>5

LEMMA RaisesAnswerKeeps ==
  ASSUME MailInv, RaisesAnswer
  PROVE  MailInv'
<1>1. /\ cpu.at = "raise" /\ cpu.box \in {"console", "response"} /\ UNCHANGED <<ops, work, log>>
      /\ Write(cpu.box, "pending", IF cpu.box = "console" THEN 2 ELSE 1)
      /\ cpu' = [at |-> "idle", box |-> None, len |-> None, data |-> None]
  BY DEF RaisesAnswer, Cpu, CpuOnly, MailInv, CpuInv
<1>2. OpsInv' /\ Stage' = Stage
  BY <1>1 DEF MailInv, OpsInv, Stage
<1>3. /\ cpu'.at = "idle" /\ cpu'.box = None /\ CpuInv'
      /\ DOMAIN cpu' = DOMAIN cpu
  BY <1>1 DEF MailInv, Shape, CpuInv
<1>4. CASE cpu.box = "console"
  <2>1. /\ Shape' /\ mem'.console.pending = 2 /\ mem'.console.len = mem.console.len
        /\ mem'.console.data = mem.console.data
        /\ mem'.request = mem.request /\ mem'.response = mem.response
    <3>1. Write("console", "pending", 2)
      BY <1>1, <1>4
    <3> QED BY <1>1, <1>3, <3>1, WriteSays DEF MailInv, Boxes, Fields
  <2>2. ConsoleRead
    BY <1>1, <1>4 DEF MailInv, ConsoleMail, ConsoleEmpty, ConsoleAsked, ConsoleRead, ConsoleAnswered
  <2>3. ConsoleAnswered'
    BY <1>1, <1>2, <1>3, <2>1, <2>2 DEF ConsoleRead, ConsoleAnswered, ConsoleStages, None
  <2>4. DebugMail'
    BY <1>1, <1>2, <1>3, <1>4, <2>1, DebugAside DEF MailInv, None
  <2> QED BY <1>2, <1>3, <2>1, <2>3, <2>4 DEF MailInv, ConsoleMail
<1>5. CASE cpu.box = "response"
  <2>1. /\ Shape' /\ mem'.response.pending = 1 /\ mem'.response.len = mem.response.len
        /\ mem'.response.data = mem.response.data
        /\ mem'.request = mem.request /\ mem'.console = mem.console
    <3>1. Write("response", "pending", 1)
      BY <1>1, <1>5
    <3> QED BY <1>1, <1>3, <3>1, WriteSays DEF MailInv, Boxes, Fields
  <2>2. RequestInv /\ ResponseInv
    BY DEF MailInv, DebugMail, RequestInv
  <2>3. mem.response.pending = 0 /\ mem.response.len = cpu.len /\ mem.response.data = cpu.data
    BY <1>1, <1>5, <2>2 DEF ResponseInv
  <2>4. Stage \notin ResponseStages
    BY <2>2, <2>3 DEF ResponseInv
  <2>5. Carries /\ ~ Carries' /\ ~ Untold /\ Untold' /\ Owed = 1 /\ Owed' = Owed
    BY <1>1, <1>2, <1>3, <1>5, <2>1, <2>3, <2>4 DEF Carries, Untold, Owed, ResponseStages, None
  <2>6. RequestInv'
    BY <1>1, <1>2, <1>3, <1>5, <2>1, <2>2, <2>5 DEF RequestInv, RequestEmpty, RequestAsked, RequestRead, None
  <2>7. ResponseInv'
    <3>1. Len(log.debug.read) = Len(log.debug.told) + 1
      BY <2>2, <2>5 DEF RequestInv, RequestEmpty, RequestAsked, RequestRead, Kept
    <3>2. log'.debug.read[Len(log'.debug.told) + 1] = <<mem'.response.len, mem'.response.data>>
      BY <1>1, <2>1, <2>2, <2>3, <2>5, <3>1 DEF ResponseInv
    <3> QED BY <1>2, <1>3, <2>1, <2>4, <2>5, <3>2 DEF ResponseInv, None
  <2>8. ConsoleMail'
    <3>1. cpu.box # "console" /\ cpu'.box # "console"
      BY <1>3, <1>5 DEF None
    <3> QED BY <1>1, <1>2, <2>1, <3>1, ConsoleAside DEF MailInv
  <2> QED BY <1>2, <1>3, <2>1, <2>6, <2>7, <2>8 DEF MailInv, DebugMail, RequestInv
<1> QED BY <1>1, <1>4, <1>5

----------------------------------------------------------------------------
(* The firmware at the display, and what does not come near a mailbox.     *)
LEMMA DisplayKeeps ==
  ASSUME MailInv, SpiTransaction \/ PublishFramebuffer \/ PublishDirect \/ EndPublish
  PROVE  MailInv'
<1>1. UNCHANGED <<ops, work, mem, log>> /\ cpu.at \in {"idle", "publish"}
  BY DEF SpiTransaction, PublishFramebuffer, PublishDirect, EndPublish, DisplayOnly, Cpu
<1>2. cpu' = cpu \/ \E at \in {"idle", "publish"} : cpu' = [cpu EXCEPT !.at = at]
  BY DEF SpiTransaction, PublishFramebuffer, PublishDirect, EndPublish, Pushes, Goes
<1>3. CASE cpu' = cpu
  BY <1>1, <1>3, NothingMoves
<1>4. CASE \E at \in {"idle", "publish"} : cpu' = [cpu EXCEPT !.at = at]
  <2>1. cpu.box = None /\ cpu'.box = None /\ cpu'.at \in {"idle", "publish"} /\ DOMAIN cpu' = DOMAIN cpu
    BY <1>1, <1>4 DEF MailInv, CpuInv, Shape
  <2>2. Shape' /\ CpuInv'
    BY <1>1, <2>1 DEF MailInv, CpuInv, Shape
  <2> QED BY <1>1, <2>1, <2>2, FirmwareAside
<1> QED BY <1>2, <1>3, <1>4

LEMMA LinkStart == LinkInit => MailInv
<1> SUFFICES ASSUME LinkInit
             PROVE  MailInv
  OBVIOUS
<1>1. OpsInv /\ Stage = "done"
  BY DEF LinkInit, OpsInv, Stage
<1>2. Shape
  BY DEF LinkInit, Shape, Boxes, Edges, Fields, EmptyBox, NoLog
<1>3. CpuInv /\ cpu.box = None
  BY DEF LinkInit, CpuInv
<1>4. Kept(NoLog, 0, 0)
  BY ListedEmpty DEF NoLog, Kept
<1>5. ConsoleEmpty
  BY <1>1, <1>3, <1>4 DEF LinkInit, ConsoleEmpty, EmptyBox, None
<1>6. Owed = 0 /\ ~ Carries /\ ~ Untold
  BY <1>3 DEF LinkInit, Owed, Carries, Untold, EmptyBox, None
<1>7. RequestEmpty
  BY <1>1, <1>3, <1>4, <1>6 DEF LinkInit, RequestEmpty, EmptyBox, None
<1>8. ResponseInv
  BY <1>1, <1>3, <1>6 DEF LinkInit, ResponseInv, EmptyBox, None, ResponseStages
<1> QED BY <1>1, <1>2, <1>3, <1>5, <1>7, <1>8 DEF MailInv, ConsoleMail, DebugMail

(* The firmware takes key events: mailboxes and their logs stay.           *)
LEMMA PollIs ==
  ASSUME Shape, NEW e \in Edges, SwapsEdges(e) \/ LoadsEdges(e) \/ StoresEdges(e)
  PROVE  /\ DOMAIN mem' = DOMAIN mem /\ DOMAIN log' = DOMAIN log
         /\ \A b \in Boxes \cup {"bits"} : mem'[b] = mem[b]
         /\ \A c \in Edges : mem'[c] = IF c = e /\ ~ LoadsEdges(e) THEN {} ELSE mem[c]
         /\ log'.console = log.console /\ log'.debug = log.debug
         /\ log' = log \/ \E taken : log'.edges = [log.edges EXCEPT ![e] = @ \cup taken]
<1>1. /\ DOMAIN Cleared(e) = DOMAIN mem /\ Cleared(e)[e] = {}
      /\ \A b \in DOMAIN mem : b # e => Cleared(e)[b] = mem[b]
  BY DEF Cleared, Shape
<1>2. /\ "polled" \in DOMAIN mem /\ Edges \subseteq DOMAIN mem /\ Boxes \cup {"bits"} \subseteq DOMAIN mem
      /\ "polled" \notin Edges /\ "polled" \notin Boxes \cup {"bits"} /\ e \notin Boxes \cup {"bits"}
      /\ DOMAIN log = {"console", "debug", "edges"}
  BY DEF Shape, Boxes, Edges
<1>3. CASE SwapsEdges(e)
  <2>1. mem' = Cleared(e) /\ log' = [log EXCEPT !.edges[e] = @ \cup mem[e]] /\ ~ LoadsEdges(e)
    BY <1>3 DEF SwapsEdges, LoadsEdges
  <2> QED BY <1>1, <1>2, <2>1
<1>4. CASE LoadsEdges(e)
  <2>1. mem' = [mem EXCEPT !.polled[e] = mem[e]] /\ log' = log
    BY <1>4 DEF LoadsEdges
  <2> QED BY <1>2, <1>4, <2>1
<1>5. CASE StoresEdges(e)
  <2>1. /\ mem' = [Cleared(e) EXCEPT !.polled = NoEdges] /\ log' = [log EXCEPT !.edges[e] = @ \cup mem.polled[e]]
        /\ ~ LoadsEdges(e)
    BY <1>5 DEF StoresEdges, LoadsEdges, NoEdges
  <2> QED BY <1>1, <1>2, <2>1
<1> QED BY <1>3, <1>4, <1>5

LEMMA PollsKeep ==
  ASSUME MailInv, NEW e \in Edges, SwapsEdges(e) \/ LoadsEdges(e) \/ StoresEdges(e)
  PROVE  MailInv'
<1>1. UNCHANGED <<ops, work, cpu>>
  BY DEF SwapsEdges, LoadsEdges, StoresEdges, CpuOnly
<1>2. /\ DOMAIN mem' = DOMAIN mem /\ DOMAIN log' = DOMAIN log
      /\ \A b \in Boxes : mem'[b] = mem[b]
      /\ log'.console = log.console /\ log'.debug = log.debug
  BY PollIs DEF MailInv
<1>3. mem'.console = mem.console /\ mem'.request = mem.request /\ mem'.response = mem.response
  BY <1>2 DEF Boxes
<1>4. OpsInv' /\ Shape' /\ CpuInv' /\ Stage' = Stage
  BY <1>1, <1>2 DEF MailInv, OpsInv, Shape, CpuInv, Stage
<1>5. ConsoleMail'
  BY <1>1, <1>2, <1>3, <1>4, ConsoleAside DEF MailInv
<1>6. DebugMail'
  BY <1>1, <1>2, <1>3, <1>4, DebugAside DEF MailInv
<1> QED BY <1>4, <1>5, <1>6 DEF MailInv

LEMMA LinkStep == MailInv /\ [LinkNext]_linkVars => MailInv'
<1> SUFFICES ASSUME MailInv, [LinkNext]_linkVars
             PROVE  MailInv'
  OBVIOUS
<1>1. CASE UNCHANGED linkVars
  BY <1>1, NothingMoves DEF linkVars
<1>2. CASE \E f \in firmware.traffic : HostSends(f)
  BY <1>2, NothingMoves DEF HostSends
<1>3. CASE Reconnect \/ ReadChunk \/ DiscardTurn
  BY <1>3, NothingMoves DEF Reconnect, ReadChunk, DiscardTurn, ParserOnly
<1>4. CASE HeaderTurn \/ PayloadTurn
  BY <1>4, ParserKeeps
<1>5. CASE AskConsole \/ DeliverConsole \/ ConsoleTimer \/ PrintConsole \/ FreeConsole
  BY <1>5, AskConsoleKeeps, DeliverConsoleKeeps, ConsoleTimerKeeps, PrintConsoleKeeps, FreeConsoleKeeps
<1>6. CASE AskDebug \/ DeliverRequest \/ PollDebug \/ TakeDebug \/ FreeDebug
  BY <1>6, AskDebugKeeps, DeliverRequestKeeps, PollDebugKeeps, TakeDebugKeeps, FreeDebugKeeps
<1>7. CASE SendHeader \/ SendPayload \/ InjectTouches \/ QueueButton
  BY <1>7, OtherWorkKeeps
<1>8. CASE ReadBits \/ SetBits \/ ReadEvents \/ SetEvents
  BY <1>8, ButtonsKeep
<1>9. CASE BusyTimer
  BY <1>9, NothingMoves DEF BusyTimer, DisplayOnly
<1>10. CASE SeesRequest("console", "console") \/ SeesRequest("request", "debug")
  BY <1>10, SeesRequestKeeps
<1>11. CASE ReadsLength \/ ReadsData \/ FreesRequest \/ WritesAnswer \/ RaisesAnswer
  BY <1>11, ReadsLengthKeeps, ReadsDataKeeps, FreesRequestKeeps, WritesAnswerKeeps, RaisesAnswerKeeps
<1>12. CASE TouchRead \/ ButtonRead \/ I2cPointer \/ I2cBeginRead \/ I2cEndRead
  BY <1>12, NothingMoves DEF TouchRead, ButtonRead, I2cPointer, I2cBeginRead, I2cEndRead, InputOnly
<1>13. CASE SpiTransaction \/ PublishFramebuffer \/ PublishDirect \/ EndPublish
  BY <1>13, DisplayKeeps
<1>14. CASE \E b \in BOOLEAN : ResetPin(b)
  BY <1>14, NothingMoves DEF ResetPin, DisplayOnly
<1>15. CASE \E b \in Buffers \cup {None} : Exports(b)
  BY <1>15, NothingMoves DEF Exports, DisplayOnly
<1>16. CASE \E e \in Edges : SwapsEdges(e) \/ LoadsEdges(e) \/ StoresEdges(e)
  BY <1>16, PollsKeep
<1> QED BY <1>1, <1>2, <1>3, <1>4, <1>5, <1>6, <1>7, <1>8, <1>9, <1>10, <1>11, <1>12, <1>13, <1>14, <1>15, <1>16
        DEF LinkNext, MainThread, Firmware

LEMMA MailIsWhole == MailInv => ExchangeWhole
<1> SUFFICES ASSUME MailInv
             PROVE  ExchangeWhole
  OBVIOUS
<1>1. \E k, j \in Nat : Kept(log.console, k, j)
  BY DEF MailInv, ConsoleMail, ConsoleEmpty, ConsoleAsked, ConsoleRead, ConsoleAnswered
<1>2. \E k, j \in Nat : Kept(log.debug, k, j)
  <2>1. Owed \in Nat
    BY DEF Owed
  <2> QED BY <2>1 DEF MailInv, DebugMail, RequestEmpty, RequestAsked, RequestRead
<1> QED BY <1>1, <1>2, KeptWhole DEF ExchangeWhole

(* However the two threads take turns at the mailboxes, with whatever      *)
(* firmware, traffic and chunks: each request accepted is read whole and   *)
(* once, in order, and the host is told the answer to it                   *)
(* (mofeiSimulatorConsoleWrite, mofeiSimulatorPandaDebugWriteRequest,      *)
(* console_timer_cb and the poll of the debug mailbox).                    *)
THEOREM ExchangesAreWhole == LinkSpec => []ExchangeWhole
<1>1. LinkSpec => []MailInv
  BY LinkStart, LinkStep, PTL DEF LinkSpec
<1> QED BY <1>1, MailIsWhole, PTL

----------------------------------------------------------------------------
(***************************************************************************)
(* The stream of frames: however it is cut into chunks, whatever is too    *)
(* long in it and however a connection ends, the panel hands over what     *)
(* arrived whole and fits, in order.                                       *)
(***************************************************************************)

(* A property that passes from each number to the next holds of all: the   *)
(* set of those it holds of is given.                                      *)
LEMMA LeastMember ==
  ASSUME NEW S \in SUBSET Nat, S # {}
  PROVE  \E m \in S : \A n \in S : m <= n
<1>1. PICK m \in S : \A n \in S : <<n, m>> \notin OpToRel(<, Nat)
  BY WFMin, NatLessThanWellFounded, Zenon
<1>2. \A n \in S : ~ (n < m)
  BY <1>1, Zenon DEF OpToRel
<1> QED BY <1>2

LEMMA Climb ==
  ASSUME NEW N \in Nat, NEW S \in SUBSET Nat, 0 \in S, \A n \in 0..N : n \in S /\ n < N => n + 1 \in S
  PROVE  0..N \subseteq S
<1> SUFFICES ASSUME NEW n \in 0..N, n \notin S PROVE FALSE
  OBVIOUS
<1> DEFINE Missed == {m \in 0..N : m \notin S}
<1>1. Missed \in SUBSET Nat /\ Missed # {}
  OBVIOUS
<1>2. PICK m \in Missed : \A k \in Missed : m <= k
  <2> HIDE DEF Missed
  <2> QED BY <1>1, LeastMember
<1>3. m \in 0..N /\ m \notin S /\ m # 0
  BY <1>2
<1>4. m - 1 \in 0..N /\ m - 1 < N /\ ~ (m <= m - 1)
  BY <1>3
<1>5. m - 1 \in S
  BY <1>2, <1>4
<1>6. m - 1 + 1 \in S
  BY <1>4, <1>5
<1> QED BY <1>3, <1>6

(* What is defined step by step exists.                                    *)
Steps(n, V, base, next) ==
  {g \in [0..n -> V] : g[0] = base /\ \A k \in 1..n : g[k] = next[k][g[k - 1]]}

LEMMA StepsExist ==
  ASSUME NEW N \in Nat, NEW V, NEW base \in V, NEW next \in [1..N -> [V -> V]]
  PROVE  Steps(N, V, base, next) # {}
<1> DEFINE S == {n \in 0..N : Steps(n, V, base, next) # {}}
<1>1. 0 \in S
  <2>1. [k \in 0..0 |-> base] \in Steps(0, V, base, next)
    BY DEF Steps
  <2> QED BY <2>1
<1>2. ASSUME NEW n \in 0..N, n \in S, n < N PROVE n + 1 \in S
  <2>1. PICK g \in Steps(n, V, base, next) : TRUE
    BY <1>2
  <2>2. g \in [0..n -> V] /\ g[0] = base /\ \A k \in 1..n : g[k] = next[k][g[k - 1]]
    BY <2>1 DEF Steps
  <2>3. n \in Nat /\ n + 1 \in 1..N /\ n + 1 \in 0..N /\ g[n] \in V
    BY <1>2, <2>2
  <2>4. next[n + 1][g[n]] \in V
    BY <2>3
  <2> DEFINE h == [k \in 0..(n + 1) |-> IF k = n + 1 THEN next[n + 1][g[n]] ELSE g[k]]
  <2>5. \A k \in 0..(n + 1) : k # n + 1 => k \in 0..n
    BY <2>3
  <2>6. h \in [0..(n + 1) -> V]
    BY <2>2, <2>4, <2>5
  <2>7. h[n + 1] = next[n + 1][g[n]] /\ \A k \in 0..n : h[k] = g[k]
    BY <2>3
  <2>8. h[0] = base
    BY <2>2, <2>3, <2>7
  <2> HIDE DEF h
  <2>9. ASSUME NEW k \in 1..(n + 1) PROVE h[k] = next[k][h[k - 1]]
    <3>1. CASE k = n + 1
      <4>1. n + 1 - 1 = n /\ n \in 0..n
        BY <2>3
      <4> QED BY <2>7, <3>1, <4>1
    <3>2. CASE k # n + 1
      <4>1. k \in 1..n /\ k \in 0..n /\ k - 1 \in 0..n
        BY <2>3, <3>2
      <4> QED BY <2>2, <2>7, <4>1
    <3> QED BY <3>1, <3>2
  <2>10. h \in Steps(n + 1, V, base, next)
    BY <2>6, <2>8, <2>9 DEF Steps
  <2> QED BY <2>3, <2>10
<1>3. N \in S
  <2>1. S \in SUBSET Nat
    OBVIOUS
  <2> HIDE DEF S
  <2>2. 0..N \subseteq S
    BY <1>1, <1>2, <2>1, Climb
  <2> QED BY <2>2
<1> QED BY <1>3

(* Where the frames end.                                                   *)
LEMMA EndsIs ==
  ASSUME NEW F, \A f \in F : f.len \in Nat, NEW s \in Seq(F)
  PROVE  /\ Ends(s) \in [0 .. Len(s) -> Nat] /\ Ends(s)[0] = 0
         /\ \A n \in 1 .. Len(s) : Ends(s)[n] = Ends(s)[n - 1] + HeaderLen + s[n].len
<1> DEFINE N == Len(s)
           next == [k \in 1..N |-> [v \in Nat |-> v + HeaderLen + s[k].len]]
           spec(e) == [n \in 0 .. Len(s) |-> IF n = 0 THEN 0 ELSE e[n - 1] + HeaderLen + s[n].len]
<1>1. N \in Nat /\ \A n \in 1..N : s[n].len \in Nat
  BY ElementOfSeq
<1>2. next \in [1..N -> [Nat -> Nat]]
  BY <1>1 DEF HeaderLen
<1>3. \A n \in 1..N, v \in Nat : next[n][v] = v + HeaderLen + s[n].len
  OBVIOUS
<1> HIDE DEF next
<1>4. PICK g \in Steps(N, Nat, 0, next) : TRUE
  <2>1. N \in Nat /\ 0 \in Nat
    BY <1>1
  <2> HIDE DEF N
  <2>2. Steps(N, Nat, 0, next) # {}
    BY <1>2, <2>1, StepsExist, Zenon
  <2> QED BY <2>2
<1>5. g \in [0..N -> Nat] /\ g[0] = 0 /\ \A k \in 1..N : g[k] = next[k][g[k - 1]]
  BY <1>4 DEF Steps
<1>6. \A k \in 1..N : g[k] = g[k - 1] + HeaderLen + s[k].len
  <2> TAKE k \in 1..N
  <2>1. k - 1 \in 0..N
    BY <1>1
  <2>2. g[k - 1] \in Nat
    BY <1>5, <2>1
  <2> QED BY <1>3, <1>5, <2>2
<1>7. g = spec(g)
  BY <1>1, <1>5, <1>6
<1>8. Ends(s) = CHOOSE e : e = spec(e)
  BY DEF Ends
<1>9. Ends(s) = spec(Ends(s))
  <2> HIDE DEF spec
  <2> QED BY <1>7, <1>8
<1> DEFINE e == Ends(s)
<1> HIDE DEF e
<1>10. e = [n \in 0..N |-> IF n = 0 THEN 0 ELSE e[n - 1] + HeaderLen + s[n].len]
  BY <1>9 DEF e
<1>11. e[0] = 0 /\ \A n \in 1..N : e[n] = e[n - 1] + HeaderLen + s[n].len
  <2>1. \A n \in 0..N : e[n] = IF n = 0 THEN 0 ELSE e[n - 1] + HeaderLen + s[n].len
    BY <1>10
  <2> QED BY <1>1, <2>1
<1>12. 0..N \subseteq {n \in 0..N : e[n] \in Nat}
  <2> DEFINE R == {n \in 0..N : e[n] \in Nat}
  <2>1. 0 \in R /\ R \in SUBSET Nat
    BY <1>1, <1>11
  <2>2. ASSUME NEW n \in 0..N, n \in R, n < N PROVE n + 1 \in R
    <3>1. n + 1 \in 1..N /\ n + 1 - 1 = n /\ e[n] \in Nat
      BY <1>1, <2>2
    <3>2. e[n + 1] = e[n] + HeaderLen + s[n + 1].len /\ s[n + 1].len \in Nat
      BY <1>1, <1>11, <3>1
    <3> QED BY <1>1, <3>1, <3>2 DEF HeaderLen
  <2> HIDE DEF R
  <2>3. 0..N \subseteq R
    BY <1>1, <2>1, <2>2, Climb
  <2> QED BY <2>3 DEF R
<1>13. e \in [0..N -> Nat]
  BY <1>10, <1>12
<1> QED BY <1>11, <1>13 DEF e

(* Fitting of the module HostLink, of a panel.                             *)
FitsOn(kind, f) == f.len <= Cap[IF f.ch = "console" /\ kind = "uc8253c" THEN "control" ELSE f.ch]
FittingOn(kind, frames) ==
  LET fit[n \in 0 .. Len(frames)] ==
        IF n = 0 THEN << >> ELSE IF FitsOn(kind, frames[n]) THEN Append(fit[n - 1], frames[n]) ELSE fit[n - 1]
  IN fit

LEMMA FittingIsOn == \A s : Fitting(s) = FittingOn(firmware.panel, s)
BY DEF Fitting, FittingOn, Fits, FitsOn, PayloadCap

LEMMA FittingOnIs ==
  ASSUME NEW kind, NEW F, NEW s \in Seq(F)
  PROVE  /\ FittingOn(kind, s)[0] = << >>
         /\ \A n \in 1 .. Len(s) :
              FittingOn(kind, s)[n] = IF FitsOn(kind, s[n]) THEN Append(FittingOn(kind, s)[n - 1], s[n])
                                      ELSE FittingOn(kind, s)[n - 1]
<1> DEFINE N == Len(s)
           next == [k \in 1..N |-> [v \in Seq(F) |-> IF FitsOn(kind, s[k]) THEN Append(v, s[k]) ELSE v]]
           spec(e) == [n \in 0 .. Len(s) |->
                         IF n = 0 THEN << >> ELSE IF FitsOn(kind, s[n]) THEN Append(e[n - 1], s[n]) ELSE e[n - 1]]
<1>1. N \in Nat /\ (\A n \in 1..N : s[n] \in F) /\ << >> \in Seq(F)
  BY ElementOfSeq
<1>2. next \in [1..N -> [Seq(F) -> Seq(F)]]
  BY <1>1
<1>3. \A n \in 1..N, v \in Seq(F) : next[n][v] = IF FitsOn(kind, s[n]) THEN Append(v, s[n]) ELSE v
  OBVIOUS
<1> HIDE DEF next
<1>4. PICK g \in Steps(N, Seq(F), << >>, next) : TRUE
  BY <1>1, <1>2, StepsExist
<1>5. g \in [0..N -> Seq(F)] /\ g[0] = << >> /\ \A k \in 1..N : g[k] = next[k][g[k - 1]]
  BY <1>4 DEF Steps
<1>6. \A k \in 1..N : g[k] = IF FitsOn(kind, s[k]) THEN Append(g[k - 1], s[k]) ELSE g[k - 1]
  <2> TAKE k \in 1..N
  <2>1. k - 1 \in 0..N
    BY <1>1
  <2>2. g[k - 1] \in Seq(F)
    BY <1>5, <2>1
  <2> QED BY <1>3, <1>5, <2>2
<1>7. g = spec(g)
  <2>1. g = [n \in 0..N |-> g[n]]
    BY <1>5
  <2>2. \A n \in 0..N : n # 0 => n \in 1..N
    BY <1>1
  <2> QED BY <1>5, <1>6, <2>1, <2>2
<1>8. FittingOn(kind, s) = CHOOSE e : e = spec(e)
  BY DEF FittingOn
<1>9. FittingOn(kind, s) = spec(FittingOn(kind, s))
  <2> HIDE DEF spec
  <2> QED BY <1>7, <1>8
<1> DEFINE e == FittingOn(kind, s)
<1> HIDE DEF e
<1>10. e = [n \in 0..N |->
              IF n = 0 THEN << >> ELSE IF FitsOn(kind, s[n]) THEN Append(e[n - 1], s[n]) ELSE e[n - 1]]
  BY <1>9 DEF e
<1>11. \A n \in 0..N :
         e[n] = IF n = 0 THEN << >> ELSE IF FitsOn(kind, s[n]) THEN Append(e[n - 1], s[n]) ELSE e[n - 1]
  BY <1>10
<1>12. 0 \in 0..N /\ \A n \in 1..N : n \in 0..N /\ n # 0
  BY <1>1
<1>13. /\ e[0] = << >>
       /\ \A n \in 1..N : e[n] = IF FitsOn(kind, s[n]) THEN Append(e[n - 1], s[n]) ELSE e[n - 1]
  BY <1>11, <1>12
<1> QED BY <1>13 DEF e

LEMMA EndsGrow ==
  ASSUME NEW F, \A f \in F : f.len \in Nat, NEW s \in Seq(F)
  PROVE  \A a, b \in 0 .. Len(s) : a < b => Ends(s)[a] + HeaderLen <= Ends(s)[b]
<1> SUFFICES ASSUME NEW a \in 0 .. Len(s) PROVE \A b \in 0 .. Len(s) : a < b => Ends(s)[a] + HeaderLen <= Ends(s)[b]
  OBVIOUS
<1> DEFINE N == Len(s)
           e == Ends(s)
           S == {b \in 0..N : a < b => e[a] + HeaderLen <= e[b]}
<1>1. N \in Nat /\ \A n \in 1..N : s[n].len \in Nat
  BY ElementOfSeq
<1>2. e \in [0..N -> Nat] /\ \A n \in 1..N : e[n] = e[n - 1] + HeaderLen + s[n].len
  BY EndsIs
<1> HIDE DEF N, e
<1>3. a \in 0..N
  BY DEF N
<1>4. S \in SUBSET Nat /\ 0 \in S
  BY <1>1, <1>3
<1>5. ASSUME NEW b \in 0..N, b \in S, b < N PROVE b + 1 \in S
  <2>1. b + 1 \in 1..N /\ b + 1 \in 0..N /\ b + 1 - 1 = b
    BY <1>1, <1>5
  <2>2. e[b + 1] = e[b] + HeaderLen + s[b + 1].len /\ s[b + 1].len \in Nat /\ e[b] \in Nat /\ e[a] \in Nat
    BY <1>1, <1>2, <1>3, <2>1
  <2>3. a < b + 1 => e[a] + HeaderLen <= e[b + 1]
    <3>1. a < b \/ a = b \/ ~ (a < b + 1)
      BY <1>1, <1>3, <1>5
    <3> QED BY <1>5, <2>2, <3>1, SMTT(30) DEF HeaderLen
  <2> QED BY <2>1, <2>3
<1>6. 0..N \subseteq S
  <2> HIDE DEF S
  <2> QED BY <1>1, <1>4, <1>5, Climb
<1> QED BY <1>6 DEF N, e

(* The frames already sent keep their places when another is sent.         *)
LEMMA EndsAppend ==
  ASSUME NEW F, \A f \in F : f.len \in Nat, NEW s \in Seq(F), NEW f \in F
  PROVE  /\ \A n \in 0 .. Len(s) : Ends(Append(s, f))[n] = Ends(s)[n]
         /\ Ends(Append(s, f))[Len(s) + 1] = Ends(s)[Len(s)] + HeaderLen + f.len
<1> DEFINE N == Len(s)
           t == Append(s, f)
           e == Ends(s)
           d == Ends(t)
           S == {n \in 0..N : d[n] = e[n]}
<1>1. /\ N \in Nat /\ t \in Seq(F) /\ Len(t) = N + 1 /\ t[N + 1] = f
      /\ \A n \in 1..N : t[n] = s[n]
  BY AppendProperties
<1>2. e[0] = 0 /\ \A n \in 1..N : e[n] = e[n - 1] + HeaderLen + s[n].len
  BY EndsIs
<1>3. d[0] = 0 /\ \A n \in 1..(N + 1) : d[n] = d[n - 1] + HeaderLen + t[n].len
  <2> HIDE DEF t
  <2> QED BY <1>1, EndsIs
<1> HIDE DEF N, t, e, d
<1>4. S \in SUBSET Nat /\ 0 \in S
  BY <1>1, <1>2, <1>3
<1>5. ASSUME NEW n \in 0..N, n \in S, n < N PROVE n + 1 \in S
  <2>1. n + 1 \in 1..N /\ n + 1 \in 1..(N + 1) /\ n + 1 \in 0..N /\ n + 1 - 1 = n /\ d[n] = e[n]
    BY <1>1, <1>5
  <2>2. e[n + 1] = e[n] + HeaderLen + s[n + 1].len
    BY <1>2, <2>1
  <2>3. d[n + 1] = d[n] + HeaderLen + t[n + 1].len
    BY <1>3, <2>1
  <2>4. t[n + 1] = s[n + 1]
    BY <1>1, <2>1
  <2> QED BY <2>1, <2>2, <2>3, <2>4
<1>6. 0..N \subseteq S
  <2> HIDE DEF S
  <2> QED BY <1>1, <1>4, <1>5, Climb
<1>7. d[N] = e[N]
  BY <1>1, <1>6
<1>8. d[N + 1] = d[N] + HeaderLen + f.len
  <2>1. N + 1 \in 1..(N + 1) /\ N + 1 - 1 = N
    BY <1>1
  <2> QED BY <1>1, <1>3, <2>1
<1>9. \A n \in 0..N : d[n] = e[n]
  BY <1>6
<1> QED BY <1>7, <1>8, <1>9 DEF N, t, e, d

LEMMA FittingAppend ==
  ASSUME NEW kind, NEW F, NEW s \in Seq(F), NEW f \in F
  PROVE  \A n \in 0 .. Len(s) : FittingOn(kind, Append(s, f))[n] = FittingOn(kind, s)[n]
<1> DEFINE N == Len(s)
           t == Append(s, f)
           e == FittingOn(kind, s)
           d == FittingOn(kind, t)
           S == {n \in 0..N : d[n] = e[n]}
<1>1. /\ N \in Nat /\ t \in Seq(F) /\ Len(t) = N + 1
      /\ \A n \in 1..N : t[n] = s[n]
  BY AppendProperties
<1>2. e[0] = << >> /\ \A n \in 1..N : e[n] = IF FitsOn(kind, s[n]) THEN Append(e[n - 1], s[n]) ELSE e[n - 1]
  BY FittingOnIs
<1>3. d[0] = << >> /\ \A n \in 1..(N + 1) : d[n] = IF FitsOn(kind, t[n]) THEN Append(d[n - 1], t[n]) ELSE d[n - 1]
  <2> HIDE DEF t
  <2> QED BY <1>1, FittingOnIs
<1> HIDE DEF N, t, e, d
<1>4. S \in SUBSET Nat /\ 0 \in S
  BY <1>1, <1>2, <1>3
<1>5. ASSUME NEW n \in 0..N, n \in S, n < N PROVE n + 1 \in S
  <2>1. n + 1 \in 1..N /\ n + 1 \in 1..(N + 1) /\ n + 1 \in 0..N /\ n + 1 - 1 = n /\ d[n] = e[n]
    BY <1>1, <1>5
  <2>2. e[n + 1] = IF FitsOn(kind, s[n + 1]) THEN Append(e[n], s[n + 1]) ELSE e[n]
    BY <1>2, <2>1
  <2>3. d[n + 1] = IF FitsOn(kind, t[n + 1]) THEN Append(d[n], t[n + 1]) ELSE d[n]
    BY <1>3, <2>1
  <2>4. t[n + 1] = s[n + 1]
    BY <1>1, <2>1
  <2> QED BY <2>1, <2>2, <2>3, <2>4
<1>6. 0..N \subseteq S
  <2> HIDE DEF S
  <2> QED BY <1>1, <1>4, <1>5, Climb
<1>7. \A n \in 0..N : d[n] = e[n]
  BY <1>6
<1> QED BY <1>7 DEF N, t, e, d

----------------------------------------------------------------------------
(* A byte on the wire says of which frame it is and which of its bytes: so *)
(* it has a place in the stream of the connection.                         *)
Byte == [frame : Nat, at : Nat]
Located(s, b, place) ==
  /\ b.frame \in 1 .. Len(s) /\ b.at \in 1 .. (HeaderLen + s[b.frame].len)
  /\ Ends(s)[b.frame - 1] + b.at = place
Placed(s, bytes, from) == bytes \in Seq(Byte) /\ \A i \in 1 .. Len(bytes) : Located(s, bytes[i], from + i)

(* The bytes that follow the end of a frame are the header of the next.    *)
LEMMA HeaderByte ==
  ASSUME NEW F, \A f \in F : f.len \in Nat, NEW s \in Seq(F), NEW k \in 0 .. Len(s), NEW i \in 1 .. HeaderLen,
         NEW b \in Byte, Located(s, b, Ends(s)[k] + i)
  PROVE  k < Len(s) /\ b = [frame |-> k + 1, at |-> i]
<1> DEFINE N == Len(s)
           e == Ends(s)
           n == b.frame
           at == b.at
           len == s[n].len
<1>1. N \in Nat /\ n \in Nat /\ at \in Nat
  BY DEF Byte
<1>2. n \in 1..N /\ at \in 1 .. (HeaderLen + len) /\ e[n - 1] + at = e[k] + i /\ len \in Nat
  BY ElementOfSeq DEF Located
<1>3. e \in [0..N -> Nat] /\ \A m \in 1..N : e[m] = e[m - 1] + HeaderLen + s[m].len
  BY EndsIs
<1>4. \A x, y \in 0..N : x < y => e[x] + HeaderLen <= e[y]
  BY EndsGrow
<1>5. b = [frame |-> n, at |-> at]
  BY DEF Byte
<1> HIDE DEF N, e, n, at
<1>6. k \in 0..N /\ n - 1 \in 0..N /\ n \in 0..N /\ i \in 1..2
  BY <1>1, <1>2 DEF N, HeaderLen
<1>7. e[k] \in Nat /\ e[n] \in Nat /\ e[n - 1] \in Nat
  BY <1>3, <1>6
<1>8. e[n] = e[n - 1] + 2 + len
  BY <1>2, <1>3 DEF HeaderLen
<1> HIDE DEF len
<1>9. ~ (n < k)
  <2> SUFFICES ASSUME n < k PROVE FALSE
    OBVIOUS
  <2>1. e[n] + 2 <= e[k]
    BY <1>4, <1>6 DEF HeaderLen
  <2>2. e[k] + i <= e[n]
    BY <1>1, <1>2, <1>7, <1>8 DEF HeaderLen
  <2> QED BY <1>6, <1>7, <2>1, <2>2
<1>10. n # k
  <2> SUFFICES ASSUME n = k PROVE FALSE
    OBVIOUS
  <2> QED BY <1>1, <1>2, <1>6, <1>7, <1>8, SMTT(30) DEF HeaderLen
<1>11. ~ (n > k + 1)
  <2> SUFFICES ASSUME n > k + 1 PROVE FALSE
    OBVIOUS
  <2>1. k < n - 1
    BY <1>1, <1>6
  <2>2. e[k] + 2 <= e[n - 1]
    BY <1>4, <1>6, <2>1 DEF HeaderLen
  <2> QED BY <1>1, <1>2, <1>6, <1>7, <2>2, SMTT(30)
<1>12. n = k + 1
  BY <1>1, <1>6, <1>9, <1>10, <1>11
<1>13. n - 1 = k
  BY <1>6, <1>12
<1>14. e[k] + at = e[k] + i
  BY <1>2, <1>13
<1>15. at = i
  BY <1>1, <1>6, <1>7, <1>14
<1> QED BY <1>2, <1>5, <1>6, <1>12, <1>15 DEF N

LEMMA PlacedRest ==
  ASSUME NEW s, NEW from \in Nat, NEW bytes, Placed(s, bytes, from), NEW take \in 0 .. Len(bytes)
  PROVE  LET rest == SubSeq(bytes, take + 1, Len(bytes))
         IN Placed(s, rest, from + take) /\ Len(rest) = Len(bytes) - take
<1> DEFINE rest == SubSeq(bytes, take + 1, Len(bytes))
<1>1. bytes \in Seq(Byte) /\ Len(bytes) \in Nat /\ \A i \in 1 .. Len(bytes) : Located(s, bytes[i], from + i)
  BY DEF Placed
<1>2. /\ rest \in Seq(Byte) /\ Len(rest) = Len(bytes) - take
      /\ \A i \in 1 .. Len(rest) : rest[i] = bytes[take + i]
  <2>1. take + 1 \in 1 .. (Len(bytes) + 1) /\ Len(bytes) \in take .. Len(bytes)
    BY <1>1
  <2> QED BY <1>1, <2>1
<1> HIDE DEF rest
<1>3. ASSUME NEW i \in 1 .. Len(rest) PROVE Located(s, rest[i], from + take + i)
  <2>1. take + i \in 1 .. Len(bytes) /\ from + take + i = from + (take + i)
    BY <1>1, <1>2
  <2> QED BY <1>1, <1>2, <2>1
<1>4. Placed(s, rest, from + take)
  BY <1>2, <1>3 DEF Placed
<1> QED BY <1>2, <1>4 DEF rest

LEMMA PlacedFirst ==
  ASSUME NEW s, NEW from \in Nat, NEW bytes, Placed(s, bytes, from), NEW take \in 0 .. Len(bytes)
  PROVE  LET first == SubSeq(bytes, 1, take)
         IN Placed(s, first, from) /\ Len(first) = take
<1> DEFINE first == SubSeq(bytes, 1, take)
<1>1. bytes \in Seq(Byte) /\ Len(bytes) \in Nat /\ \A i \in 1 .. Len(bytes) : Located(s, bytes[i], from + i)
  BY DEF Placed
<1>2. /\ first \in Seq(Byte) /\ Len(first) = take
      /\ \A i \in 1 .. Len(first) : first[i] = bytes[i]
  BY <1>1
<1> HIDE DEF first
<1>3. \A i \in 1 .. Len(first) : i \in 1 .. Len(bytes)
  BY <1>1, <1>2
<1>4. Placed(s, first, from)
  BY <1>1, <1>2, <1>3 DEF Placed
<1> QED BY <1>2, <1>4 DEF first

LEMMA PlacedBoth ==
  ASSUME NEW s, NEW from \in Nat, NEW a, NEW b, Placed(s, a, from), Placed(s, b, from + Len(a))
  PROVE  Placed(s, a \o b, from) /\ Len(a \o b) = Len(a) + Len(b)
<1> DEFINE both == a \o b
<1>1. /\ a \in Seq(Byte) /\ Len(a) \in Nat /\ \A i \in 1 .. Len(a) : Located(s, a[i], from + i)
      /\ b \in Seq(Byte) /\ Len(b) \in Nat /\ \A i \in 1 .. Len(b) : Located(s, b[i], from + Len(a) + i)
  BY DEF Placed
<1>2. /\ both \in Seq(Byte) /\ Len(both) = Len(a) + Len(b)
      /\ \A i \in 1 .. Len(both) : both[i] = IF i <= Len(a) THEN a[i] ELSE b[i - Len(a)]
  BY <1>1, ConcatProperties
<1> HIDE DEF both
<1>3. ASSUME NEW i \in 1 .. Len(both) PROVE Located(s, both[i], from + i)
  <2>1. CASE i <= Len(a)
    <3>1. i \in 1 .. Len(a)
      BY <1>1, <2>1
    <3> QED BY <1>1, <1>2, <2>1, <3>1
  <2>2. CASE ~ (i <= Len(a))
    <3>1. i - Len(a) \in 1 .. Len(b) /\ from + Len(a) + (i - Len(a)) = from + i
      BY <1>1, <1>2, <2>2
    <3> QED BY <1>1, <1>2, <2>2, <3>1
  <2> QED BY <2>1, <2>2
<1> QED BY <1>2, <1>3 DEF Placed, both

LEMMA PlacedAppend ==
  ASSUME NEW F, \A f \in F : f.len \in Nat, NEW s \in Seq(F), NEW f \in F, NEW from \in Nat, NEW bytes,
         Placed(s, bytes, from)
  PROVE  Placed(Append(s, f), bytes, from)
<1> DEFINE t == Append(s, f)
<1>1. Len(s) \in Nat /\ Len(t) = Len(s) + 1 /\ \A n \in 1 .. Len(s) : t[n] = s[n]
  BY AppendProperties
<1>2. \A n \in 0 .. Len(s) : Ends(t)[n] = Ends(s)[n]
  BY EndsAppend
<1> HIDE DEF t
<1>3. ASSUME NEW b, NEW place, Located(s, b, place) PROVE Located(t, b, place)
  <2>1. /\ b.frame \in 1 .. Len(s) /\ b.at \in 1 .. (HeaderLen + s[b.frame].len)
        /\ Ends(s)[b.frame - 1] + b.at = place
    BY <1>3 DEF Located
  <2>2. b.frame \in 1 .. Len(t) /\ b.frame - 1 \in 0 .. Len(s)
    BY <1>1, <2>1
  <2> QED BY <1>1, <1>2, <2>1, <2>2 DEF Located
<1>4. Placed(t, bytes, from)
  BY <1>3 DEF Placed
<1> QED BY <1>4 DEF t

LEMMA PlacedBytes ==
  ASSUME NEW F, \A f \in F : f.len \in Nat, NEW s \in Seq(F), NEW f \in F
  PROVE  /\ Placed(Append(s, f), Bytes(Len(s) + 1, f), Ends(s)[Len(s)])
         /\ Len(Bytes(Len(s) + 1, f)) = HeaderLen + f.len
<1> DEFINE t == Append(s, f)
           bytes == Bytes(Len(s) + 1, f)
           M == HeaderLen + f.len
<1>1. Len(s) \in Nat /\ Len(t) = Len(s) + 1 /\ t[Len(s) + 1] = f
  BY AppendProperties
<1>2. Ends(t)[Len(s)] = Ends(s)[Len(s)]
  <2>1. Len(s) \in 0 .. Len(s)
    BY <1>1
  <2> QED BY <2>1, EndsAppend
<1>3. M \in Nat
  BY DEF HeaderLen
<1>4. bytes = [i \in 1..M |-> [frame |-> Len(s) + 1, at |-> i]]
  BY DEF Bytes
<1> HIDE DEF M, bytes, t
<1>5. \A i \in 1..M : [frame |-> Len(s) + 1, at |-> i] \in Byte
  BY <1>1, <1>3 DEF Byte
<1>6. bytes \in Seq(Byte) /\ Len(bytes) = M /\ \A i \in 1..M : bytes[i] = [frame |-> Len(s) + 1, at |-> i]
  <2>1. bytes \in [1..M -> Byte] /\ \A i \in 1..M : bytes[i] = [frame |-> Len(s) + 1, at |-> i]
    BY <1>4, <1>5
  <2> QED BY <1>3, <2>1
<1>7. ASSUME NEW i \in 1..M PROVE Located(t, bytes[i], Ends(s)[Len(s)] + i)
  <2>1. bytes[i].frame = Len(s) + 1 /\ bytes[i].at = i /\ Len(s) + 1 - 1 = Len(s) /\ Len(s) + 1 \in 1 .. (Len(s) + 1)
    BY <1>1, <1>6
  <2> QED BY <1>1, <1>2, <2>1 DEF Located, M
<1>8. Placed(t, bytes, Ends(s)[Len(s)])
  BY <1>6, <1>7 DEF Placed
<1> QED BY <1>6, <1>8 DEF M, bytes, t

----------------------------------------------------------------------------
(* What has been handed over is what fits of the first k frames, and the   *)
(* parser stands between two frames, within one that fits or within one it *)
(* skips.  What it still has to read are the bytes that follow.            *)
Between(k) ==
  /\ Len(header) < HeaderLen /\ discard = 0
  /\ \A i \in 1 .. Len(header) : header[i] = [frame |-> k + 1, at |-> i]
  /\ Consumed = Ends(sent)[k] + Len(header)
Within(k) ==
  /\ k < Len(sent) /\ FitsOn(firmware.panel, sent[k + 1]) /\ discard = 0
  /\ Len(header) = HeaderLen /\ \A i \in 1 .. HeaderLen : header[i] = [frame |-> k + 1, at |-> i]
  /\ target = sent[k + 1].len /\ filled \in Nat /\ filled < target
  /\ Consumed = Ends(sent)[k] + HeaderLen + filled
Skipping(k) ==
  /\ k < Len(sent) /\ ~ FitsOn(firmware.panel, sent[k + 1]) /\ header = << >>
  /\ discard \in 1 .. sent[k + 1].len
  /\ Consumed + discard = Ends(sent)[k + 1]
Midway(k) ==
  /\ dispatched = FittingOn(firmware.panel, sent)[k]
  /\ Between(k) \/ Within(k) \/ Skipping(k)

StreamInv ==
  /\ firmware \in Firmwares /\ sent \in Seq(firmware.traffic) /\ header \in Seq(Byte)
  /\ Consumed \in Nat /\ Placed(sent, buf, Consumed) /\ Placed(sent, wire, Consumed + Len(buf))
  /\ \E k \in 0 .. Len(sent) : Midway(k)

LEMMA TrafficIs ==
  ASSUME NEW w \in Firmwares, NEW f \in w.traffic
  PROVE  /\ f.len \in Nat
         /\ Cap[IF f.ch = "console" /\ w.panel = "uc8253c" THEN "control" ELSE f.ch] \in Nat
BY LinkAssumption

LEMMA EmptyPlaced == \A s, from : Placed(s, << >>, from)
BY DEF Placed

(* An empty stream, as at the start and after a broken connection.         *)
Fresh ==
  /\ firmware \in Firmwares /\ sent = << >> /\ wire = << >>
  /\ buf = << >> /\ header = << >> /\ discard = 0 /\ dispatched = << >>

LEMMA FreshIsStream == Fresh => StreamInv
<1> SUFFICES ASSUME Fresh PROVE StreamInv
  OBVIOUS
<1> USE DEF Fresh
<1>1. sent \in Seq(firmware.traffic) /\ header \in Seq(Byte) /\ Len(sent) = 0 /\ Len(header) = 0
  OBVIOUS
<1>2. \A f \in firmware.traffic : f.len \in Nat
  BY TrafficIs
<1>3. Ends(sent)[0] = 0
  BY <1>1, <1>2, EndsIs
<1>4. FittingOn(firmware.panel, sent)[0] = << >>
  BY <1>1, FittingOnIs
<1>5. Consumed = 0
  BY <1>1, <1>3 DEF Consumed
<1>6. Between(0)
  BY <1>1, <1>3, <1>5 DEF Between, HeaderLen
<1>7. Placed(sent, buf, Consumed) /\ Placed(sent, wire, Consumed + Len(buf))
  BY EmptyPlaced
<1> QED BY <1>1, <1>4, <1>5, <1>6, <1>7 DEF StreamInv, Midway

LEMMA StreamInit == LinkInit => StreamInv
BY FreshIsStream DEF LinkInit, Fresh

(* Nothing of the stream changes.                                          *)
LEMMA StreamStays ==
  ASSUME StreamInv, UNCHANGED <<firmware, sent, wire, buf, header, target, filled, discard, dispatched>>
  PROVE  StreamInv'
BY DEF StreamInv, Midway, Between, Within, Skipping, Consumed

LEMMA HostSendsKeeps ==
  ASSUME StreamInv, NEW f \in firmware.traffic, HostSends(f)
  PROVE  StreamInv'
<1> DEFINE F == firmware.traffic
           N == Len(sent)
           t == Append(sent, f)
           e == Ends(sent)
           d == Ends(t)
           more == Bytes(N + 1, f)
<1>1. sent' = t /\ wire' = wire \o more /\ UNCHANGED <<firmware, buf, header, target, filled, discard, dispatched>>
  BY DEF HostSends, inbound
<1>2. sent \in Seq(F) /\ N \in Nat /\ \A g \in F : g.len \in Nat
  BY TrafficIs DEF StreamInv
<1>3. t \in Seq(F) /\ Len(t) = N + 1 /\ \A n \in 1..N : t[n] = sent[n]
  BY <1>2, AppendProperties
<1>4. (\A n \in 0..N : d[n] = e[n]) /\ d[N + 1] = e[N] + HeaderLen + f.len
  BY <1>2, EndsAppend
<1>5. Placed(t, more, e[N]) /\ Len(more) = HeaderLen + f.len
  BY <1>2, PlacedBytes
<1>6. Consumed \in Nat /\ Placed(sent, buf, Consumed) /\ Placed(sent, wire, Consumed + Len(buf))
  BY DEF StreamInv
<1>7. Len(buf) \in Nat /\ Len(wire) \in Nat /\ Consumed + Len(buf) \in Nat
  BY <1>6 DEF Placed
<1>8. Placed(t, buf, Consumed) /\ Placed(t, wire, Consumed + Len(buf))
  BY <1>2, <1>6, <1>7, PlacedAppend
<1>9. e[N] \in Nat /\ Consumed = e[N] - Len(wire) - Len(buf)
  <2>1. e \in [0..N -> Nat]
    BY <1>2, EndsIs
  <2> QED BY <1>2, <2>1 DEF Consumed
<1>10. Placed(t, wire \o more, Consumed + Len(buf)) /\ Len(wire \o more) = Len(wire) + Len(more)
  <2>1. Consumed + Len(buf) + Len(wire) = e[N]
    BY <1>7, <1>9
  <2> HIDE DEF t, more, e
  <2>2. Placed(t, more, Consumed + Len(buf) + Len(wire))
    BY <1>5, <2>1
  <2> QED BY <1>7, <1>8, <2>2, PlacedBoth
<1>11. Consumed' = Consumed
  <2> DEFINE was == e[N]
             is == d[N + 1]
             way == Len(wire)
             way2 == Len(wire \o more)
             here == Len(buf)
             size == HeaderLen + f.len
  <2>1. Consumed' = is - way2 - here
    <3>1. Consumed' = Ends(sent')[Len(sent')] - Len(wire') - Len(buf')
      BY DEF Consumed
    <3> QED BY <1>1, <1>3, <3>1
  <2>2. Consumed = was - way - here
    BY <1>9
  <2>3. was \in Nat /\ way \in Nat /\ here \in Nat /\ size \in Nat
    BY <1>2, <1>7, <1>9 DEF HeaderLen
  <2>4. way2 = way + size
    BY <1>5, <1>10
  <2>5. is = was + size
    <3>1. f.len \in Nat
      BY <1>2
    <3>2. is = was + HeaderLen + f.len
      BY <1>4
    <3> DEFINE len == f.len
    <3> HIDE DEF is, was, len, size
    <3>3. size = HeaderLen + len
      BY DEF size, len
    <3>4. len \in Nat /\ is = was + HeaderLen + len
      BY <3>1, <3>2 DEF len
    <3> QED BY <2>3, <3>3, <3>4 DEF HeaderLen
  <2> HIDE DEF was, is, way, way2, here, size
  <2>6. is - way2 - here = was - way - here
    BY <2>3, <2>4, <2>5
  <2> QED BY <2>1, <2>2, <2>6
<1>12. PICK k \in 0..N : Midway(k)
  BY DEF StreamInv
<1>13. k \in 0 .. Len(t) /\ d[k] = e[k] /\ k \in Nat
  BY <1>2, <1>3, <1>4
<1>14. k < N => k < Len(t) /\ t[k + 1] = sent[k + 1] /\ d[k + 1] = e[k + 1]
  BY <1>2, <1>3, <1>4
<1>15. FittingOn(firmware.panel, t)[k] = FittingOn(firmware.panel, sent)[k]
  BY <1>2, FittingAppend
<1> HIDE DEF t, d, e, more
<1>16. Ends(sent)' = d
  BY <1>1 DEF d
<1>17. Between(k) => Between(k)'
  BY <1>1, <1>11, <1>13, <1>16 DEF Between, e
<1>18. Within(k) => Within(k)'
  BY <1>1, <1>11, <1>13, <1>14, <1>16 DEF Within, e
<1>19. Skipping(k) => Skipping(k)'
  BY <1>1, <1>11, <1>13, <1>14, <1>16 DEF Skipping, e
<1>20. Midway(k)'
  BY <1>1, <1>12, <1>15, <1>17, <1>18, <1>19 DEF Midway
<1>21. Placed(sent, buf, Consumed)' /\ Placed(sent, wire, Consumed + Len(buf))'
  BY <1>1, <1>8, <1>10, <1>11
<1> QED BY <1>1, <1>3, <1>6, <1>11, <1>13, <1>20, <1>21 DEF StreamInv

LEMMA ReconnectKeeps ==
  ASSUME StreamInv, Reconnect
  PROVE  StreamInv'
<1>1. Fresh'
  BY DEF StreamInv, Reconnect, ResetInboundFrame, Fresh
<1> QED BY <1>1, FreshIsStream, PTL

(* A chunk arrives.                                                        *)
LEMMA ReadChunkKeeps ==
  ASSUME StreamInv, ReadChunk
  PROVE  StreamInv'
<1>1. PICK take \in 1 .. Len(wire) : /\ buf' = SubSeq(wire, 1, take)
                                     /\ wire' = SubSeq(wire, take + 1, Len(wire))
  BY DEF ReadChunk
<1>2. /\ buf = << >> /\ Len(buf) = 0
      /\ UNCHANGED <<firmware, sent, header, target, filled, discard, dispatched>>
  BY DEF ReadChunk
<1>3. Consumed \in Nat /\ Placed(sent, wire, Consumed + Len(buf)) /\ sent \in Seq(firmware.traffic)
  BY DEF StreamInv
<1>4. Placed(sent, wire, Consumed) /\ Len(wire) \in Nat /\ take \in 0 .. Len(wire)
  BY <1>2, <1>3 DEF Placed
<1>5. Placed(sent, buf', Consumed) /\ Len(buf') = take
  BY <1>1, <1>3, <1>4, PlacedFirst
<1>6. Placed(sent, wire', Consumed + take) /\ Len(wire') = Len(wire) - take
  BY <1>1, <1>3, <1>4, PlacedRest
<1>7. Consumed' = Consumed
  <2> DEFINE total == Ends(sent)[Len(sent)]
  <2>1. total \in Nat
    <3>1. \A f \in firmware.traffic : f.len \in Nat
      BY TrafficIs DEF StreamInv
    <3>2. Ends(sent) \in [0 .. Len(sent) -> Nat] /\ Len(sent) \in 0 .. Len(sent)
      BY <1>3, <3>1, EndsIs
    <3> QED BY <3>2
  <2>2. Consumed = total - Len(wire) - Len(buf) /\ Consumed' = total - Len(wire') - Len(buf')
    BY <1>2 DEF Consumed
  <2> QED BY <1>2, <1>4, <1>5, <1>6, <2>1, <2>2
<1>8. \A k : Midway(k)' <=> Midway(k)
  BY <1>2, <1>7 DEF Midway, Between, Within, Skipping
<1> QED BY <1>2, <1>3, <1>5, <1>6, <1>7, <1>8 DEF StreamInv

----------------------------------------------------------------------------
(* A turn of the parser takes the next bytes of its chunk.                 *)
LEMMA TurnTakes ==
  ASSUME StreamInv, NEW take \in 0 .. Len(buf), buf' = Rest(take), UNCHANGED <<sent, wire>>
  PROVE  /\ Consumed' = Consumed + take /\ Consumed' \in Nat
         /\ Placed(sent', buf', Consumed') /\ Placed(sent', wire', Consumed' + Len(buf'))
<1> DEFINE total == Ends(sent)[Len(sent)]
<1>1. /\ Consumed \in Nat /\ sent \in Seq(firmware.traffic)
      /\ Placed(sent, buf, Consumed) /\ Placed(sent, wire, Consumed + Len(buf))
  BY DEF StreamInv
<1>2. total \in Nat
  <2>1. \A f \in firmware.traffic : f.len \in Nat
    BY TrafficIs DEF StreamInv
  <2>2. Ends(sent) \in [0 .. Len(sent) -> Nat] /\ Len(sent) \in 0 .. Len(sent)
    BY <1>1, <2>1, EndsIs
  <2> QED BY <2>2
<1>3. Len(buf) \in Nat /\ Len(wire) \in Nat
  BY <1>1 DEF Placed
<1>4. Placed(sent, buf', Consumed + take) /\ Len(buf') = Len(buf) - take
  BY <1>1, PlacedRest DEF Rest
<1>5. Consumed = total - Len(wire) - Len(buf) /\ Consumed' = total - Len(wire) - Len(buf')
  BY DEF Consumed
<1> HIDE DEF total
<1>6. Consumed' = Consumed + take
  BY <1>2, <1>3, <1>4, <1>5
<1>7. Consumed' \in Nat /\ Consumed' + Len(buf') = Consumed + Len(buf)
  BY <1>1, <1>3, <1>4, <1>6
<1> QED BY <1>1, <1>4, <1>6, <1>7

(* The frame after the first k.                                            *)
LEMMA NextFrame ==
  ASSUME StreamInv, NEW k \in 0 .. Len(sent)
  PROVE  /\ k \in Nat /\ Len(sent) \in Nat /\ Ends(sent)[k] \in Nat
         /\ k < Len(sent) =>
              /\ k + 1 \in 0 .. Len(sent) /\ sent[k + 1].len \in Nat /\ 0 <= PayloadCap(sent[k + 1])
              /\ PayloadCap(sent[k + 1]) \in Nat
              /\ FitsOn(firmware.panel, sent[k + 1]) <=> sent[k + 1].len <= PayloadCap(sent[k + 1])
              /\ Ends(sent)[k + 1] = Ends(sent)[k] + HeaderLen + sent[k + 1].len
              /\ FittingOn(firmware.panel, sent)[k + 1] =
                   IF FitsOn(firmware.panel, sent[k + 1])
                   THEN Append(FittingOn(firmware.panel, sent)[k], sent[k + 1])
                   ELSE FittingOn(firmware.panel, sent)[k]
<1>1. sent \in Seq(firmware.traffic) /\ Len(sent) \in Nat /\ firmware \in Firmwares
  BY DEF StreamInv
<1>2. \A f \in firmware.traffic : f.len \in Nat /\ PayloadCap(f) \in Nat
  BY <1>1, TrafficIs DEF PayloadCap
<1>3. /\ Ends(sent) \in [0 .. Len(sent) -> Nat]
      /\ \A n \in 1 .. Len(sent) : Ends(sent)[n] = Ends(sent)[n - 1] + HeaderLen + sent[n].len
  BY <1>1, <1>2, EndsIs
<1>4. \A n \in 1 .. Len(sent) :
        FittingOn(firmware.panel, sent)[n] = IF FitsOn(firmware.panel, sent[n])
                                             THEN Append(FittingOn(firmware.panel, sent)[n - 1], sent[n])
                                             ELSE FittingOn(firmware.panel, sent)[n - 1]
  BY <1>1, FittingOnIs
<1>5. k \in Nat /\ Ends(sent)[k] \in Nat
  BY <1>1, <1>3
<1>6. ASSUME k < Len(sent) PROVE /\ k + 1 \in 1 .. Len(sent) /\ k + 1 - 1 = k /\ k + 1 \in 0 .. Len(sent)
                                 /\ sent[k + 1] \in firmware.traffic
  <2>1. k + 1 \in 1 .. Len(sent) /\ k + 1 - 1 = k /\ k + 1 \in 0 .. Len(sent)
    BY <1>1, <1>5, <1>6
  <2> QED BY <1>1, <2>1, ElementOfSeq
<1>7. FitsOn(firmware.panel, sent[k + 1]) <=> sent[k + 1].len <= PayloadCap(sent[k + 1])
  BY DEF FitsOn, PayloadCap
<1>8. ASSUME k < Len(sent)
      PROVE  /\ Ends(sent)[k + 1] = Ends(sent)[k] + HeaderLen + sent[k + 1].len
             /\ FittingOn(firmware.panel, sent)[k + 1] =
                  IF FitsOn(firmware.panel, sent[k + 1])
                  THEN Append(FittingOn(firmware.panel, sent)[k], sent[k + 1])
                  ELSE FittingOn(firmware.panel, sent)[k]
  <2>1. k + 1 \in 1 .. Len(sent) /\ k + 1 - 1 = k
    BY <1>6, <1>8
  <2>2. Ends(sent)[k + 1] = Ends(sent)[k + 1 - 1] + HeaderLen + sent[k + 1].len
    BY <1>3, <2>1
  <2>3. FittingOn(firmware.panel, sent)[k + 1] =
          IF FitsOn(firmware.panel, sent[k + 1])
          THEN Append(FittingOn(firmware.panel, sent)[k + 1 - 1], sent[k + 1])
          ELSE FittingOn(firmware.panel, sent)[k + 1 - 1]
    BY <1>4, <2>1
  <2> QED BY <2>1, <2>2, <2>3
<1>9. ASSUME k < Len(sent)
      PROVE  sent[k + 1].len \in Nat /\ PayloadCap(sent[k + 1]) \in Nat /\ 0 <= PayloadCap(sent[k + 1])
  <2>1. sent[k + 1].len \in Nat /\ PayloadCap(sent[k + 1]) \in Nat
    BY <1>2, <1>6, <1>9
  <2> QED BY <2>1
<1> QED BY <1>1, <1>5, <1>6, <1>7, <1>8, <1>9

LEMMA DecodedIs ==
  ASSUME NEW k, NEW h, \A i \in 1 .. HeaderLen : h[i] = [frame |-> k + 1, at |-> i]
  PROVE  Decoded(h) = sent[k + 1]
<1>1. 1 \in 1 .. HeaderLen /\ h[1].frame = k + 1
  BY DEF HeaderLen
<1> QED BY <1>1 DEF Decoded

LEMMA LeastIs ==
  ASSUME NEW a \in Nat, NEW b \in Nat
  PROVE  Least(a, b) \in 0 .. a /\ Least(a, b) \in 0 .. b /\ (Least(a, b) = a \/ Least(a, b) = b)
BY DEF Least

LEMMA DiscardTurnKeeps ==
  ASSUME StreamInv, DiscardTurn
  PROVE  StreamInv'
<1> DEFINE take == Least(Len(buf), discard)
           e == Ends(sent)
<1>1. /\ discard > 0 /\ discard' = discard - take /\ buf' = Rest(take)
      /\ UNCHANGED <<firmware, sent, wire, header, target, filled, dispatched>>
  BY DEF DiscardTurn, ParserOnly, hostVars
<1>2. PICK k \in 0 .. Len(sent) : Midway(k)
  BY DEF StreamInv
<1>3. Skipping(k) /\ dispatched = FittingOn(firmware.panel, sent)[k]
  <2>1. ~ Between(k) /\ ~ Within(k)
    BY <1>1 DEF Between, Within
  <2> QED BY <1>2, <2>1 DEF Midway
<1>4. /\ k < Len(sent) /\ k + 1 \in 0 .. Len(sent) /\ k \in Nat /\ sent[k + 1].len \in Nat
      /\ FittingOn(firmware.panel, sent)[k + 1] = dispatched
  BY <1>3, NextFrame DEF Skipping
<1>5. discard \in 1 .. sent[k + 1].len /\ Consumed + discard = e[k + 1] /\ header = << >>
  BY <1>3 DEF Skipping
<1>6. Len(buf) \in Nat /\ discard \in Nat
  BY <1>4, <1>5 DEF StreamInv, Placed
<1>7. take \in 0 .. Len(buf) /\ take \in 0 .. discard
  BY <1>6, LeastIs
<1> HIDE DEF take
<1>8. /\ Consumed' = Consumed + take /\ Consumed' \in Nat /\ Consumed \in Nat
      /\ Placed(sent', buf', Consumed') /\ Placed(sent', wire', Consumed' + Len(buf'))
  BY <1>1, <1>7, TurnTakes DEF StreamInv
<1>9. Consumed' + discard' = e[k + 1]
  BY <1>1, <1>5, <1>6, <1>7, <1>8
<1>10. CASE discard' = 0
  <2>1. Between(k + 1)'
    <3>1. Consumed' = e[k + 1]
      BY <1>8, <1>9, <1>10
    <3> QED BY <1>1, <1>5, <1>8, <1>10, <3>1 DEF Between, HeaderLen
  <2>2. Midway(k + 1)'
    BY <1>1, <1>4, <2>1 DEF Midway
  <2>3. (\E m \in 0 .. Len(sent) : Midway(m))'
    BY <1>1, <1>4, <2>2
  <2> QED BY <1>1, <1>8, <2>3 DEF StreamInv
<1>11. CASE discard' # 0
  <2>1. discard' \in 1 .. sent[k + 1].len
    BY <1>1, <1>4, <1>5, <1>6, <1>7, <1>11
  <2>2. Skipping(k)'
    BY <1>1, <1>3, <1>9, <2>1 DEF Skipping
  <2>3. Midway(k)'
    BY <1>1, <1>3, <2>2 DEF Midway
  <2>4. (\E m \in 0 .. Len(sent) : Midway(m))'
    BY <1>1, <2>3
  <2> QED BY <1>1, <1>8, <2>4 DEF StreamInv
<1> QED BY <1>10, <1>11

LEMMA PayloadTurnKeeps ==
  ASSUME StreamInv, PayloadTurn
  PROVE  StreamInv'
<1> DEFINE take == Least(Len(buf), target - filled)
           e == Ends(sent)
<1>1. /\ Len(header) = HeaderLen /\ buf' = Rest(take)
      /\ UNCHANGED <<firmware, sent, wire, discard>>
  BY DEF PayloadTurn, hostVars
<1>2. \/ filled + take < target /\ filled' = filled + take /\ UNCHANGED <<header, target, dispatched>>
      \/ filled + take = target /\ dispatched' = Append(dispatched, Decoded(header)) /\ header' = << >>
  BY DEF PayloadTurn, Dispatch, ResetInboundFrame
<1>3. PICK k \in 0 .. Len(sent) : Midway(k)
  BY DEF StreamInv
<1>4. Within(k) /\ dispatched = FittingOn(firmware.panel, sent)[k]
  <2>1. ~ Between(k)
    BY <1>1 DEF Between, HeaderLen
  <2>2. ~ Skipping(k)
    <3> SUFFICES ASSUME header = << >> PROVE FALSE
      BY DEF Skipping
    <3>1. Len(header) = 0
      OBVIOUS
    <3> QED BY <1>1, <3>1 DEF HeaderLen
  <2> QED BY <1>3, <2>1, <2>2 DEF Midway
<1>5. /\ target = sent[k + 1].len /\ filled \in Nat /\ filled < target /\ discard = 0
      /\ Consumed = e[k] + HeaderLen + filled
  BY <1>4 DEF Within
<1>6. /\ k < Len(sent) /\ k + 1 \in 0 .. Len(sent) /\ k \in Nat /\ target \in Nat /\ e[k] \in Nat
      /\ FittingOn(firmware.panel, sent)[k + 1] = Append(dispatched, sent[k + 1])
      /\ e[k + 1] = e[k] + HeaderLen + target
  <2>1. k < Len(sent) /\ FitsOn(firmware.panel, sent[k + 1])
    BY <1>4 DEF Within
  <2> QED BY <1>4, <1>5, <2>1, NextFrame
<1>7. take \in 0 .. Len(buf) /\ take \in 0 .. (target - filled) /\ take \in Nat
  <2>1. Len(buf) \in Nat
    <3>1. buf \in Seq(Byte)
      BY DEF StreamInv, Placed
    <3> QED BY <3>1
  <2>2. target - filled \in Nat
    <3> HIDE DEF take, e
    <3> QED BY <1>5, <1>6
  <2> QED BY <2>1, <2>2, LeastIs
<1> HIDE DEF take, e
<1>8. /\ Consumed' = Consumed + take /\ Consumed' \in Nat /\ Consumed \in Nat
      /\ Placed(sent', buf', Consumed') /\ Placed(sent', wire', Consumed' + Len(buf'))
  BY <1>1, <1>7, TurnTakes DEF StreamInv
<1>9. CASE filled + take < target /\ filled' = filled + take /\ UNCHANGED <<header, target, dispatched>>
  <2>1. Consumed' = e[k] + HeaderLen + filled' /\ filled' \in Nat
    <3>1. e[k] \in Nat /\ filled \in Nat /\ take \in Nat
      BY <1>5, <1>6, <1>7
    <3>2. Consumed' = e[k] + HeaderLen + filled + take /\ filled' = filled + take
      BY <1>5, <1>8, <1>9
    <3> QED BY <3>1, <3>2 DEF HeaderLen
  <2>2. Within(k)'
    BY <1>1, <1>4, <1>9, <2>1 DEF Within, e
  <2>3. Midway(k)'
    BY <1>1, <1>4, <1>9, <2>2 DEF Midway
  <2>4. (\E m \in 0 .. Len(sent) : Midway(m))'
    BY <1>1, <2>3
  <2> QED BY <1>1, <1>8, <1>9, <2>4 DEF StreamInv
<1>10. CASE /\ filled + take = target /\ dispatched' = Append(dispatched, Decoded(header))
            /\ header' = << >>
  <2>1. Consumed' = e[k + 1]
    <3>1. e[k] \in Nat /\ filled \in Nat /\ take \in Nat
      BY <1>5, <1>6, <1>7
    <3>2. Consumed' = e[k] + HeaderLen + filled + take /\ e[k + 1] = e[k] + HeaderLen + (filled + take)
      BY <1>5, <1>6, <1>8, <1>10
    <3> QED BY <3>1, <3>2 DEF HeaderLen
  <2>2. dispatched' = FittingOn(firmware.panel, sent)[k + 1]
    <3>1. \A i \in 1 .. HeaderLen : header[i] = [frame |-> k + 1, at |-> i]
      BY <1>4 DEF Within
    <3>2. Decoded(header) = sent[k + 1]
      BY <3>1, DecodedIs
    <3> QED BY <1>6, <1>10, <3>2
  <2>3. Between(k + 1)'
    BY <1>1, <1>5, <1>8, <1>10, <2>1 DEF Between, HeaderLen, e
  <2>4. Midway(k + 1)'
    BY <1>1, <2>2, <2>3 DEF Midway
  <2>5. (\E m \in 0 .. Len(sent) : Midway(m))'
    BY <1>1, <1>6, <2>4
  <2> QED BY <1>1, <1>8, <1>10, <2>5 DEF StreamInv
<1> QED BY <1>2, <1>9, <1>10

LEMMA HeaderTurnKeeps ==
  ASSUME StreamInv, HeaderTurn
  PROVE  StreamInv'
<1> DEFINE have == Len(header)
           take == Least(Len(buf), HeaderLen - have)
           h == header \o SubSeq(buf, 1, take)
           e == Ends(sent)
<1>1. /\ buf # << >> /\ discard = 0 /\ have < HeaderLen /\ buf' = Rest(take)
      /\ UNCHANGED <<firmware, sent, wire>>
  BY DEF HeaderTurn, Parsing, hostVars
<1>2. \/ Len(h) < HeaderLen /\ header' = h /\ UNCHANGED <<discard, dispatched>>
      \/ /\ Len(h) = HeaderLen /\ Decoded(h).len > PayloadCap(Decoded(h))
         /\ discard' = Decoded(h).len /\ header' = << >> /\ dispatched' = dispatched
      \/ /\ Len(h) = HeaderLen /\ Decoded(h).len = 0
         /\ dispatched' = Append(dispatched, Decoded(h)) /\ header' = << >> /\ discard' = discard
      \/ /\ Len(h) = HeaderLen /\ Decoded(h).len \in 1 .. PayloadCap(Decoded(h))
         /\ header' = h /\ target' = Decoded(h).len /\ filled' = 0 /\ UNCHANGED <<discard, dispatched>>
  BY DEF HeaderTurn, Dispatch, ResetInboundFrame
<1>3. PICK k \in 0 .. Len(sent) : Midway(k)
  BY DEF StreamInv
<1>4. Between(k) /\ dispatched = FittingOn(firmware.panel, sent)[k]
  <2>1. ~ Within(k)
    BY <1>1 DEF Within, HeaderLen
  <2>2. ~ Skipping(k)
    <3> SUFFICES ASSUME k < Len(sent), discard \in 1 .. sent[k + 1].len PROVE FALSE
      BY DEF Skipping
    <3> QED BY <1>1, NextFrame
  <2> QED BY <1>3, <2>1, <2>2 DEF Midway
<1>5. /\ header \in Seq(Byte) /\ buf \in Seq(Byte) /\ have \in Nat /\ Len(buf) \in Nat /\ Len(buf) > 0
      /\ Consumed \in Nat /\ Placed(sent, buf, Consumed)
  BY <1>1 DEF StreamInv, Placed
<1>6. take \in 1 .. Len(buf) /\ take \in 0 .. Len(buf) /\ take \in 0 .. (HeaderLen - have) /\ take \in Nat
  <2>1. HeaderLen - have \in Nat /\ HeaderLen - have > 0
    BY <1>1, <1>5 DEF HeaderLen
  <2> HIDE DEF have
  <2>2. take \in 0 .. Len(buf) /\ take \in 0 .. (HeaderLen - have) /\ (take = Len(buf) \/ take = HeaderLen - have)
    BY <1>5, <2>1, LeastIs
  <2> QED BY <1>5, <2>1, <2>2
<1> HIDE DEF take
<1>7. /\ Consumed' = Consumed + take /\ Consumed' \in Nat
      /\ Placed(sent', buf', Consumed') /\ Placed(sent', wire', Consumed' + Len(buf'))
  BY <1>1, <1>6, TurnTakes
<1>8. /\ h \in Seq(Byte) /\ Len(h) = have + take
      /\ \A i \in 1 .. Len(h) : h[i] = IF i <= have THEN header[i] ELSE buf[i - have]
  <2> DEFINE first == SubSeq(buf, 1, take)
  <2>1. first \in Seq(Byte) /\ Len(first) = take /\ \A i \in 1 .. take : first[i] = buf[i]
    BY <1>5, <1>6
  <2> HIDE DEF first
  <2>2. /\ header \o first \in Seq(Byte) /\ Len(header \o first) = have + take
        /\ \A i \in 1 .. (have + take) :
             (header \o first)[i] = IF i <= have THEN header[i] ELSE first[i - have]
    BY <1>5, <2>1, ConcatProperties
  <2>3. \A i \in 1 .. (have + take) : ~ (i <= have) => i - have \in 1 .. take
    BY <1>5, <1>6
  <2> QED BY <2>1, <2>2, <2>3 DEF first
<1> HIDE DEF h
<1>9. have + take <= HeaderLen /\ Consumed = e[k] + have /\ e[k] \in Nat /\ k \in Nat
  BY <1>4, <1>5, <1>6, NextFrame DEF Between, HeaderLen
<1>10. ASSUME NEW i \in 1 .. take PROVE k < Len(sent) /\ buf[i] = [frame |-> k + 1, at |-> have + i]
  <2>1. i \in 1 .. Len(buf) /\ buf[i] \in Byte /\ Located(sent, buf[i], Consumed + i)
    BY <1>5, <1>6 DEF Placed
  <2>2. have + i \in 1 .. HeaderLen /\ Consumed + i = e[k] + (have + i)
    BY <1>5, <1>6, <1>9, SMTT(30) DEF HeaderLen
  <2>3. sent \in Seq(firmware.traffic) /\ \A f \in firmware.traffic : f.len \in Nat
    BY TrafficIs DEF StreamInv
  <2>4. Located(sent, buf[i], e[k] + (have + i))
    BY <2>1, <2>2
  <2> QED BY <2>1, <2>2, <2>3, <2>4, HeaderByte
<1>11. k < Len(sent)
  <2>1. 1 \in 1 .. take
    BY <1>6
  <2> QED BY <1>10, <2>1
<1>12. ASSUME NEW i \in 1 .. Len(h) PROVE h[i] = [frame |-> k + 1, at |-> i]
  <2>1. CASE i <= have
    <3>1. i \in 1 .. have
      BY <1>5, <2>1
    <3>2. header[i] = [frame |-> k + 1, at |-> i]
      BY <1>4, <3>1 DEF Between
    <3> QED BY <1>8, <2>1, <3>2
  <2>2. CASE ~ (i <= have)
    <3>1. i - have \in 1 .. take /\ have + (i - have) = i
      BY <1>5, <1>6, <1>8, <2>2
    <3>2. buf[i - have] = [frame |-> k + 1, at |-> have + (i - have)]
      BY <1>10, <3>1
    <3> QED BY <1>8, <2>2, <3>1, <3>2
  <2> QED BY <2>1, <2>2
<1> DEFINE f == sent[k + 1]
<1>13. /\ k + 1 \in 0 .. Len(sent) /\ f.len \in Nat /\ PayloadCap(f) \in Nat
       /\ FitsOn(firmware.panel, f) <=> f.len <= PayloadCap(f)
       /\ e[k + 1] = e[k] + HeaderLen + f.len
       /\ FittingOn(firmware.panel, sent)[k + 1] =
            IF FitsOn(firmware.panel, f) THEN Append(dispatched, f) ELSE dispatched
  BY <1>4, <1>11, NextFrame
<1>14. Len(h) = HeaderLen => Decoded(h) = f /\ Consumed' = e[k] + HeaderLen
  <2> SUFFICES ASSUME Len(h) = HeaderLen PROVE Decoded(h) = f /\ Consumed' = e[k] + HeaderLen
    OBVIOUS
  <2>1. \A i \in 1 .. HeaderLen : h[i] = [frame |-> k + 1, at |-> i]
    BY <1>12
  <2>2. Decoded(h) = f
    BY <2>1, DecodedIs
  <2>3. have + take = HeaderLen
    BY <1>8
  <2>4. have \in Nat /\ take \in Nat /\ e[k] \in Nat /\ Consumed' = e[k] + have + take
    BY <1>5, <1>6, <1>7, <1>9
  <2>5. Consumed' = e[k] + HeaderLen
    BY <2>3, <2>4
  <2> QED BY <2>2, <2>5
<1>15. CASE Len(h) < HeaderLen /\ header' = h /\ UNCHANGED <<discard, dispatched>>
  <2>1. Consumed' = e[k] + Len(h)
    BY <1>5, <1>6, <1>7, <1>8, <1>9
  <2>2. Between(k)'
    BY <1>1, <1>12, <1>15, <2>1 DEF Between
  <2>3. Midway(k)'
    BY <1>1, <1>4, <1>15, <2>2 DEF Midway
  <2>4. (\E m \in 0 .. Len(sent) : Midway(m))'
    BY <1>1, <2>3
  <2> QED BY <1>1, <1>7, <1>8, <1>15, <2>4 DEF StreamInv
<1>16. CASE /\ Len(h) = HeaderLen /\ Decoded(h).len > PayloadCap(Decoded(h))
            /\ discard' = Decoded(h).len /\ header' = << >> /\ dispatched' = dispatched
  <2>1. discard' = f.len /\ f.len > PayloadCap(f)
    BY <1>14, <1>16
  <2>2. ~ FitsOn(firmware.panel, f) /\ discard' \in 1 .. f.len /\ Consumed' + discard' = e[k + 1]
    <3> HIDE DEF f
    <3> QED BY <1>9, <1>13, <1>14, <1>16, <2>1 DEF HeaderLen
  <2>3. Skipping(k)'
    BY <1>1, <1>11, <1>16, <2>2 DEF Skipping
  <2>4. Midway(k)'
    BY <1>1, <1>4, <1>16, <2>3 DEF Midway
  <2>5. (\E m \in 0 .. Len(sent) : Midway(m))'
    BY <1>1, <2>4
  <2> QED BY <1>1, <1>7, <1>16, <2>5 DEF StreamInv
<1>17. CASE /\ Len(h) = HeaderLen /\ Decoded(h).len = 0
            /\ dispatched' = Append(dispatched, Decoded(h)) /\ header' = << >> /\ discard' = discard
  <2>1. f.len = 0 /\ dispatched' = Append(dispatched, f)
    BY <1>14, <1>17
  <2>2. FitsOn(firmware.panel, f) /\ Consumed' = e[k + 1]
    <3> HIDE DEF f
    <3> QED BY <1>9, <1>13, <1>14, <1>17, <2>1 DEF HeaderLen
  <2>3. Between(k + 1)'
    BY <1>1, <1>7, <1>17, <2>2 DEF Between, HeaderLen
  <2>4. Midway(k + 1)'
    BY <1>1, <1>13, <2>1, <2>2, <2>3 DEF Midway
  <2>5. (\E m \in 0 .. Len(sent) : Midway(m))'
    BY <1>1, <1>13, <2>4
  <2> QED BY <1>1, <1>7, <1>17, <2>5 DEF StreamInv
<1>18. CASE /\ Len(h) = HeaderLen /\ Decoded(h).len \in 1 .. PayloadCap(Decoded(h))
            /\ header' = h /\ target' = Decoded(h).len /\ filled' = 0 /\ UNCHANGED <<discard, dispatched>>
  <2>1. f.len \in 1 .. PayloadCap(f) /\ target' = f.len
    BY <1>14, <1>18
  <2>2. FitsOn(firmware.panel, f) /\ filled' < target' /\ filled' \in Nat /\ Consumed' = e[k] + HeaderLen + filled'
    <3> HIDE DEF f
    <3> QED BY <1>9, <1>13, <1>14, <1>18, <2>1 DEF HeaderLen
  <2>3. Within(k)'
    BY <1>1, <1>11, <1>12, <1>18, <2>1, <2>2 DEF Within
  <2>4. Midway(k)'
    BY <1>1, <1>4, <1>18, <2>3 DEF Midway
  <2>5. (\E m \in 0 .. Len(sent) : Midway(m))'
    BY <1>1, <2>4
  <2> QED BY <1>1, <1>7, <1>8, <1>18, <2>5 DEF StreamInv
<1> QED BY <1>2, <1>15, <1>16, <1>17, <1>18

LEMMA StreamStep == StreamInv /\ [LinkNext]_linkVars => StreamInv'
<1> SUFFICES ASSUME StreamInv, [LinkNext]_linkVars PROVE StreamInv'
  OBVIOUS
<1>1. CASE \E f \in firmware.traffic : HostSends(f)
  BY <1>1, HostSendsKeeps
<1>2. CASE Reconnect
  BY <1>2, ReconnectKeeps
<1>3. CASE ReadChunk
  BY <1>3, ReadChunkKeeps
<1>4. CASE DiscardTurn
  BY <1>4, DiscardTurnKeeps
<1>5. CASE HeaderTurn
  BY <1>5, HeaderTurnKeeps
<1>6. CASE PayloadTurn
  BY <1>6, PayloadTurnKeeps
<1> DEFINE Stays == UNCHANGED <<firmware, hostVars, inbound>>
<1>7. CASE \/ AskConsole \/ AskDebug \/ DeliverConsole \/ DeliverRequest \/ ConsoleTimer \/ PrintConsole
           \/ FreeConsole \/ PollDebug \/ TakeDebug \/ FreeDebug \/ SendHeader \/ SendPayload
           \/ InjectTouches \/ QueueButton \/ ReadBits \/ SetBits \/ ReadEvents \/ SetEvents
  <2>1. MainOnly
    BY <1>7 DEF AskConsole, AskDebug, Ask, DeliverConsole, DeliverRequest, Deliver, ConsoleTimer, PrintConsole,
                FreeConsole, PollDebug, TakeDebug, FreeDebug, SendHeader, SendPayload, InjectTouches, QueueButton,
                ReadBits, SetBits, ReadEvents, SetEvents
  <2>2. Stays
    BY <2>1 DEF MainOnly
  <2> QED BY <2>2, StreamStays DEF hostVars, inbound
<1>8. CASE Firmware \/ BusyTimer
  <2>1. CpuOnly \/ InputOnly \/ DisplayOnly
    BY <1>8 DEF Firmware, BusyTimer, SeesRequest, ReadsLength, ReadsData, FreesRequest, WritesAnswer, RaisesAnswer,
                TouchRead, ButtonRead, I2cPointer, I2cBeginRead, I2cEndRead, SwapsEdges, LoadsEdges, StoresEdges,
                SpiTransaction, ResetPin, Exports, PublishFramebuffer, PublishDirect, EndPublish
  <2>2. Stays
    BY <2>1 DEF CpuOnly, InputOnly, DisplayOnly
  <2> QED BY <2>2, StreamStays DEF hostVars, inbound
<1>9. CASE UNCHANGED linkVars
  BY <1>9, StreamStays DEF linkVars, hostVars, inbound
<1> QED BY <1>1, <1>2, <1>3, <1>4, <1>5, <1>6, <1>7, <1>8, <1>9 DEF LinkNext, MainThread

LEMMA StreamInOrder == StreamInv => InOrder
<1> SUFFICES ASSUME StreamInv PROVE InOrder
  OBVIOUS
<1> DEFINE N == Len(sent)
           e == Ends(sent)
           Whole(n) == e[n] <= Consumed /\ (n < N => e[n + 1] > Consumed)
<1>1. PICK k \in 0..N : Midway(k)
  BY DEF StreamInv
<1>2. sent \in Seq(firmware.traffic) /\ N \in Nat /\ Consumed \in Nat /\ \A f \in firmware.traffic : f.len \in Nat
  BY TrafficIs DEF StreamInv
<1>3. e \in [0..N -> Nat] /\ \A a, b \in 0..N : a < b => e[a] + HeaderLen <= e[b]
  BY <1>2, EndsIs, EndsGrow
<1>4. /\ e[k] \in Nat /\ k \in Nat
      /\ k < N => /\ k + 1 \in 0..N /\ sent[k + 1].len \in Nat
                  /\ e[k + 1] = e[k] + HeaderLen + sent[k + 1].len
  BY NextFrame
<1>5. Whole(k)
  <2>1. CASE Between(k)
    <3>1. Consumed = e[k] + Len(header) /\ Len(header) \in Nat /\ Len(header) < HeaderLen
      BY <2>1 DEF Between, StreamInv
    <3> HIDE DEF e
    <3> QED BY <1>2, <1>4, <3>1 DEF HeaderLen
  <2>2. CASE Within(k)
    <3>1. /\ Consumed = e[k] + HeaderLen + filled /\ filled \in Nat /\ filled < sent[k + 1].len /\ k < N
      BY <2>2 DEF Within
    <3> HIDE DEF e
    <3> QED BY <1>2, <1>4, <3>1, SMTT(30) DEF HeaderLen
  <2>3. CASE Skipping(k)
    <3>1. Consumed + discard = e[k + 1] /\ discard \in 1 .. sent[k + 1].len /\ k < N
      BY <2>3 DEF Skipping
    <3> HIDE DEF e
    <3> QED BY <1>2, <1>4, <3>1, SMTT(30) DEF HeaderLen
  <2> QED BY <1>1, <2>1, <2>2, <2>3 DEF Midway
<1>6. ASSUME NEW n \in 0..N, Whole(n) PROVE n = k
  <2> HIDE DEF e
  <2>1. n \in Nat /\ e[n] \in Nat
    BY <1>2, <1>3
  <2>2. ~ (n < k)
    <3> SUFFICES ASSUME n < k PROVE FALSE
      OBVIOUS
    <3>1. n < N /\ n + 1 \in 0..N /\ e[n + 1] \in Nat /\ (n + 1 = k \/ n + 1 < k)
      BY <1>2, <1>3, <1>4, <2>1
    <3>2. e[n + 1] <= e[k]
      BY <1>3, <1>4, <3>1 DEF HeaderLen
    <3> QED BY <1>2, <1>4, <1>5, <1>6, <3>1, <3>2
  <2>3. ~ (k < n)
    <3> SUFFICES ASSUME k < n PROVE FALSE
      OBVIOUS
    <3>1. k < N /\ k + 1 \in 0..N /\ e[k + 1] \in Nat /\ (k + 1 = n \/ k + 1 < n)
      BY <1>2, <1>3, <1>4, <2>1
    <3>2. e[k + 1] <= e[n]
      BY <1>3, <2>1, <3>1 DEF HeaderLen
    <3> QED BY <1>2, <1>5, <1>6, <2>1, <3>1, <3>2
  <2> QED BY <1>4, <2>1, <2>2, <2>3
<1>7. WholeFrames = k
  <2>1. WholeFrames = CHOOSE n \in 0..N : Whole(n)
    BY DEF WholeFrames
  <2> HIDE DEF Whole
  <2> QED BY <1>1, <1>5, <1>6, <2>1
<1>8. dispatched = Fitting(sent)[k]
  BY <1>1, FittingIsOn DEF Midway
<1> QED BY <1>7, <1>8 DEF InOrder

(* What is handed over is what arrived whole and fits, in order.           *)
THEOREM FramesInOrder == LinkSpec => []InOrder
<1> QED BY StreamInit, StreamStep, StreamInOrder, PTL DEF LinkSpec

----------------------------------------------------------------------------
(* The panel: what a command, its data and the pins leave true of it.      *)
PanelFields == {"kind", "dc", "held", "timer", "fb", "mode", "cmd", "args", "x", "y", "xs", "xe", "ys", "ye",
                "entry", "index", "busy"}
Sane(p, kind) ==
  /\ DOMAIN p = PanelFields /\ p.kind = kind
  /\ p.busy => p.timer # "none"
  /\ p.x \in Int /\ p.y \in Int /\ p.xs \in Int /\ p.xe \in Int /\ p.ys \in Int /\ p.ye \in Int
  /\ p.mode = "args" => ArgumentsOf(kind, p.cmd) > 0
  /\ p.mode = "args" /\ p.cmd \in Coordinates => p.args \in Seq(Int)

LEMMA ResetIsSane ==
  ASSUME NEW kind, NEW p, DOMAIN p = PanelFields, p.kind = kind
  PROVE  LET r == ResetState(p)
         IN /\ Sane(r, kind) /\ DOMAIN r = PanelFields /\ r.held = p.held /\ r.dc = p.dc /\ r.timer = p.timer
            /\ r.fb = p.fb
<1>1. Cols - 1 \in Int /\ Rows - 1 \in Int /\ 0 \in Int
  BY PanelAssumption
<1> DEFINE r == ResetState(p)
<1>2. /\ DOMAIN r = PanelFields /\ r.kind = p.kind /\ r.dc = p.dc /\ r.held = p.held /\ r.timer = p.timer
      /\ r.fb = p.fb /\ r.mode = "idle" /\ r.x = 0 /\ r.y = 0 /\ r.xs = 0 /\ r.xe = Cols - 1
      /\ r.ys = 0 /\ r.ye = Rows - 1 /\ r.busy = FALSE
  BY DEF ResetState, PanelFields
<1> HIDE DEF r
<1>3. Sane(r, kind)
  BY <1>1, <1>2 DEF Sane
<1> QED BY <1>2, <1>3 DEF r

LEMMA PointerIsSane ==
  ASSUME NEW kind, NEW p, Sane(p, kind), NEW value
  PROVE  LET r == WriteRam(p, value)
         IN Sane(r, kind) /\ r.cmd = p.cmd /\ r.dc = p.dc /\ r.held = p.held
<1> DEFINE Alike(r) == /\ DOMAIN r = PanelFields /\ r.kind = p.kind /\ r.dc = p.dc /\ r.held = p.held
                       /\ r.timer = p.timer /\ r.mode = p.mode /\ r.cmd = p.cmd /\ r.args = p.args
                       /\ r.busy = p.busy /\ r.entry = p.entry
                       /\ r.xs = p.xs /\ r.xe = p.xe /\ r.ys = p.ys /\ r.ye = p.ye
           Points(r) == r.x \in Int /\ r.y \in Int
<1>1. Alike(p) /\ Points(p)
  BY DEF Sane
<1>2. ASSUME NEW q, Alike(q), Points(q), NEW cell PROVE Alike(Ink(q, cell, value)) /\ Points(Ink(q, cell, value))
  <2>1. CASE Ink(q, cell, value) = q
    BY <1>2, <2>1
  <2>2. CASE Ink(q, cell, value) = [q EXCEPT !.fb = [q.fb EXCEPT ![cell] = value]]
    BY <1>2, <2>2 DEF PanelFields
  <2> QED BY <2>1, <2>2 DEF Ink
<1>3. ASSUME NEW q, Alike(q), Points(q) PROVE /\ Alike(StepX(q)) /\ Points(StepX(q))
                                             /\ Alike(StepY(q)) /\ Points(StepY(q))
  <2>1. NextX(q) \in Int /\ NextY(q) \in Int /\ q.xs \in Int /\ q.ys \in Int
    BY <1>3 DEF NextX, NextY, Sane
  <2>2. Alike(StepX(q)) /\ Points(StepX(q))
    BY <1>3, <2>1 DEF StepX, PanelFields
  <2>3. Alike(StepY(q)) /\ Points(StepY(q))
    BY <1>3, <2>1 DEF StepY, PanelFields
  <2> QED BY <2>2, <2>3
<1>4. ASSUME NEW q, Alike(q), Points(q) PROVE Alike(AdvancePointer(q)) /\ Points(AdvancePointer(q))
  <2>1. q.xs \in Int /\ q.ys \in Int
    BY <1>4 DEF Sane
  <2>2. Alike([StepX(q) EXCEPT !.y = q.ys]) /\ Points([StepX(q) EXCEPT !.y = q.ys])
    <3> DEFINE r == StepX(q)
    <3>1. Alike(r) /\ Points(r)
      BY <1>3, <1>4
    <3> HIDE DEF r
    <3>2. Alike([r EXCEPT !.y = q.ys]) /\ Points([r EXCEPT !.y = q.ys])
      BY <2>1, <3>1 DEF PanelFields
    <3> QED BY <3>2 DEF r
  <2>3. Alike([StepY(q) EXCEPT !.x = q.xs]) /\ Points([StepY(q) EXCEPT !.x = q.xs])
    <3> DEFINE r == StepY(q)
    <3>1. Alike(r) /\ Points(r)
      BY <1>3, <1>4
    <3> HIDE DEF r
    <3>2. Alike([r EXCEPT !.x = q.xs]) /\ Points([r EXCEPT !.x = q.xs])
      BY <2>1, <3>1 DEF PanelFields
    <3> QED BY <3>2 DEF r
  <2>4. Alike(StepX(q)) /\ Points(StepX(q)) /\ Alike(StepY(q)) /\ Points(StepY(q))
    BY <1>3, <1>4
  <2>5. AdvancePointer(q) \in {[StepX(q) EXCEPT !.y = q.ys], StepY(q), [StepY(q) EXCEPT !.x = q.xs], StepX(q)}
    BY DEF AdvancePointer
  <2> HIDE DEF Alike, Points
  <2> QED BY <2>2, <2>3, <2>4, <2>5
<1>5. ASSUME NEW q, Alike(q), Points(q)
      PROVE  Alike([q EXCEPT !.index = @ + 1]) /\ Points([q EXCEPT !.index = @ + 1])
  BY <1>5 DEF PanelFields
<1> DEFINE r == WriteRam(p, value)
<1>6. Alike(r) /\ Points(r)
  <2> HIDE DEF Alike, Points
  <2>1. CASE p.kind = "ssd1677"
    <3>1. r = AdvancePointer(IF p.cmd = "ram" THEN Ink(p, <<p.y, p.x>>, value) ELSE p)
      BY <2>1 DEF WriteRam
    <3> QED BY <1>1, <1>2, <1>4, <3>1
  <2>2. CASE p.kind # "ssd1677"
    <3>1. r = [(IF p.cmd = "ram" THEN Ink(p, CellOfIndex(p.index), value) ELSE p) EXCEPT !.index = @ + 1]
      BY <2>2 DEF WriteRam
    <3> QED BY <1>1, <1>2, <1>5, <3>1
  <2> QED BY <2>1, <2>2
<1> HIDE DEF r
<1>7. Sane(r, kind)
  BY <1>6 DEF Sane
<1> QED BY <1>6, <1>7 DEF r

(* BUSY goes up with a timer and comes down with it.                       *)
LEMMA BusyIsSane ==
  ASSUME NEW kind, NEW p, Sane(p, kind), NEW delay \in {"short", "refresh"}
  PROVE  /\ Sane(BusyFor(p, delay), kind) /\ BusyFor(p, delay).cmd = p.cmd /\ BusyFor(p, delay).dc = p.dc
         /\ BusyFor(p, delay).held = p.held
         /\ Sane(BusyEnds(p), kind)
BY DEF BusyFor, BusyEnds, Sane, PanelFields

LEMMA CommandIsSane ==
  ASSUME NEW kind, NEW p, Sane(p, kind), NEW cmd
  PROVE  LET r == Command(p, cmd)
         IN Sane(r, kind) /\ r.cmd \in {cmd, "none"} /\ r.dc = p.dc /\ r.held = p.held
<1> DEFINE q == [p EXCEPT !.cmd = cmd, !.args = << >>]
           r == Command(p, cmd)
           Good(s) == Sane(s, kind) /\ s.cmd \in {cmd, "none"} /\ s.dc = p.dc /\ s.held = p.held
<1>1. /\ DOMAIN q = PanelFields /\ q.kind = kind /\ q.cmd = cmd /\ q.args = << >> /\ q.dc = p.dc /\ q.held = p.held
      /\ q.busy = p.busy /\ q.timer = p.timer
      /\ q.x \in Int /\ q.y \in Int /\ q.xs \in Int /\ q.xe \in Int /\ q.ys \in Int /\ q.ye \in Int
  BY DEF Sane, PanelFields
<1>2. << >> \in Seq(Int) /\ p.kind = kind /\ (p.busy => p.timer # "none")
  BY DEF Sane
<1> HIDE DEF q
<1>3. Good([q EXCEPT !.mode = "ram", !.index = 0]) /\ Good([q EXCEPT !.mode = "lut"])
  BY <1>1, <1>2 DEF Sane, PanelFields
<1>4. ArgumentsOf(kind, cmd) > 0 => Good([q EXCEPT !.mode = "args"])
  BY <1>1, <1>2 DEF Sane, PanelFields
<1>5. Good(WithoutArguments([q EXCEPT !.mode = "idle"], cmd))
  <2> DEFINE s == [q EXCEPT !.mode = "idle"]
  <2>1. /\ DOMAIN s = PanelFields /\ s.kind = kind /\ s.mode = "idle" /\ Good(s)
    BY <1>1, <1>2 DEF Sane, PanelFields
  <2> HIDE DEF s
  <2> DEFINE t == ResetState([s EXCEPT !.fb = Blank])
  <2>2. Sane(t, kind) /\ t.dc = p.dc /\ t.held = p.held /\ t.cmd = "none"
    <3> DEFINE u == [s EXCEPT !.fb = Blank]
    <3>1. DOMAIN u = PanelFields /\ u.kind = kind /\ u.dc = p.dc /\ u.held = p.held
      BY <2>1 DEF PanelFields
    <3> HIDE DEF u
    <3>2. ResetState(u).cmd = "none"
      BY <3>1 DEF ResetState, PanelFields
    <3>3. Sane(ResetState(u), kind) /\ ResetState(u).dc = p.dc /\ ResetState(u).held = p.held
      BY <3>1, ResetIsSane
    <3> QED BY <3>2, <3>3 DEF u
  <2> HIDE DEF t
  <2>4. Good(BusyFor(t, "short"))
    BY <2>2, BusyIsSane
  <2>5. Good(BusyFor(s, "short")) /\ Good(BusyFor(s, "refresh"))
    BY <2>1, BusyIsSane
  <2>6. WithoutArguments(s, cmd) \in {BusyFor(t, "short"), BusyFor(s, "refresh"), BusyFor(s, "short"), s}
    BY DEF WithoutArguments, t
  <2> HIDE DEF Good
  <2>7. Good(WithoutArguments(s, cmd))
    BY <2>1, <2>4, <2>5, <2>6
  <2> QED BY <2>7 DEF s
<1>6. \/ r = [q EXCEPT !.mode = "ram", !.index = 0]
      \/ r = [q EXCEPT !.mode = "lut"]
      \/ r = [q EXCEPT !.mode = "args"] /\ ArgumentsOf(kind, cmd) > 0
      \/ r = WithoutArguments([q EXCEPT !.mode = "idle"], cmd)
  BY <1>2 DEF Command, q
<1> HIDE DEF r
<1>7. Good(r)
  <2> HIDE DEF Good
  <2> QED BY <1>3, <1>4, <1>5, <1>6
<1> QED BY <1>7 DEF r

LEMMA DataIsSane ==
  ASSUME NEW kind, NEW p, Sane(p, kind), NEW value, p.cmd \in Coordinates => value \in Int
  PROVE  LET r == Data(p, value)
         IN Sane(r, kind) /\ r.cmd = p.cmd /\ r.dc = p.dc /\ r.held = p.held
<1> DEFINE Good(s) == Sane(s, kind) /\ s.cmd = p.cmd /\ s.dc = p.dc /\ s.held = p.held
<1>1. CASE p.mode = "args"
  <2> DEFINE q == [p EXCEPT !.args = Append(@, value)]
             n == ArgumentsOf(kind, p.cmd)
  <2>1. /\ DOMAIN q = PanelFields /\ q.kind = kind /\ q.cmd = p.cmd /\ q.args = Append(p.args, value)
        /\ q.mode = p.mode /\ q.dc = p.dc /\ q.held = p.held /\ q.busy = p.busy /\ q.timer = p.timer
        /\ q.x = p.x /\ q.y = p.y /\ q.xs = p.xs /\ q.xe = p.xe /\ q.ys = p.ys /\ q.ye = p.ye
    BY DEF Sane, PanelFields
  <2>2. n > 0 /\ p.kind = kind
    BY <1>1 DEF Sane
  <2>3. p.cmd \in Coordinates => q.args \in Seq(Int)
    BY <1>1, <2>1 DEF Sane
  <2>4. Good(q)
    BY <2>1, <2>2, <2>3 DEF Sane
  <2>5. Data(p, value) = IF Len(q.args) >= n THEN [ApplyArguments(q) EXCEPT !.mode = "idle"] ELSE q
    BY <1>1, <2>2 DEF Data, Sane
  <2> HIDE DEF q
  <2>6. ASSUME Len(q.args) >= n PROVE Good(ApplyArguments(q))
    <3> DEFINE args == q.args
    <3>1. p.cmd \in {"x_window", "y_window"} => args[1] \in Int /\ args[2] \in Int
      <4> SUFFICES ASSUME p.cmd \in {"x_window", "y_window"} PROVE args[1] \in Int /\ args[2] \in Int
        OBVIOUS
      <4>1. n = 2
        BY <2>2 DEF ArgumentsOf
      <4>2. args \in Seq(Int) /\ Len(args) >= 2
        BY <2>3, <2>6, <4>1 DEF Coordinates
      <4> HIDE DEF args
      <4> QED BY <4>2
    <3>2. p.cmd \in {"x_counter", "y_counter"} => args[1] \in Int
      <4> SUFFICES ASSUME p.cmd \in {"x_counter", "y_counter"} PROVE args[1] \in Int
        OBVIOUS
      <4>1. n = 1
        BY <2>2 DEF ArgumentsOf
      <4>2. args \in Seq(Int) /\ Len(args) >= 1
        BY <2>3, <2>6, <4>1 DEF Coordinates
      <4> HIDE DEF args
      <4> QED BY <4>2
    <3>3. q.cmd = "x_window" => Good([q EXCEPT !.xs = args[1], !.xe = args[2]])
      BY <2>1, <2>4, <3>1 DEF Sane, PanelFields
    <3>4. q.cmd = "y_window" => Good([q EXCEPT !.ys = args[1], !.ye = args[2]])
      BY <2>1, <2>4, <3>1 DEF Sane, PanelFields
    <3>5. q.cmd = "x_counter" => Good([q EXCEPT !.x = args[1]])
      BY <2>1, <2>4, <3>2 DEF Sane, PanelFields
    <3>6. q.cmd = "y_counter" => Good([q EXCEPT !.y = args[1]])
      BY <2>1, <2>4, <3>2 DEF Sane, PanelFields
    <3>7. Good([q EXCEPT !.entry = args[1]]) /\ Good([q EXCEPT !.fb = [c \in Cells |-> args[1]]])
      BY <2>1, <2>4 DEF Sane, PanelFields
    <3>8. Good(BusyFor(q, "refresh"))
      BY <2>4, BusyIsSane
    <3>9. \/ ApplyArguments(q) = [q EXCEPT !.xs = args[1], !.xe = args[2]] /\ q.cmd = "x_window"
          \/ ApplyArguments(q) = [q EXCEPT !.ys = args[1], !.ye = args[2]] /\ q.cmd = "y_window"
          \/ ApplyArguments(q) = [q EXCEPT !.x = args[1]] /\ q.cmd = "x_counter"
          \/ ApplyArguments(q) = [q EXCEPT !.y = args[1]] /\ q.cmd = "y_counter"
          \/ ApplyArguments(q) \in {[q EXCEPT !.entry = args[1]], [q EXCEPT !.fb = [c \in Cells |-> args[1]]],
                                    BusyFor(q, "refresh"), q}
      BY DEF ApplyArguments
    <3> HIDE DEF Good
    <3> QED BY <2>4, <3>3, <3>4, <3>5, <3>6, <3>7, <3>8, <3>9
  <2>7. ASSUME NEW s, Good(s) PROVE Good([s EXCEPT !.mode = "idle"])
    BY <2>7 DEF Sane, PanelFields
  <2>8. Good(Data(p, value))
    <3> HIDE DEF Good
    <3> QED BY <2>4, <2>5, <2>6, <2>7
  <2> QED BY <2>8
<1>2. CASE p.mode # "args"
  <2>1. Data(p, value) = WriteRam(p, value) \/ Data(p, value) = p
    BY <1>2 DEF Data
  <2>2. Good(p) /\ Good(WriteRam(p, value))
    BY PointerIsSane
  <2> HIDE DEF Good
  <2>3. Good(Data(p, value))
    BY <2>1, <2>2
  <2> QED BY <2>3 DEF Good
<1> QED BY <1>1, <1>2

(* What has been sent of a transaction.                                    *)
Fed(p, data) == FoldLeft(Transfer, p, data)

LEMMA FedIs ==
  ASSUME NEW base, NEW N \in Nat, NEW data, DOMAIN data = 1..N
  PROVE  \E at : /\ at[0] = base /\ \A n \in 1..N : at[n] = Transfer(at[n - 1], data[n])
                 /\ Fed(base, data) = at[N]
<1> DEFINE next(h, n) == [s \in SUBSET (1..n) |->
                            IF s = {} THEN base ELSE Transfer(h[s \ {Max(s)}], data[Max(s)])]
           Found == {n \in 0..N : \E h : h = next(h, n)}
           iter == CHOOSE h : h = next(h, N)
<1>1. Fed(base, data) = iter[1..N]
  BY DEF Fed, FoldLeft, MapThenFoldSet
<1>2. ASSUME NEW n \in Nat, NEW s \in SUBSET (1..n), n \in s PROVE Max(s) = n
  <2>1. n \in s /\ \A y \in s : n >= y
    BY <1>2
  <2>2. \A x \in s : (\A y \in s : x >= y) => x = n
    BY <1>2
  <2> QED BY <2>1, <2>2 DEF Max
<1>3. 0 \in Found
  <2> DEFINE h == [s \in SUBSET (1..0) |-> base]
  <2>1. SUBSET (1..0) = {{}}
    OBVIOUS
  <2>2. h = next(h, 0)
    BY <2>1
  <2> HIDE DEF h, next
  <2> QED BY <2>2
<1>4. ASSUME NEW n \in 0..N, n \in Found, n < N PROVE n + 1 \in Found
  <2>1. PICK h : h = next(h, n)
    BY <1>4
  <2>2. n \in Nat /\ n + 1 \in Nat /\ n + 1 \in 0..N /\ n + 1 \notin 1..n
    BY <1>4
  <2> DEFINE g == [s \in SUBSET (1..(n + 1)) |->
                     IF n + 1 \in s THEN Transfer(h[s \ {n + 1}], data[n + 1]) ELSE h[s]]
  <2>3. ASSUME NEW s \in SUBSET (1..(n + 1)), n + 1 \notin s PROVE s \in SUBSET (1..n)
    BY <2>2, <2>3
  <2>4. \A s \in SUBSET (1..n) : s \in SUBSET (1..(n + 1)) /\ n + 1 \notin s
    BY <2>2
  <2>5. \A s \in SUBSET (1..n) : h[s] = IF s = {} THEN base ELSE Transfer(h[s \ {Max(s)}], data[Max(s)])
    BY <2>1
  <2>6. ASSUME NEW s \in SUBSET (1..(n + 1))
        PROVE  g[s] = IF s = {} THEN base ELSE Transfer(g[s \ {Max(s)}], data[Max(s)])
    <3>1. CASE n + 1 \in s
      <4>1. Max(s) = n + 1 /\ s # {}
        BY <1>2, <2>2, <3>1
      <4>2. s \ {n + 1} \in SUBSET (1..(n + 1)) /\ n + 1 \notin s \ {n + 1}
        OBVIOUS
      <4>3. g[s \ {n + 1}] = h[s \ {n + 1}]
        BY <4>2
      <4>4. g[s] = Transfer(h[s \ {n + 1}], data[n + 1])
        BY <3>1
      <4> HIDE DEF g
      <4> QED BY <4>1, <4>3, <4>4
    <3>2. CASE n + 1 \notin s
      <4>1. s \in SUBSET (1..n) /\ s \ {Max(s)} \in SUBSET (1..n)
        BY <2>3, <3>2
      <4>2. g[s] = h[s]
        BY <3>2
      <4>3. g[s \ {Max(s)}] = h[s \ {Max(s)}]
        BY <2>4, <4>1
      <4> HIDE DEF g
      <4> QED BY <2>5, <4>1, <4>2, <4>3
    <3> QED BY <3>1, <3>2
  <2>7. g = next(g, n + 1)
    <3>1. g = [s \in SUBSET (1..(n + 1)) |-> g[s]]
      OBVIOUS
    <3> HIDE DEF g
    <3> QED BY <2>6, <3>1
  <2> HIDE DEF g, next
  <2> QED BY <2>2, <2>7
<1>5. N \in Found
  <2>1. Found \in SUBSET Nat
    OBVIOUS
  <2> HIDE DEF Found
  <2>2. 0..N \subseteq Found
    BY <1>3, <1>4, <2>1, Climb
  <2> QED BY <2>2
<1>6. iter = next(iter, N)
  <2>1. \E h : h = next(h, N)
    BY <1>5
  <2> HIDE DEF next
  <2> QED BY <2>1
<1> HIDE DEF iter
<1>7. \A s \in SUBSET (1..N) : iter[s] = IF s = {} THEN base ELSE Transfer(iter[s \ {Max(s)}], data[Max(s)])
  BY <1>6
<1> DEFINE at == [n \in 0..N |-> iter[1..n]]
<1>8. at[0] = base
  <2>1. 1..0 = {} /\ {} \in SUBSET (1..N) /\ 0 \in 0..N
    OBVIOUS
  <2>2. iter[{}] = base
    BY <1>7, <2>1
  <2> QED BY <2>1, <2>2
<1>9. ASSUME NEW n \in 1..N PROVE at[n] = Transfer(at[n - 1], data[n])
  <2>1. 1..n \in SUBSET (1..N) /\ n \in 1..n /\ 1..n # {} /\ (1..n) \ {n} = 1..(n - 1) /\ n \in Nat
    BY SMTT(30)
  <2>2. Max(1..n) = n
    BY <1>2, <2>1
  <2>3. iter[1..n] = Transfer(iter[1..(n - 1)], data[n])
    BY <1>7, <2>1, <2>2
  <2>4. n \in 0..N /\ n - 1 \in 0..N
    OBVIOUS
  <2> QED BY <2>3, <2>4
<1>10. at[N] = iter[1..N]
  OBVIOUS
<1> HIDE DEF at
<1> QED BY <1>1, <1>8, <1>9, <1>10

LEMMA TransactionIsSane ==
  ASSUME NEW kind, NEW p, Sane(p, kind), NEW cmd, NEW data, Len(data) \in Nat, DOMAIN data = 1 .. Len(data),
         cmd \in Coordinates => \A i \in 1 .. Len(data) : data[i] \in Int
  PROVE  Sane(Transaction(p, cmd, data), kind)
<1> DEFINE addressed == [p EXCEPT !.dc = FALSE]
           commanded == Transfer(addressed, cmd)
           base == [commanded EXCEPT !.dc = TRUE]
           Good(q) == Sane(q, kind) /\ q.dc = TRUE /\ (q.held \/ q.cmd \in {cmd, "none"})
           N == Len(data)
<1>1. Sane(addressed, kind) /\ addressed.dc = FALSE
  BY DEF Sane, PanelFields
<1>2. Sane(commanded, kind) /\ (commanded.held \/ commanded.cmd \in {cmd, "none"})
  <2> HIDE DEF addressed
  <2>1. (commanded = addressed /\ addressed.held) \/ commanded = Command(addressed, cmd)
    BY <1>1 DEF Transfer
  <2> HIDE DEF commanded
  <2> QED BY <1>1, <2>1, CommandIsSane
<1> HIDE DEF commanded
<1>3. Good(base)
  <2>1. base.held = commanded.held /\ base.cmd = commanded.cmd /\ base.dc = TRUE
    BY <1>2 DEF Sane, PanelFields
  <2>2. Sane(base, kind)
    BY <1>2 DEF Sane, PanelFields
  <2> QED BY <1>2, <2>1, <2>2
<1> HIDE DEF base
<1>4. PICK at : /\ at[0] = base /\ \A n \in 1..N : at[n] = Transfer(at[n - 1], data[n])
                /\ Fed(base, data) = at[N]
  <2>1. N \in Nat /\ DOMAIN data = 1..N
    OBVIOUS
  <2> HIDE DEF N
  <2>2. \E at : /\ at[0] = base /\ \A n \in 1..N : at[n] = Transfer(at[n - 1], data[n])
                /\ Fed(base, data) = at[N]
    BY <2>1, FedIs
  <2> QED BY <2>2
<1>5. ASSUME NEW q, Good(q), NEW i \in 1..N PROVE Good(Transfer(q, data[i]))
  <2>1. CASE q.held
    BY <1>5, <2>1 DEF Transfer
  <2>2. CASE ~ q.held
    <3>1. Transfer(q, data[i]) = Data(q, data[i])
      BY <1>5, <2>2 DEF Transfer
    <3>2. q.cmd \in Coordinates => data[i] \in Int
      BY <1>5, <2>2 DEF Coordinates
    <3>3. /\ Sane(Data(q, data[i]), kind) /\ Data(q, data[i]).cmd = q.cmd
          /\ Data(q, data[i]).dc = q.dc /\ Data(q, data[i]).held = q.held
      BY <1>5, <3>2, DataIsSane
    <3> QED BY <1>5, <2>2, <3>1, <3>3
  <2> QED BY <2>1, <2>2
<1> DEFINE Held == {n \in 0..N : Good(at[n])}
<1>6. 0..N \subseteq Held
  <2>1. Held \in SUBSET Nat /\ 0 \in Held
    BY <1>3, <1>4
  <2>2. ASSUME NEW n \in 0..N, n \in Held, n < N PROVE n + 1 \in Held
    <3>1. n + 1 \in 1..N /\ n + 1 - 1 = n /\ n + 1 \in 0..N /\ Good(at[n])
      BY <2>2
    <3> HIDE DEF Good
    <3>2. at[n + 1] = Transfer(at[n], data[n + 1])
      BY <1>4, <3>1
    <3> QED BY <1>5, <3>1, <3>2
  <2> HIDE DEF Held
  <2> QED BY <2>1, <2>2, Climb
<1>7. Good(at[N])
  <2>1. N \in 0..N
    OBVIOUS
  <2> HIDE DEF Good
  <2> QED BY <1>6, <2>1
<1>8. Transaction(p, cmd, data) = Fed(base, data)
  BY DEF Fed, Transaction, base, commanded
<1> QED BY <1>4, <1>7, <1>8

LEMMA PinIsSane ==
  ASSUME NEW kind, NEW p, Sane(p, kind), NEW pin
  PROVE  Sane(HardReset(p, pin), kind)
<1>1. ASSUME NEW q, Sane(q, kind) PROVE Sane([q EXCEPT !.held = FALSE, !.fb = Blank], kind)
  BY <1>1 DEF Sane, PanelFields
<1>2. Sane([p EXCEPT !.held = pin], kind)
  BY DEF Sane, PanelFields
<1>3. Sane(ResetState(p), kind)
  BY ResetIsSane DEF Sane
<1> HIDE DEF Sane
<1>4. Sane([ResetState(p) EXCEPT !.held = FALSE, !.fb = Blank], kind)
  BY <1>1, <1>3
<1> QED BY <1>2, <1>4 DEF HardReset

LEMMA SampleIsSane ==
  ASSUME NEW kind, NEW p, Sane(p, kind), NEW frame
  PROVE  Sane(Sampled(p, frame), kind)
BY DEF Sampled, Sane, PanelFields

LEMMA NewIsSane ==
  ASSUME NEW kind
  PROVE  Sane(NewPanel(kind), kind)
<1> DEFINE p == [kind |-> kind, dc |-> FALSE, held |-> FALSE, timer |-> "none", fb |-> Blank, mode |-> "idle",
                 cmd |-> "none", args |-> << >>, x |-> 0, y |-> 0, xs |-> 0, xe |-> 0, ys |-> 0, ye |-> 0,
                 entry |-> ResetEntry, index |-> 0, busy |-> FALSE]
<1>1. DOMAIN p = PanelFields /\ p.kind = kind
  BY DEF PanelFields
<1>2. NewPanel(kind) = ResetState(p)
  BY DEF NewPanel
<1> HIDE DEF p
<1> QED BY <1>1, <1>2, ResetIsSane

----------------------------------------------------------------------------
(* The write pointer, set as the display driver sets it, goes through its  *)
(* window column by column.                                                *)
LEMMA Columns ==
  ASSUME NEW H \in Nat, NEW W \in Nat, NEW q \in 0 .. (W - 1)
  PROVE  H * q \in Nat /\ H * q + H <= H * W /\ H * (q + 1) = H * q + H
<1> DEFINE d == W - 1 - q
<1>1. d \in Nat /\ W = q + 1 + d /\ q \in Nat
  OBVIOUS
<1> HIDE DEF d
<1>2. \A a, b \in Nat : a * b \in Nat
  OBVIOUS
<1>3. H * q \in Nat /\ H * d \in Nat
  BY <1>1, <1>2
<1>4. H * (q + 1 + d) = H * q + H + H * d /\ H * (q + 1) = H * q + H
  BY <1>1
<1> QED BY <1>1, <1>3, <1>4

LEMMA WalkIs ==
  ASSUME NEW p, WindowCells(p) \in Nat \ {0}
  PROVE  \E at : /\ at[1] = p /\ \A n \in 2 .. WindowCells(p) : at[n] = AdvancePointer(at[n - 1])
                 /\ Walk(p) = {<<at[n].y, at[n].x>> : n \in 1 .. WindowCells(p)}
<1> DEFINE N == WindowCells(p)
           next(h, n) == [k \in 1..n |-> IF k = 1 THEN p ELSE AdvancePointer(h[k - 1])]
           Found == {n \in 0..N : \E h : h = next(h, n)}
           at == CHOOSE h : h = next(h, N)
<1>1. N \in Nat /\ N > 0
  OBVIOUS
<1>2. DOMAIN at = 1..N => Walk(p) = {<<at[n].y, at[n].x>> : n \in 1..N}
  BY DEF Walk
<1> HIDE DEF N
<1>3. 0 \in Found
  <2>1. [k \in 1..0 |-> p] = next([k \in 1..0 |-> p], 0)
    OBVIOUS
  <2> HIDE DEF next
  <2> QED BY <1>1, <2>1
<1>4. ASSUME NEW n \in 0..N, n \in Found, n < N PROVE n + 1 \in Found
  <2>1. PICK h : h = next(h, n)
    BY <1>4
  <2> DEFINE g == [k \in 1..(n + 1) |-> IF k = 1 THEN p ELSE AdvancePointer(h[k - 1])]
  <2>2. n \in Nat /\ n + 1 \in 0..N
    BY <1>1, <1>4
  <2>3. ASSUME NEW k \in 1..n PROVE g[k] = h[k]
    <3>1. k \in 1..(n + 1)
      BY <2>2
    <3>2. g[k] = IF k = 1 THEN p ELSE AdvancePointer(h[k - 1])
      BY <3>1
    <3>3. h[k] = IF k = 1 THEN p ELSE AdvancePointer(h[k - 1])
      BY <2>1
    <3> HIDE DEF g
    <3> QED BY <3>2, <3>3
  <2>4. \A k \in 1..(n + 1) : k # 1 => k - 1 \in 1..n
    BY <2>2
  <2>5. g = next(g, n + 1)
    <3>1. g = [k \in 1..(n + 1) |-> g[k]]
      OBVIOUS
    <3>2. \A k \in 1..(n + 1) : g[k] = IF k = 1 THEN p ELSE AdvancePointer(h[k - 1])
      OBVIOUS
    <3> HIDE DEF g
    <3>3. \A k \in 1..(n + 1) : g[k] = IF k = 1 THEN p ELSE AdvancePointer(g[k - 1])
      BY <2>3, <2>4, <3>2
    <3> QED BY <3>1, <3>3
  <2> HIDE DEF g, next
  <2> QED BY <2>2, <2>5
<1>5. \E h : h = next(h, N)
  <2>1. Found \in SUBSET Nat
    OBVIOUS
  <2> HIDE DEF Found
  <2>2. 0..N \subseteq Found
    BY <1>1, <1>3, <1>4, <2>1, Climb
  <2>3. N \in Found
    BY <1>1, <2>2
  <2> QED BY <2>3 DEF Found
<1>6. at = next(at, N)
  <2> HIDE DEF next
  <2> QED BY <1>5
<1> HIDE DEF at
<1>7. DOMAIN at = 1..N /\ \A n \in 1..N : at[n] = IF n = 1 THEN p ELSE AdvancePointer(at[n - 1])
  BY <1>6
<1>8. at[1] = p /\ \A n \in 2..N : at[n] = AdvancePointer(at[n - 1])
  BY <1>1, <1>7
<1> QED BY <1>2, <1>7, <1>8 DEF N

LEMMA WalkIsWindow ==
  ASSUME NEW kind, NEW p, Sane(p, kind), DriverSetsWindow(p)
  PROVE  Walk(p) = Window(p)
<1> DEFINE H == p.ys - p.ye + 1
           W == p.xe - p.xs + 1
           N == H * W
           Is(s, q, r) == /\ DOMAIN s = PanelFields /\ s.x = p.xs + q /\ s.y = p.ys - r
                          /\ s.xs = p.xs /\ s.xe = p.xe /\ s.ys = p.ys /\ s.ye = p.ye /\ s.entry = p.entry
<1>1. /\ DOMAIN p = PanelFields /\ p.entry.yFirst = TRUE /\ p.entry.yUp = FALSE /\ p.entry.xUp = TRUE
      /\ p.xs \in Int /\ p.xe \in Int /\ p.ys \in Int /\ p.ye \in Int /\ p.x = p.xs /\ p.y = p.ys
      /\ p.ye <= p.ys /\ p.xs <= p.xe
  BY DEF Sane, DriverSetsWindow, FirmwareEntry, ResetEntry
<1>2. H \in Nat /\ H > 0 /\ W \in Nat /\ W > 0 /\ p.ye = p.ys - (H - 1) /\ p.xe = p.xs + (W - 1)
  BY <1>1
<1>3. WindowCells(p) = N
  BY DEF WindowCells
<1> HIDE DEF H, W
<1>4. ASSUME NEW q \in 0 .. (W - 1), NEW r \in 0 .. (H - 1), NEW s, Is(s, q, r)
      PROVE  /\ r + 1 < H => Is(AdvancePointer(s), q, r + 1)
             /\ r + 1 = H /\ q + 1 < W => Is(AdvancePointer(s), q + 1, 0)
  <2>1. /\ s.x = p.xs + q /\ s.y = p.ys - r /\ s.xs = p.xs /\ s.xe = p.xe /\ s.ys = p.ys /\ s.ye = p.ye
        /\ s.entry = p.entry /\ DOMAIN s = PanelFields
    BY <1>4
  <2>4. NextY(s) = p.ys - r - 1 /\ NextX(s) = p.xs + q + 1
    BY <1>1, <2>1 DEF NextY, NextX
  <2>5. ASSUME r + 1 < H PROVE Is(AdvancePointer(s), q, r + 1)
    <3>1. ~ OutOfY(s, NextY(s))
      BY <1>1, <1>2, <2>1, <2>4, <2>5 DEF OutOfY
    <3>2. AdvancePointer(s) = [s EXCEPT !.y = NextY(s)]
      BY <1>1, <2>1, <3>1 DEF AdvancePointer, StepY
    <3>3. NextY(s) = p.ys - (r + 1)
      BY <1>1, <2>4
    <3> QED BY <2>1, <3>2, <3>3 DEF PanelFields
  <2>6. ASSUME r + 1 = H, q + 1 < W PROVE Is(AdvancePointer(s), q + 1, 0)
    <3>1. OutOfY(s, NextY(s)) /\ ~ OutOfX(s, NextX(s))
      BY <1>1, <1>2, <2>1, <2>4, <2>6 DEF OutOfY, OutOfX
    <3>2. AdvancePointer(s) = [[s EXCEPT !.x = NextX(s)] EXCEPT !.y = s.ys]
      BY <1>1, <2>1, <3>1 DEF AdvancePointer, StepX
    <3>3. NextX(s) = p.xs + (q + 1) /\ s.ys = p.ys - 0
      BY <1>1, <2>1, <2>4
    <3> QED BY <2>1, <3>2, <3>3 DEF PanelFields
  <2> QED BY <2>5, <2>6
<1>5. Is(p, 0, 0)
  BY <1>1
<1> HIDE DEF Is
<1>6. N \in Nat /\ N > 0 /\ N - 1 \in Nat
  <2>1. H * 0 \in Nat /\ H * 0 + H <= H * W
    BY <1>2, Columns
  <2>2. H * W \in Nat
    BY <1>2
  <2> DEFINE a == H * 0
  <2> HIDE DEF a, N
  <2>3. a \in Nat /\ a + H <= N /\ N \in Nat
    BY <2>1, <2>2 DEF a, N
  <2> QED BY <1>2, <2>3
<1>7. PICK at : /\ at[1] = p /\ \A n \in 2..N : at[n] = AdvancePointer(at[n - 1])
                /\ Walk(p) = {<<at[n].y, at[n].x>> : n \in 1..N}
  <2> HIDE DEF N
  <2>1. WindowCells(p) \in Nat \ {0}
    BY <1>3, <1>6
  <2> QED BY <1>3, <2>1, WalkIs
<1> DEFINE Reached(k) == \E q \in 0 .. (W - 1), r \in 0 .. (H - 1) : k = H * q + r /\ Is(at[k + 1], q, r)
           Found == {k \in 0 .. (N - 1) : Reached(k)}
<1>8. 0 \in Found
  <2>1. 0 = H * 0 + 0 /\ 0 \in 0 .. (W - 1) /\ 0 \in 0 .. (H - 1) /\ 0 + 1 = 1
    BY <1>2
  <2>2. Is(at[0 + 1], 0, 0)
    BY <1>5, <1>7
  <2>3. Reached(0)
    BY <2>1, <2>2
  <2> HIDE DEF Reached, N
  <2> QED BY <1>6, <2>3
<1>9. ASSUME NEW k \in 0 .. (N - 1), k \in Found, k < N - 1 PROVE k + 1 \in Found
  <2>1. PICK q \in 0 .. (W - 1), r \in 0 .. (H - 1) : k = H * q + r /\ Is(at[k + 1], q, r)
    BY <1>9
  <2>2. H * q \in Nat /\ H * q + H <= H * W /\ H * (q + 1) = H * q + H
    BY <1>2, Columns
  <2>3. k + 1 \in 0 .. (N - 1) /\ at[k + 1 + 1] = AdvancePointer(at[k + 1])
    <3> HIDE DEF N
    <3>1. k + 1 \in 0 .. (N - 1) /\ k + 2 \in 2..N /\ k + 2 - 1 = k + 1 /\ k + 1 + 1 = k + 2
      BY <1>6, <1>9
    <3>2. at[k + 2] = AdvancePointer(at[k + 2 - 1])
      BY <1>7, <3>1
    <3> QED BY <3>1, <3>2
  <2>4. CASE r + 1 < H
    <3>1. Is(at[k + 1 + 1], q, r + 1)
      BY <1>4, <2>1, <2>3, <2>4
    <3> DEFINE a == H * q
    <3>2. k = a + r /\ a \in Nat
      BY <2>1, <2>2
    <3> HIDE DEF a
    <3>3. k + 1 = a + (r + 1) /\ r + 1 \in 0 .. (H - 1)
      BY <1>2, <2>4, <3>2
    <3>4. Reached(k + 1)
      BY <3>1, <3>3 DEF a
    <3> HIDE DEF Reached, N
    <3> QED BY <2>3, <3>4
  <2>5. CASE r + 1 = H
    <3> DEFINE a == H * q
               b == H * W
    <3>1. k = a + r /\ a \in Nat /\ a + H <= b /\ k < b - 1 /\ b \in Nat /\ H * (q + 1) = a + H
      BY <1>2, <1>9, <2>1, <2>2
    <3>2. q + 1 # W
      <4> SUFFICES ASSUME q + 1 = W PROVE FALSE
        OBVIOUS
      <4>1. b = H * (q + 1)
        OBVIOUS
      <4>2. b = a + H
        BY <3>1, <4>1
      <4> HIDE DEF a, b
      <4> QED BY <1>2, <2>5, <3>1, <4>2
    <3>3. q + 1 < W /\ q + 1 \in 0 .. (W - 1)
      BY <1>2, <3>2
    <3>4. Is(at[k + 1 + 1], q + 1, 0)
      BY <1>4, <2>1, <2>3, <2>5, <3>3
    <3> HIDE DEF a, b
    <3>5. k + 1 = H * (q + 1) + 0 /\ 0 \in 0 .. (H - 1)
      BY <1>2, <2>5, <3>1
    <3>6. Reached(k + 1)
      BY <3>3, <3>4, <3>5
    <3> HIDE DEF Reached, N
    <3> QED BY <2>3, <3>6
  <2> QED BY <1>2, <2>1, <2>4, <2>5
<1>10. \A k \in 0 .. (N - 1) : Reached(k)
  <2>1. Found \in SUBSET Nat
    OBVIOUS
  <2> DEFINE M == N - 1
  <2>2. M \in Nat
    BY <1>6
  <2>3. 0 \in Found /\ \A k \in 0..M : k \in Found /\ k < M => k + 1 \in Found
    BY <1>8, <1>9
  <2> HIDE DEF Found, M
  <2>4. 0..M \subseteq Found
    BY <2>1, <2>2, <2>3, Climb
  <2> QED BY <2>4 DEF Found, M
<1>11. Walk(p) \subseteq Window(p)
  <2> SUFFICES ASSUME NEW n \in 1..N PROVE <<at[n].y, at[n].x>> \in Window(p)
    BY <1>7
  <2>1. n - 1 \in 0 .. (N - 1) /\ n - 1 + 1 = n
    <3> HIDE DEF N
    <3> QED BY <1>6
  <2>2. PICK q \in 0 .. (W - 1), r \in 0 .. (H - 1) : Is(at[n], q, r)
    BY <1>10, <2>1
  <2>3. at[n].x = p.xs + q /\ at[n].y = p.ys - r
    BY <2>2 DEF Is
  <2>4. p.xs + q \in p.xs .. p.xe /\ p.ys - r \in p.ye .. p.ys
    BY <1>1, <1>2
  <2> QED BY <2>3, <2>4 DEF Window
<1>12. Window(p) \subseteq Walk(p)
  <2> SUFFICES ASSUME NEW y \in p.ye .. p.ys, NEW x \in p.xs .. p.xe PROVE <<y, x>> \in Walk(p)
    BY DEF Window
  <2> DEFINE q == x - p.xs
             r == p.ys - y
  <2>1. q \in 0 .. (W - 1) /\ r \in 0 .. (H - 1) /\ x = p.xs + q /\ y = p.ys - r
    BY <1>1, <1>2
  <2> HIDE DEF q, r
  <2>2. H * q \in Nat /\ H * q + H <= N
    BY <1>2, <2>1, Columns
  <2> DEFINE a == H * q
  <2>3. a + r \in 0 .. (N - 1)
    <3> HIDE DEF N
    <3>1. a \in Nat /\ a + H <= N
      BY <2>2
    <3> HIDE DEF a
    <3> QED BY <1>2, <1>6, <2>1, <3>1
  <2>4. PICK u \in 0 .. (W - 1), v \in 0 .. (H - 1) : a + r = H * u + v /\ Is(at[a + r + 1], u, v)
    BY <1>10, <2>3
  <2>5. ASSUME NEW c \in 0 .. (W - 1), NEW d \in 0 .. (W - 1), c < d PROVE H * c + H <= H * d
    <3>1. d \in Nat /\ c \in 0 .. (d - 1)
      BY <1>2, <2>5
    <3> QED BY <1>2, <3>1, Columns
  <2>6. u = q
    <3> DEFINE b == H * u
    <3>1. a \in Nat /\ b \in Nat /\ a + r = b + v
      BY <1>2, <2>2, <2>4
    <3>2. /\ q < u => a + H <= b
          /\ u < q => b + H <= a
      BY <2>1, <2>5
    <3> HIDE DEF a, b
    <3> QED BY <1>2, <2>1, <3>1, <3>2
  <2>7. v = r
    <3>1. a + r = a + v /\ a \in Nat
      BY <2>2, <2>4, <2>6
    <3> HIDE DEF a
    <3> QED BY <1>2, <2>1, <3>1
  <2>8. at[a + r + 1].x = x /\ at[a + r + 1].y = y
    BY <2>1, <2>4, <2>6, <2>7 DEF Is
  <2>9. a + r + 1 \in 1..N
    <3> HIDE DEF N, a
    <3> QED BY <1>6, <2>3
  <2> HIDE DEF a, N
  <2> QED BY <1>7, <2>8, <2>9
<1> HIDE DEF Found, N
<1> QED BY <1>11, <1>12

----------------------------------------------------------------------------
(* The panel with the firmware and the host: while the frame is written,   *)
(* the firmware waits and the panel has what it exported.                  *)
Shown == firmware.panel = "ssd1677" /\ ~ firmware.direct /\ exported # None => Pushed(panel) = Pictures[exported]
DisplayInv ==
  /\ firmware \in Firmwares /\ Sane(panel, firmware.panel)
  /\ exported \in Buffers \cup {None} /\ "at" \in DOMAIN cpu
  /\ "vcpu" \in open => cpu.at = "publish" /\ Shown

LEMMA DisplayStart == LinkInit => DisplayInv
<1> SUFFICES ASSUME LinkInit PROVE DisplayInv
  OBVIOUS
<1>1. Sane(panel, firmware.panel)
  BY NewIsSane DEF LinkInit
<1> QED BY <1>1 DEF LinkInit, DisplayInv

(* What a step that is not about the panel leaves of it.                   *)
LEMMA DisplayAside ==
  ASSUME DisplayInv, UNCHANGED <<firmware, panel, exported>>, "at" \in DOMAIN cpu',
         "vcpu" \in open' => "vcpu" \in open /\ cpu' = cpu
  PROVE  DisplayInv'
BY DEF DisplayInv, Shown

(* The firmware does nothing while the frame is written.                   *)
LEMMA FirmwareWaits ==
  ASSUME DisplayInv, cpu.at # "publish"
  PROVE  "vcpu" \notin open
BY DEF DisplayInv

(* A picture that is taken over is the one pushed.                         *)
LEMMA SampledIsPushed ==
  ASSUME NEW p, Sane(p, "ssd1677"), NEW b \in Buffers
  PROVE  Pushed(Sampled(p, Pictures[b])) = Pictures[b]
<1> DEFINE f == Pictures[b]
<1>1. f \in [Cells -> {"white", "ink"}]
  BY LinkAssumption
<1> HIDE DEF f
<1>2. p.kind = "ssd1677" /\ DOMAIN p = PanelFields
  BY DEF Sane
<1>3. Sampled(p, f).kind = "ssd1677" /\ Sampled(p, f).fb = Flip(f)
  BY <1>2 DEF Sampled, Turned, PanelFields
<1>4. ASSUME NEW c \in Cells PROVE /\ <<Rows - 1 - c[1], c[2]>> \in Cells
                                   /\ <<Rows - 1 - (Rows - 1 - c[1]), c[2]>> = c
  BY PanelAssumption DEF Cells
<1>5. ASSUME NEW c \in Cells PROVE Flip(Flip(f))[c] = f[c]
  <2> DEFINE d == <<Rows - 1 - c[1], c[2]>>
  <2>1. d \in Cells /\ <<Rows - 1 - d[1], d[2]>> = c
    BY <1>4
  <2> HIDE DEF d
  <2>2. Flip(Flip(f))[c] = Flip(f)[d]
    BY DEF Flip, d
  <2>3. Flip(f)[d] = f[c]
    BY <2>1 DEF Flip
  <2> QED BY <2>2, <2>3
<1>6. Flip(Flip(f)) = [c \in Cells |-> Flip(Flip(f))[c]] /\ f = [c \in Cells |-> f[c]]
  BY <1>1 DEF Flip
<1>7. Flip(Flip(f)) = f
  BY <1>5, <1>6
<1> QED BY <1>3, <1>7 DEF Pushed, Turned, f

LEMMA TransactionKeeps ==
  ASSUME DisplayInv, SpiTransaction
  PROVE  DisplayInv'
<1>1. PICK t \in firmware.driver :
        LET takes == Samples(panel, t[1], t[2]) /\ wired # None
        IN /\ panel' = Transaction(IF takes THEN Sample(panel) ELSE panel, t[1], t[2])
           /\ IF takes THEN Pushes ELSE UNCHANGED <<cpu, open>>
  BY DEF SpiTransaction
<1> DEFINE before == IF Samples(panel, t[1], t[2]) /\ wired # None THEN Sample(panel) ELSE panel
<1>2. /\ Len(t[2]) \in Nat /\ DOMAIN t[2] = 1 .. Len(t[2]) /\ t[1] \in Coordinates => t[2] \in Seq(Nat)
  BY LinkAssumption DEF DisplayInv
<1>3. t[1] \in Coordinates => \A i \in 1 .. Len(t[2]) : t[2][i] \in Int
  BY <1>2
<1>4. Sane(before, firmware.panel)
  <2>1. Sane(panel, firmware.panel)
    BY DEF DisplayInv
  <2>2. \A frame : Sane(Sampled(panel, frame), firmware.panel)
    BY <2>1, SampleIsSane
  <2>3. before = panel \/ before = Sampled(panel, Pictures[wired])
    BY DEF Sample
  <2> HIDE DEF before
  <2> QED BY <2>1, <2>2, <2>3
<1>5. panel' = Transaction(before, t[1], t[2])
  BY <1>1
<1> HIDE DEF before
<1>6. Sane(panel', firmware.panel)
  BY <1>2, <1>3, <1>4, <1>5, TransactionIsSane
<1>7. UNCHANGED <<firmware, exported>> /\ cpu.at # "publish"
  BY DEF SpiTransaction, DisplayOnly, Cpu
<1>8. CASE Samples(panel, t[1], t[2])
  <2>1. firmware.panel = "uc8253c"
    BY <1>8 DEF Samples, DisplayInv, Sane
  <2>2. (cpu' = cpu /\ open' = open) \/ Pushes
    BY <1>1
  <2>3. "at" \in DOMAIN cpu' /\ ("vcpu" \in open' => cpu'.at = "publish")
    BY <1>7, <2>2, FirmwareWaits DEF Pushes, DisplayInv
  <2> QED BY <1>6, <1>7, <2>1, <2>3 DEF DisplayInv, Shown
<1>9. CASE ~ Samples(panel, t[1], t[2])
  <2>1. cpu' = cpu /\ open' = open
    BY <1>1, <1>9
  <2>2. "vcpu" \notin open'
    BY <1>7, <2>1, FirmwareWaits
  <2> QED BY <1>6, <1>7, <2>1, <2>2 DEF DisplayInv
<1> QED BY <1>8, <1>9

LEMMA PanelStepsKeep ==
  ASSUME DisplayInv, BusyTimer \/ (\E pin \in BOOLEAN : ResetPin(pin))
  PROVE  DisplayInv'
<1>1. CASE BusyTimer
  <2>1. panel' = BusyEnds(panel) /\ UNCHANGED <<firmware, cpu, exported, open>>
    BY <1>1 DEF BusyTimer, DisplayOnly
  <2>2. /\ panel'.fb = panel.fb /\ panel'.kind = panel.kind
    BY <2>1 DEF DisplayInv, Sane, BusyEnds, PanelFields
  <2>3. Sane(panel', firmware.panel)
    BY <2>1, BusyIsSane DEF DisplayInv
  <2> QED BY <2>1, <2>2, <2>3 DEF DisplayInv, Shown, Pushed
<1>2. ASSUME NEW pin \in BOOLEAN, ResetPin(pin) PROVE DisplayInv'
  <2>1. panel' = HardReset(panel, pin) /\ UNCHANGED <<firmware, cpu, exported, open>> /\ cpu.at # "publish"
    BY <1>2 DEF ResetPin, DisplayOnly, Cpu
  <2>2. Sane(panel', firmware.panel)
    BY <2>1, PinIsSane DEF DisplayInv
  <2>3. "vcpu" \notin open'
    BY <2>1, FirmwareWaits
  <2> QED BY <2>1, <2>2, <2>3 DEF DisplayInv
<1> QED BY <1>1, <1>2

LEMMA ExportKeeps ==
  ASSUME DisplayInv, NEW b \in Buffers \cup {None}, Exports(b)
  PROVE  DisplayInv'
<1>1. UNCHANGED <<firmware, panel, cpu, open>> /\ exported' = b /\ cpu.at # "publish"
  BY DEF Exports, DisplayOnly, Cpu
<1>2. "vcpu" \notin open'
  BY <1>1, FirmwareWaits
<1> QED BY <1>1, <1>2 DEF DisplayInv

LEMMA PublishKeeps ==
  ASSUME DisplayInv, PublishFramebuffer \/ PublishDirect
  PROVE  DisplayInv'
<1>1. UNCHANGED <<firmware, exported>> /\ "vcpu" \notin open /\ Sane(panel, firmware.panel) /\ "at" \in DOMAIN cpu
  BY FirmwareWaits DEF PublishFramebuffer, PublishDirect, DisplayOnly, display, Cpu, DisplayInv
<1>2. Pushes => "at" \in DOMAIN cpu' /\ cpu'.at = "publish"
  BY <1>1 DEF Pushes
<1>3. CASE PublishFramebuffer
  <2>1. CASE wired' = None
    <3>1. UNCHANGED <<panel, cpu, open>>
      BY <1>3, <2>1 DEF PublishFramebuffer
    <3> QED BY <1>1, <3>1, DisplayAside
  <2>2. CASE wired' # None
    <3>1. panel' = Sampled(panel, Pictures[wired']) /\ Pushes /\ wired' = Rewired
      BY <1>3, <2>2 DEF PublishFramebuffer
    <3>2. Sane(panel', firmware.panel)
      BY <1>1, <3>1, SampleIsSane
    <3>3. ASSUME firmware.panel = "ssd1677", exported # None PROVE Pushed(panel') = Pictures[exported]
      <4>1. wired' = exported /\ exported \in Buffers
        BY <3>1, <3>3 DEF Rewired, Candidate, DisplayInv
      <4> QED BY <1>1, <3>1, <3>3, <4>1, SampledIsPushed
    <3> QED BY <1>1, <1>2, <3>1, <3>2, <3>3 DEF DisplayInv, Shown
  <2> QED BY <2>1, <2>2
<1>4. CASE PublishDirect
  <2>1. Pushes /\ panel' = panel /\ firmware.direct
    BY <1>4 DEF PublishDirect, display
  <2> QED BY <1>1, <1>2, <2>1 DEF DisplayInv, Shown
<1> QED BY <1>3, <1>4

LEMMA DisplayStep == DisplayInv /\ [LinkNext]_linkVars => DisplayInv'
<1> SUFFICES ASSUME DisplayInv, [LinkNext]_linkVars PROVE DisplayInv'
  OBVIOUS
<1>0. "at" \in DOMAIN cpu
  BY DEF DisplayInv
<1>1. CASE \/ \E f \in firmware.traffic : HostSends(f)
           \/ Reconnect \/ ReadChunk \/ DiscardTurn \/ HeaderTurn \/ PayloadTurn
  <2>1. UNCHANGED <<firmware, cpu, display, open>>
    BY <1>1 DEF HostSends, Reconnect, ReadChunk, DiscardTurn, ParserOnly, HeaderTurn, PayloadTurn
  <2> QED BY <1>0, <2>1, DisplayAside DEF display
<1>2. CASE \/ AskConsole \/ AskDebug \/ DeliverConsole \/ DeliverRequest \/ ConsoleTimer \/ PrintConsole
           \/ FreeConsole \/ PollDebug \/ TakeDebug \/ FreeDebug \/ SendHeader \/ SendPayload
           \/ InjectTouches \/ QueueButton \/ ReadBits \/ SetBits \/ ReadEvents \/ SetEvents
  <2>1. MainOnly
    BY <1>2 DEF AskConsole, AskDebug, Ask, DeliverConsole, DeliverRequest, Deliver, ConsoleTimer, PrintConsole,
                FreeConsole, PollDebug, TakeDebug, FreeDebug, SendHeader, SendPayload, InjectTouches, QueueButton,
                ReadBits, SetBits, ReadEvents, SetEvents
  <2>2. open' \in {open, open \cup {"main"}, open \ {"main"}}
    BY <1>2 DEF AskConsole, AskDebug, Ask, DeliverConsole, DeliverRequest, Deliver, ConsoleTimer, PrintConsole,
                FreeConsole, PollDebug, TakeDebug, FreeDebug, SendHeader, SendPayload, InjectTouches, QueueButton,
                ReadBits, SetBits, ReadEvents, SetEvents
  <2>3. UNCHANGED <<firmware, cpu, panel, exported>>
    BY <2>1 DEF MainOnly, display
  <2>4. "vcpu" \in open' => "vcpu" \in open
    BY <2>2
  <2> QED BY <1>0, <2>3, <2>4, DisplayAside
<1>3. CASE \/ SeesRequest("console", "console") \/ SeesRequest("request", "debug")
           \/ ReadsLength \/ ReadsData \/ FreesRequest \/ WritesAnswer \/ RaisesAnswer
  <2>1. CpuOnly /\ cpu.at # "publish"
    BY <1>3 DEF SeesRequest, ReadsLength, ReadsData, FreesRequest, WritesAnswer, RaisesAnswer, Cpu
  <2>2. "at" \in DOMAIN cpu'
    <3>1. CASE SeesRequest("console", "console") \/ SeesRequest("request", "debug")
      BY <1>0, <3>1 DEF SeesRequest
    <3>2. CASE ReadsLength
      BY <1>0, <3>2 DEF ReadsLength
    <3>3. CASE ReadsData
      BY <1>0, <3>3 DEF ReadsData
    <3>4. CASE FreesRequest
      BY <1>0, <3>4 DEF FreesRequest
    <3>5. CASE WritesAnswer
      BY <1>0, <3>5 DEF WritesAnswer, Goes
    <3>6. CASE RaisesAnswer
      BY <3>6 DEF RaisesAnswer
    <3> QED BY <1>3, <3>1, <3>2, <3>3, <3>4, <3>5, <3>6
  <2>3. UNCHANGED <<firmware, panel, exported, open>>
    BY <2>1 DEF CpuOnly, display
  <2> QED BY <2>1, <2>2, <2>3, FirmwareWaits, DisplayAside
<1>4. CASE TouchRead \/ ButtonRead \/ I2cPointer \/ I2cBeginRead \/ I2cEndRead
  <2>1. UNCHANGED <<firmware, cpu, display, open>>
    BY <1>4 DEF TouchRead, ButtonRead, I2cPointer, I2cBeginRead, I2cEndRead, InputOnly
  <2> QED BY <1>0, <2>1, DisplayAside DEF display
<1>5. CASE SpiTransaction
  BY <1>5, TransactionKeeps
<1>6. CASE BusyTimer \/ (\E pin \in BOOLEAN : ResetPin(pin))
  BY <1>6, PanelStepsKeep
<1>7. CASE \E b \in Buffers \cup {None} : Exports(b)
  BY <1>7, ExportKeeps
<1>8. CASE PublishFramebuffer \/ PublishDirect
  BY <1>8, PublishKeeps
<1>9. CASE EndPublish
  <2>1. UNCHANGED <<firmware, panel, exported>> /\ "at" \in DOMAIN cpu' /\ "vcpu" \notin open'
    BY <1>0, <1>9 DEF EndPublish, DisplayOnly, display, Goes
  <2> QED BY <2>1, DisplayAside
<1>10. CASE UNCHANGED linkVars
  BY <1>0, <1>10, DisplayAside DEF linkVars, display
<1>11. CASE \E e \in Edges : SwapsEdges(e) \/ LoadsEdges(e) \/ StoresEdges(e)
  <2>1. UNCHANGED <<firmware, cpu, display, open>>
    BY <1>11 DEF SwapsEdges, LoadsEdges, StoresEdges, CpuOnly
  <2> QED BY <1>0, <2>1, DisplayAside DEF display
<1> QED BY <1>1, <1>2, <1>3, <1>4, <1>5, <1>6, <1>7, <1>8, <1>9, <1>10, <1>11 DEF LinkNext, MainThread, Firmware

LEMMA DisplayIsSound == DisplayInv => PanelInv
<1> SUFFICES ASSUME DisplayInv PROVE PanelInv
  OBVIOUS
<1>1. Sane(panel, firmware.panel)
  BY DEF DisplayInv
<1>2. panel.busy => panel.timer # "none"
  BY <1>1 DEF Sane
<1> QED BY <1>1, <1>2, WalkIsWindow DEF PanelInv

(* No step changes what is exported and begins or ends a frame.            *)
LEMMA ExportsApart ==
  ASSUME [LinkNext]_linkVars
  PROVE  firmware' = firmware /\ (exported' = exported \/ open' = open)
<1>1. CASE \/ \E f \in firmware.traffic : HostSends(f)
           \/ Reconnect \/ ReadChunk \/ DiscardTurn \/ HeaderTurn \/ PayloadTurn
  BY <1>1 DEF HostSends, Reconnect, ReadChunk, DiscardTurn, ParserOnly, HeaderTurn, PayloadTurn
<1>2. CASE \/ AskConsole \/ AskDebug \/ DeliverConsole \/ DeliverRequest \/ ConsoleTimer \/ PrintConsole
           \/ FreeConsole \/ PollDebug \/ TakeDebug \/ FreeDebug \/ SendHeader \/ SendPayload
           \/ InjectTouches \/ QueueButton \/ ReadBits \/ SetBits \/ ReadEvents \/ SetEvents
  <2>1. MainOnly
    BY <1>2 DEF AskConsole, AskDebug, Ask, DeliverConsole, DeliverRequest, Deliver, ConsoleTimer, PrintConsole,
                FreeConsole, PollDebug, TakeDebug, FreeDebug, SendHeader, SendPayload, InjectTouches, QueueButton,
                ReadBits, SetBits, ReadEvents, SetEvents
  <2> QED BY <2>1 DEF MainOnly, display
<1>3. CASE \/ SeesRequest("console", "console") \/ SeesRequest("request", "debug")
           \/ ReadsLength \/ ReadsData \/ FreesRequest \/ WritesAnswer \/ RaisesAnswer
  <2>1. CpuOnly
    BY <1>3 DEF SeesRequest, ReadsLength, ReadsData, FreesRequest, WritesAnswer, RaisesAnswer
  <2> QED BY <2>1 DEF CpuOnly
<1>4. CASE TouchRead \/ ButtonRead \/ I2cPointer \/ I2cBeginRead \/ I2cEndRead
  BY <1>4 DEF TouchRead, ButtonRead, I2cPointer, I2cBeginRead, I2cEndRead, InputOnly
<1>5. CASE \/ SpiTransaction \/ BusyTimer \/ (\E pin \in BOOLEAN : ResetPin(pin)) \/ PublishFramebuffer
           \/ PublishDirect \/ EndPublish
  BY <1>5 DEF SpiTransaction, BusyTimer, ResetPin, PublishFramebuffer, PublishDirect, EndPublish, DisplayOnly, display
<1>6. CASE \E b \in Buffers \cup {None} : Exports(b)
  BY <1>6 DEF Exports, DisplayOnly
<1>7. CASE UNCHANGED linkVars
  BY <1>7 DEF linkVars
<1>8. CASE \E e \in Edges : SwapsEdges(e) \/ LoadsEdges(e) \/ StoresEdges(e)
  BY <1>8 DEF SwapsEdges, LoadsEdges, StoresEdges, CpuOnly
<1> QED BY <1>1, <1>2, <1>3, <1>4, <1>5, <1>6, <1>7, <1>8 DEF LinkNext, MainThread, Firmware

Publishes == open' # open /\ "vcpu" \in open'
LEMMA PublishesExported ==
  DisplayInv' /\ [LinkNext]_linkVars =>
    (firmware.panel = "ssd1677" /\ ~ firmware.direct /\ exported # None /\ Publishes
       => Pushed(panel') = Pictures[exported])
<1> SUFFICES ASSUME DisplayInv', [LinkNext]_linkVars,
                    firmware.panel = "ssd1677", ~ firmware.direct, exported # None, Publishes
             PROVE  Pushed(panel') = Pictures[exported]
  OBVIOUS
<1>1. firmware' = firmware /\ exported' = exported
  BY ExportsApart DEF Publishes
<1>2. Shown'
  BY DEF DisplayInv, Publishes
<1> QED BY <1>1, <1>2 DEF Shown

(* BUSY is never left up without its timer, the pointer set as the display *)
(* driver sets it reaches every byte of its window, and the frame          *)
(* published is the picture exported then (busy_timer_expired,             *)
(* advance_ram_pointer, mofei_inject_framebuffer).                         *)
THEOREM PanelStaysSound == LinkSpec => PanelSound
<1>1. LinkSpec => []DisplayInv
  BY DisplayStart, DisplayStep, PTL DEF LinkSpec
<1>2. DisplayInv' /\ [LinkNext]_linkVars =>
        [firmware.panel = "ssd1677" /\ ~ firmware.direct /\ exported # None /\ open' # open /\ "vcpu" \in open'
         => Pushed(panel') = Pictures[exported]]_linkVars
  BY PublishesExported DEF Publishes
<1> QED BY <1>1, <1>2, DisplayIsSound, PTL DEF LinkSpec, PanelSound

----------------------------------------------------------------------------
(* What comes of a sequence of sequences, joined one after the other.      *)
LEMMA FlattenIs ==
  ASSUME NEW V, NEW ss \in Seq(Seq(V))
  PROVE  \E g \in [0 .. Len(ss) -> Seq(V)] :
           /\ g[0] = << >> /\ \A n \in 1 .. Len(ss) : g[n] = g[n - 1] \o ss[n]
           /\ FlattenSeq(ss) = g[Len(ss)]
<1> DEFINE N == Len(ss)
           next == [k \in 1..N |-> [v \in Seq(V) |-> v \o ss[k]]]
           spec(f) == [i \in 1 .. Len(ss) |-> IF i = 1 THEN ss[i] ELSE f[i - 1] \o ss[i]]
           f == CHOOSE h : h = spec(h)
<1>1. N \in Nat /\ (\A n \in 1..N : ss[n] \in Seq(V)) /\ << >> \in Seq(V)
  BY ElementOfSeq
<1>2. FlattenSeq(ss) = IF N = 0 THEN ss ELSE f[N]
  BY DEF FlattenSeq
<1>3. N = 0 => ss = << >>
  OBVIOUS
<1>4. next \in [1..N -> [Seq(V) -> Seq(V)]]
  BY <1>1
<1>5. \A n \in 1..N, v \in Seq(V) : next[n][v] = v \o ss[n]
  OBVIOUS
<1> HIDE DEF next
<1>6. PICK g \in Steps(N, Seq(V), << >>, next) : TRUE
  <2> HIDE DEF N
  <2> QED BY <1>1, <1>4, StepsExist, ZenonT(40)
<1>7. g \in [0..N -> Seq(V)] /\ g[0] = << >> /\ \A k \in 1..N : g[k] = next[k][g[k - 1]]
  BY <1>6 DEF Steps
<1>8. \A n \in 1..N : g[n] = g[n - 1] \o ss[n] /\ g[n] \in Seq(V) /\ g[n - 1] \in Seq(V)
  <2> TAKE n \in 1..N
  <2>1. n - 1 \in 0..N /\ n \in 0..N
    BY <1>1
  <2>2. g[n - 1] \in Seq(V) /\ g[n] \in Seq(V)
    BY <1>7, <2>1
  <2> QED BY <1>5, <1>7, <2>2
<1> DEFINE h == [i \in 1..N |-> g[i]]
<1>9. h = spec(h)
  <2>1. ASSUME NEW i \in 1..N PROVE h[i] = IF i = 1 THEN ss[i] ELSE h[i - 1] \o ss[i]
    <3>1. CASE i = 1
      <4>0. i - 1 = 0 /\ ss[i] \in Seq(V)
        BY <1>1, <3>1
      <4>1. g[i] = << >> \o ss[i]
        <5>1. g[i] = g[i - 1] \o ss[i]
          BY <1>8, Zenon
        <5> QED BY <1>7, <4>0, <5>1, Zenon
      <4>2. g[i] = ss[i]
        BY <4>0, <4>1, ConcatEmptySeq
      <4> QED BY <3>1, <4>2
    <3>2. CASE i # 1
      <4>1. i - 1 \in 1..N
        BY <1>1, <3>2
      <4> QED BY <1>8, <3>2, <4>1
    <3> QED BY <3>1, <3>2
  <2>2. h = [i \in 1..N |-> h[i]]
    OBVIOUS
  <2> HIDE DEF h
  <2> QED BY <2>1, <2>2
<1>10. f = spec(f)
  <2> HIDE DEF spec, h
  <2> QED BY <1>9
<1> HIDE DEF f, N
<1>11. \A i \in 1..N : f[i] = IF i = 1 THEN ss[i] ELSE f[i - 1] \o ss[i]
  BY <1>10 DEF N
<1> DEFINE S == {n \in 0..N : n = 0 \/ f[n] = g[n]}
<1>12. S \in SUBSET Nat /\ 0 \in S
  BY <1>1
<1>13. ASSUME NEW n \in 0..N, n \in S, n < N PROVE n + 1 \in S
  <2>1. PICK m \in 1..N : m = n + 1 /\ m - 1 = n /\ m \in 0..N
    <3>1. N \in Nat /\ n \in 0..N /\ n < N
      BY <1>1, <1>13
    <3>2. n + 1 \in 1..N /\ n + 1 - 1 = n /\ n + 1 \in 0..N
      BY <3>1
    <3> QED BY <3>2
  <2>2. g[m] = g[n] \o ss[m]
    <3>1. g[m] = g[m - 1] \o ss[m]
      BY <1>8, Zenon
    <3> QED BY <2>1, <3>1, Zenon
  <2>3. f[m] = IF m = 1 THEN ss[m] ELSE f[n] \o ss[m]
    <3>1. f[m] = IF m = 1 THEN ss[m] ELSE f[m - 1] \o ss[m]
      BY <1>11, Zenon
    <3> QED BY <2>1, <3>1, Zenon
  <2>4. CASE n = 0
    <3>1. m = 1 /\ g[n] = << >> /\ ss[m] \in Seq(V)
      BY <1>1, <1>7, <2>1, <2>4
    <3>2. << >> \o ss[m] = ss[m]
      BY <3>1, ConcatEmptySeq
    <3>3. f[m] = ss[m] /\ g[m] = ss[m]
      BY <2>2, <2>3, <3>1, <3>2, Zenon
    <3> QED BY <2>1, <3>3
  <2>5. CASE n # 0
    <3>1. m # 1 /\ f[n] = g[n]
      BY <1>13, <2>1, <2>5
    <3>2. f[m] = g[m]
      BY <2>2, <2>3, <3>1, Zenon
    <3> QED BY <2>1, <3>2
  <2> QED BY <2>4, <2>5
<1>14. 0..N \subseteq S
  <2> HIDE DEF S
  <2> QED BY <1>1, <1>12, <1>13, Climb
<1>15. FlattenSeq(ss) = g[N]
  <2>1. N \in 0..N
    BY <1>1
  <2> QED BY <1>2, <1>3, <1>7, <1>14, <2>1
<1> QED BY <1>7, <1>8, <1>15 DEF N

LEMMA FlattenJoins ==
  ASSUME NEW V, NEW ss \in Seq(Seq(V)), NEW s \in Seq(V)
  PROVE  FlattenSeq(ss) \in Seq(V) /\ FlattenSeq(Append(ss, s)) = FlattenSeq(ss) \o s
<1> DEFINE N == Len(ss)
           t == Append(ss, s)
<1>1. N \in Nat /\ t \in Seq(Seq(V)) /\ Len(t) = N + 1 /\ t[N + 1] = s /\ \A n \in 1..N : t[n] = ss[n]
  BY AppendProperties
<1>2. PICK g \in [0..N -> Seq(V)] : /\ g[0] = << >> /\ \A n \in 1..N : g[n] = g[n - 1] \o ss[n]
                                    /\ FlattenSeq(ss) = g[N]
  BY FlattenIs
<1> HIDE DEF N, t
<1>3. PICK h \in [0..(N + 1) -> Seq(V)] : /\ h[0] = << >> /\ \A n \in 1..(N + 1) : h[n] = h[n - 1] \o t[n]
                                          /\ FlattenSeq(t) = h[N + 1]
  <2>1. \E h \in [0 .. Len(t) -> Seq(V)] : /\ h[0] = << >> /\ \A n \in 1 .. Len(t) : h[n] = h[n - 1] \o t[n]
                                           /\ FlattenSeq(t) = h[Len(t)]
    BY <1>1, FlattenIs
  <2> QED BY <1>1, <2>1
<1> DEFINE S == {n \in 0..N : h[n] = g[n]}
<1>4. S \in SUBSET Nat /\ 0 \in S
  BY <1>1, <1>2, <1>3
<1>5. ASSUME NEW n \in 0..N, n \in S, n < N PROVE n + 1 \in S
  <2>1. PICK m \in 1..N : m = n + 1 /\ m - 1 = n /\ m \in 1..(N + 1) /\ m \in 0..N
    BY <1>1, <1>5, SMTT(30)
  <2>2. g[m] = g[n] \o ss[m]
    <3>1. g[m] = g[m - 1] \o ss[m]
      BY <1>2, Zenon
    <3> QED BY <2>1, <3>1, Zenon
  <2>3. h[m] = h[n] \o t[m]
    <3>1. h[m] = h[m - 1] \o t[m]
      BY <1>3, <2>1, Zenon
    <3> QED BY <2>1, <3>1, Zenon
  <2>4. h[n] = g[n] /\ t[m] = ss[m]
    BY <1>1, <1>5
  <2>5. h[m] = g[m]
    BY <2>2, <2>3, <2>4, Zenon
  <2> QED BY <2>1, <2>5
<1>6. 0..N \subseteq S
  <2> HIDE DEF S
  <2> QED BY <1>1, <1>4, <1>5, Climb
<1>7. PICK m \in 1..(N + 1) : m = N + 1 /\ m - 1 = N /\ N \in 0..N
  BY <1>1
<1>8. h[m] = h[N] \o t[m]
  <2>1. h[m] = h[m - 1] \o t[m]
    BY <1>3, Zenon
  <2> QED BY <1>7, <2>1, Zenon
<1>9. h[N] = g[N] /\ t[m] = s /\ FlattenSeq(t) = h[m]
  BY <1>1, <1>3, <1>6, <1>7
<1>10. FlattenSeq(t) = FlattenSeq(ss) \o s
  BY <1>2, <1>8, <1>9, Zenon
<1>11. FlattenSeq(ss) \in Seq(V)
  BY <1>2, <1>7
<1> QED BY <1>10, <1>11 DEF t

(* What is heard and which keys are told grow with the frames.             *)
LEMMA OfFingersIs ==
  ASSUME NEW T, NEW batch \in Seq(T)
  PROVE  OfFingers(batch) \in Seq(T)
<1> DEFINE ss == [i \in DOMAIN batch |-> IF batch[i].finger \in Fingers THEN <<batch[i]>> ELSE << >>]
<1>1. ss \in Seq(Seq(T))
  <2>1. Len(batch) \in Nat /\ DOMAIN batch = 1 .. Len(batch) /\ \A i \in 1 .. Len(batch) : batch[i] \in T
    BY ElementOfSeq
  <2>2. \A e \in T : <<e>> \in Seq(T)
    OBVIOUS
  <2>3. \A i \in 1 .. Len(batch) : ss[i] \in Seq(T)
    BY <2>1, <2>2
  <2>4. ss = [i \in 1 .. Len(batch) |-> ss[i]]
    BY <2>1
  <2> HIDE DEF ss
  <2> QED BY <2>1, <2>3, <2>4, IsASeq
<1>2. OfFingers(batch) = FlattenSeq(ss)
  BY DEF OfFingers
<1> HIDE DEF ss
<1> QED BY <1>1, <1>2, FlattenJoins

LEMMA PartsJoin ==
  ASSUME NEW V, NEW N \in Nat, NEW b \in [1..N -> Seq(V)], NEW a \in [1..(N + 1) -> Seq(V)],
         \A i \in 1..N : a[i] = b[i]
  PROVE  FlattenSeq(b) \in Seq(V) /\ FlattenSeq(a) = FlattenSeq(b) \o a[N + 1]
<1> DEFINE s == a[N + 1]
           t == Append(b, s)
<1>1. b \in Seq(Seq(V)) /\ Len(b) = N /\ a \in Seq(Seq(V)) /\ Len(a) = N + 1 /\ s \in Seq(V)
  OBVIOUS
<1> HIDE DEF s
<1>2. t \in Seq(Seq(V)) /\ Len(t) = N + 1 /\ t[N + 1] = s /\ \A i \in 1..N : t[i] = b[i]
  BY <1>1, AppendProperties
<1> HIDE DEF t
<1>3. \A i \in 1..(N + 1) : t[i] = a[i]
  <2>1. \A i \in 1..(N + 1) : i = N + 1 \/ i \in 1..N
    OBVIOUS
  <2> QED BY <1>2, <2>1 DEF s
<1>4. a = t
  BY <1>1, <1>2, <1>3, SeqEqual
<1>5. FlattenSeq(b) \in Seq(V) /\ FlattenSeq(t) = FlattenSeq(b) \o s
  BY <1>1, FlattenJoins DEF t
<1> QED BY <1>4, <1>5 DEF s

(* Of the touches heard, the last of each finger counts.                   *)
LEMMA Greatest ==
  ASSUME NEW N \in Nat, NEW S \in SUBSET (1..N), S # {}
  PROVE  Max(S) \in S /\ \A n \in S : n <= Max(S)
<1> DEFINE Above == {m \in 0..N : \A n \in S : n <= m}
<1>1. Above \in SUBSET Nat /\ N \in Above
  OBVIOUS
<1>2. PICK m \in Above : \A k \in Above : m <= k
  <2> HIDE DEF Above
  <2> QED BY <1>1, LeastMember
<1>3. m \in 0..N /\ \A n \in S : n \in 1..N /\ n <= m
  BY <1>2
<1>4. m \in S
  <2> SUFFICES ASSUME m \notin S PROVE FALSE
    OBVIOUS
  <2>1. PICK n \in S : n \in 1..N /\ n <= m
    BY <1>3
  <2>2. m - 1 \in 0..N /\ ~ (m <= m - 1)
    BY <1>3, <2>1
  <2>3. \A k \in S : k <= m - 1
    BY <1>3
  <2>4. m - 1 \in Above
    BY <2>2, <2>3
  <2> QED BY <1>2, <2>2, <2>4
<1>5. \E x \in S : \A y \in S : x >= y
  BY <1>3, <1>4
<1>6. Max(S) \in S /\ \A y \in S : Max(S) >= y
  BY <1>5 DEF Max
<1> QED BY <1>3, <1>6

\* The place k of the last touch of the finger f.
IsLast(batch, f, k) ==
  /\ k \in 1 .. Len(batch) /\ batch[k].finger = f
  /\ \A i \in 1 .. Len(batch) : i > k => batch[i].finger # f

LEMMA LastIs ==
  ASSUME NEW T, NEW batch \in Seq(T), NEW f
  PROVE  /\ ~ Touched(batch, f) <=> \A i \in 1 .. Len(batch) : batch[i].finger # f
         /\ Touched(batch, f) => IsLast(batch, f, LastOf(batch, f))
         /\ \A k : IsLast(batch, f, k) => Touched(batch, f) /\ LastOf(batch, f) = k
<1> DEFINE S == {i \in 1 .. Len(batch) : batch[i].finger = f}
<1>1. LastOf(batch, f) = IF S # {} THEN Max(S) ELSE 0
  BY DEF LastOf, SelectLastInSeq
<1>2. Len(batch) \in Nat /\ S \in SUBSET (1 .. Len(batch))
  OBVIOUS
<1>3. S # {} => Max(S) \in S /\ \A n \in S : n <= Max(S)
  <2> HIDE DEF S
  <2> QED BY <1>2, Greatest
<1>4. S # {} => LastOf(batch, f) \in 1 .. Len(batch) /\ IsLast(batch, f, LastOf(batch, f))
  <2> SUFFICES ASSUME S # {} PROVE IsLast(batch, f, LastOf(batch, f))
    BY DEF IsLast
  <2> DEFINE k == LastOf(batch, f)
  <2>1. k \in S /\ \A n \in S : n <= k
    BY <1>1, <1>3
  <2> HIDE DEF k
  <2>2. \A i \in 1 .. Len(batch) : i > k => i \notin S
    BY <1>2, <2>1
  <2>3. IsLast(batch, f, k)
    BY <2>1, <2>2 DEF IsLast
  <2> QED BY <2>3 DEF k
<1>5. Touched(batch, f) <=> S # {}
  <2>1. S # {} => LastOf(batch, f) # 0
    BY <1>2, <1>4
  <2> QED BY <1>1, <2>1 DEF Touched
<1>6. ASSUME NEW k, IsLast(batch, f, k) PROVE S # {} /\ LastOf(batch, f) = k
  <2>1. k \in S /\ k \in 1 .. Len(batch)
    BY <1>6 DEF IsLast
  <2>2. IsLast(batch, f, LastOf(batch, f)) /\ LastOf(batch, f) \in 1 .. Len(batch)
    BY <1>4, <2>1
  <2>3. ~ (LastOf(batch, f) > k) /\ ~ (k > LastOf(batch, f))
    BY <1>6, <2>1, <2>2 DEF IsLast
  <2> QED BY <1>2, <2>1, <2>2, <2>3
<1> QED BY <1>4, <1>5, <1>6

LEMMA AfterJoins ==
  ASSUME NEW seed, NEW T, NEW x \in Seq(T), NEW y \in Seq(T)
  PROVE  After(After(seed, x), y) = After(seed, x \o y)
<1> DEFINE z == x \o y
           mid == After(seed, x)
<1>1. /\ Len(x) \in Nat /\ Len(y) \in Nat /\ z \in Seq(T) /\ Len(z) = Len(x) + Len(y)
      /\ \A i \in 1 .. Len(z) : z[i] = IF i <= Len(x) THEN x[i] ELSE y[i - Len(x)]
  BY ConcatProperties
<1> HIDE DEF z
<1>2. ASSUME NEW f \in Fingers, Touched(y, f)
      PROVE  Touched(z, f) /\ z[LastOf(z, f)] = y[LastOf(y, f)]
  <2> DEFINE k == LastOf(y, f)
             j == Len(x) + LastOf(y, f)
  <2>1. IsLast(y, f, k)
    BY <1>2, LastIs
  <2>2. k \in 1 .. Len(y) /\ y[k].finger = f
    BY <2>1 DEF IsLast
  <2> HIDE DEF k
  <2>3. j \in 1 .. Len(z) /\ ~ (j <= Len(x)) /\ j - Len(x) = k
    BY <1>1, <2>2 DEF k
  <2> HIDE DEF j
  <2>4. z[j] = y[k]
    BY <1>1, <2>3
  <2>5. ASSUME NEW i \in 1 .. Len(z), i > j PROVE z[i].finger # f
    <3>1. ~ (i <= Len(x)) /\ i - Len(x) \in 1 .. Len(y) /\ i - Len(x) > k
      BY <1>1, <2>3, <2>5
    <3>2. z[i] = y[i - Len(x)]
      BY <1>1, <3>1
    <3> QED BY <2>1, <3>1, <3>2 DEF IsLast
  <2>6. IsLast(z, f, j)
    BY <2>2, <2>3, <2>4, <2>5 DEF IsLast
  <2> QED BY <1>1, <2>4, <2>6, LastIs DEF k
<1>3. ASSUME NEW f \in Fingers, ~ Touched(y, f), Touched(x, f)
      PROVE  Touched(z, f) /\ z[LastOf(z, f)] = x[LastOf(x, f)]
  <2> DEFINE k == LastOf(x, f)
  <2>1. IsLast(x, f, k) /\ \A i \in 1 .. Len(y) : y[i].finger # f
    BY <1>3, LastIs
  <2> HIDE DEF k
  <2>2. k \in 1 .. Len(x) /\ x[k].finger = f
    BY <2>1 DEF IsLast
  <2>3. k \in 1 .. Len(z) /\ k <= Len(x)
    BY <1>1, <2>2
  <2>4. z[k] = x[k]
    BY <1>1, <2>3
  <2>5. ASSUME NEW i \in 1 .. Len(z), i > k PROVE z[i].finger # f
    <3>1. CASE i <= Len(x)
      <4>1. i \in 1 .. Len(x) /\ z[i] = x[i]
        BY <1>1, <3>1
      <4> QED BY <2>1, <2>5, <4>1 DEF IsLast
    <3>2. CASE ~ (i <= Len(x))
      <4>1. i - Len(x) \in 1 .. Len(y) /\ z[i] = y[i - Len(x)]
        BY <1>1, <3>2
      <4> QED BY <2>1, <4>1
    <3> QED BY <3>1, <3>2
  <2>6. IsLast(z, f, k)
    BY <2>2, <2>3, <2>4, <2>5 DEF IsLast
  <2> QED BY <1>1, <2>4, <2>6, LastIs DEF k
<1>4. ASSUME NEW f \in Fingers, ~ Touched(y, f), ~ Touched(x, f)
      PROVE  ~ Touched(z, f)
  <2>1. /\ \A i \in 1 .. Len(y) : y[i].finger # f
        /\ \A i \in 1 .. Len(x) : x[i].finger # f
    BY <1>4, LastIs
  <2>2. ASSUME NEW i \in 1 .. Len(z) PROVE z[i].finger # f
    <3>1. CASE i <= Len(x)
      <4>1. i \in 1 .. Len(x) /\ z[i] = x[i]
        BY <1>1, <3>1
      <4> QED BY <2>1, <4>1
    <3>2. CASE ~ (i <= Len(x))
      <4>1. i - Len(x) \in 1 .. Len(y) /\ z[i] = y[i - Len(x)]
        BY <1>1, <3>2
      <4> QED BY <2>1, <4>1
    <3> QED BY <3>1, <3>2
  <2> QED BY <1>1, <2>2, LastIs
<1> DEFINE Of(t) == IF t.action = "up" THEN Lifted ELSE t.at
<1>5. ASSUME NEW f \in Fingers, NEW a, NEW b
      PROVE After(a, b)[f] = IF ~ Touched(b, f) THEN a[f] ELSE Of(b[LastOf(b, f)])
  BY DEF After
<1>6. \A f \in Fingers : After(mid, y)[f] = After(seed, z)[f]
  <2> TAKE f \in Fingers
  <2>1. /\ mid[f] = IF ~ Touched(x, f) THEN seed[f] ELSE Of(x[LastOf(x, f)])
        /\ After(mid, y)[f] = IF ~ Touched(y, f) THEN mid[f] ELSE Of(y[LastOf(y, f)])
        /\ After(seed, z)[f] = IF ~ Touched(z, f) THEN seed[f] ELSE Of(z[LastOf(z, f)])
    BY <1>5
  <2> HIDE DEF mid, Of
  <2> QED BY <1>2, <1>3, <1>4, <2>1
<1>7. \A a, b : After(a, b) = [f \in Fingers |-> After(a, b)[f]]
  BY DEF After
<1>8. After(mid, y) = After(seed, z)
  <2> HIDE DEF mid
  <2>1. /\ After(mid, y) = [f \in Fingers |-> After(mid, y)[f]]
        /\ After(seed, z) = [f \in Fingers |-> After(seed, z)[f]]
    BY <1>7
  <2> QED BY <1>6, <2>1
<1> QED BY <1>8 DEF z

(* A queue keeps the end of what was put into it.                          *)
LEMMA QueuedAllIs ==
  ASSUME NEW base, NEW V, NEW data \in Seq(V)
  PROVE  \E at : /\ at[0] = base /\ \A n \in 1 .. Len(data) : at[n] = Queued(at[n - 1], data[n])
                 /\ QueuedAll(base, data) = at[Len(data)]
<1> DEFINE N == Len(data)
<1>0. N \in Nat /\ DOMAIN data = 1..N
  OBVIOUS
<1> HIDE DEF N
<1> USE <1>0
<1> DEFINE next(h, n) == [s \in SUBSET (1..n) |->
                            IF s = {} THEN base ELSE Queued(h[s \ {Max(s)}], data[Max(s)])]
           Found == {n \in 0..N : \E h : h = next(h, n)}
           iter == CHOOSE h : h = next(h, N)
<1>1. QueuedAll(base, data) = iter[1..N]
  BY <1>0 DEF QueuedAll, FoldLeft, MapThenFoldSet
<1>2. ASSUME NEW n \in Nat, NEW s \in SUBSET (1..n), n \in s PROVE Max(s) = n
  <2>1. n \in s /\ \A y \in s : n >= y
    BY <1>2
  <2>2. \A x \in s : (\A y \in s : x >= y) => x = n
    BY <1>2
  <2> QED BY <2>1, <2>2 DEF Max
<1>3. 0 \in Found
  <2> DEFINE h == [s \in SUBSET (1..0) |-> base]
  <2>1. SUBSET (1..0) = {{}}
    OBVIOUS
  <2>2. h = next(h, 0)
    BY <2>1
  <2> HIDE DEF h, next
  <2> QED BY <2>2
<1>4. ASSUME NEW n \in 0..N, n \in Found, n < N PROVE n + 1 \in Found
  <2>1. PICK h : h = next(h, n)
    BY <1>4
  <2>2. n \in Nat /\ n + 1 \in Nat /\ n + 1 \in 0..N /\ n + 1 \notin 1..n
    BY <1>4
  <2> DEFINE g == [s \in SUBSET (1..(n + 1)) |->
                     IF n + 1 \in s THEN Queued(h[s \ {n + 1}], data[n + 1]) ELSE h[s]]
  <2>3. ASSUME NEW s \in SUBSET (1..(n + 1)), n + 1 \notin s PROVE s \in SUBSET (1..n)
    BY <2>2, <2>3
  <2>4. \A s \in SUBSET (1..n) : s \in SUBSET (1..(n + 1)) /\ n + 1 \notin s
    BY <2>2
  <2>5. \A s \in SUBSET (1..n) : h[s] = IF s = {} THEN base ELSE Queued(h[s \ {Max(s)}], data[Max(s)])
    BY <2>1
  <2>6. ASSUME NEW s \in SUBSET (1..(n + 1))
        PROVE  g[s] = IF s = {} THEN base ELSE Queued(g[s \ {Max(s)}], data[Max(s)])
    <3>1. CASE n + 1 \in s
      <4>1. Max(s) = n + 1 /\ s # {}
        BY <1>2, <2>2, <3>1
      <4>2. s \ {n + 1} \in SUBSET (1..(n + 1)) /\ n + 1 \notin s \ {n + 1}
        OBVIOUS
      <4>3. g[s \ {n + 1}] = h[s \ {n + 1}]
        BY <4>2
      <4>4. g[s] = Queued(h[s \ {n + 1}], data[n + 1])
        BY <3>1
      <4> HIDE DEF g
      <4> QED BY <4>1, <4>3, <4>4
    <3>2. CASE n + 1 \notin s
      <4>1. s \in SUBSET (1..n) /\ s \ {Max(s)} \in SUBSET (1..n)
        BY <2>3, <3>2
      <4>2. g[s] = h[s]
        BY <3>2
      <4>3. g[s \ {Max(s)}] = h[s \ {Max(s)}]
        BY <2>4, <4>1
      <4> HIDE DEF g
      <4> QED BY <2>5, <4>1, <4>2, <4>3
    <3> QED BY <3>1, <3>2
  <2>7. g = next(g, n + 1)
    <3>1. g = [s \in SUBSET (1..(n + 1)) |-> g[s]]
      OBVIOUS
    <3> HIDE DEF g
    <3> QED BY <2>6, <3>1
  <2> HIDE DEF g, next
  <2> QED BY <2>2, <2>7
<1>5. N \in Found
  <2>1. Found \in SUBSET Nat
    OBVIOUS
  <2> HIDE DEF Found
  <2>2. 0..N \subseteq Found
    BY <1>3, <1>4, <2>1, Climb
  <2> QED BY <2>2
<1>6. iter = next(iter, N)
  <2>1. \E h : h = next(h, N)
    BY <1>5
  <2> HIDE DEF next
  <2> QED BY <2>1
<1> HIDE DEF iter
<1>7. \A s \in SUBSET (1..N) : iter[s] = IF s = {} THEN base ELSE Queued(iter[s \ {Max(s)}], data[Max(s)])
  BY <1>6
<1> DEFINE at == [n \in 0..N |-> iter[1..n]]
<1>8. at[0] = base
  <2>1. 1..0 = {} /\ {} \in SUBSET (1..N) /\ 0 \in 0..N
    OBVIOUS
  <2>2. iter[{}] = base
    BY <1>7, <2>1
  <2> QED BY <2>1, <2>2
<1>9. ASSUME NEW n \in 1..N PROVE at[n] = Queued(at[n - 1], data[n])
  <2>0. n \in Nat /\ n \in 1..n
    OBVIOUS
  <2>1. 1..n \in SUBSET (1..N) /\ (1..n) \ {n} = 1..(n - 1)
    BY <2>0
  <2>2. Max(1..n) = n
    BY <1>2, <2>0
  <2>3. iter[1..n] = Queued(iter[1..(n - 1)], data[n])
    <3>1. 1..n # {}
      BY <2>0, Zenon
    <3> QED BY <1>7, <2>1, <2>2, <3>1
  <2>4. n \in 0..N /\ n - 1 \in 0..N
    OBVIOUS
  <2> QED BY <2>3, <2>4
<1>10. at[N] = iter[1..N]
  OBVIOUS
<1> HIDE DEF at
<1> QED BY <1>1, <1>8, <1>9, <1>10 DEF N

Tails(V, q, h) ==
  /\ q \in Seq(V) /\ h \in Seq(V) /\ Len(q) <= Len(h)
  /\ \A i \in 1 .. Len(q) : q[i] = h[Len(h) - Len(q) + i]

LEMMA QueuedTails ==
  ASSUME NEW V, NEW q, NEW h, Tails(V, q, h), NEW e \in V
  PROVE  Tails(V, Queued(q, e), Append(h, e))
<1> DEFINE kept == IF Len(q) = QueueCap THEN Tail(q) ELSE q
           g == Append(h, e)
           r == Append(kept, e)
<1>1. /\ q \in Seq(V) /\ h \in Seq(V) /\ Len(q) \in Nat /\ Len(h) \in Nat /\ Len(q) <= Len(h)
      /\ \A i \in 1 .. Len(q) : q[i] = h[Len(h) - Len(q) + i]
  BY DEF Tails
<1>2. kept \in Seq(V) /\ Len(kept) <= Len(h) /\ \A i \in 1 .. Len(kept) : kept[i] = h[Len(h) - Len(kept) + i]
  <2>1. CASE Len(q) = QueueCap
    <3>1. q # << >>
      BY <2>1, InputAssumption
    <3>2. /\ Tail(q) \in Seq(V) /\ Len(Tail(q)) = Len(q) - 1
          /\ \A i \in 1 .. Len(Tail(q)) : Tail(q)[i] = q[i + 1]
      BY <1>1, <3>1, HeadTailProperties
    <3>3. \A i \in 1 .. Len(Tail(q)) : Tail(q)[i] = h[Len(h) - Len(Tail(q)) + i]
      <4> TAKE i \in 1 .. Len(Tail(q))
      <4>1. i + 1 \in 1 .. Len(q) /\ Len(h) - Len(q) + (i + 1) = Len(h) - Len(Tail(q)) + i
        BY <1>1, <3>2
      <4>2. q[i + 1] = h[Len(h) - Len(q) + (i + 1)]
        BY <1>1, <4>1
      <4> QED BY <3>2, <4>1, <4>2
    <3>4. kept = Tail(q) /\ Len(Tail(q)) <= Len(h)
      BY <1>1, <2>1, <3>2
    <3> HIDE DEF kept
    <3> QED BY <3>2, <3>3, <3>4
  <2>2. CASE Len(q) # QueueCap
    BY <1>1, <2>2
  <2> QED BY <2>1, <2>2
<1> HIDE DEF kept
<1>3. /\ g \in Seq(V) /\ Len(g) = Len(h) + 1 /\ g[Len(h) + 1] = e /\ \A i \in 1 .. Len(h) : g[i] = h[i]
      /\ r \in Seq(V) /\ Len(r) = Len(kept) + 1 /\ r[Len(kept) + 1] = e /\ \A i \in 1 .. Len(kept) : r[i] = kept[i]
  BY <1>1, <1>2, AppendProperties
<1> HIDE DEF g, r
<1>4. Len(kept) \in Nat
  BY <1>2
<1>5. \A i \in 1 .. Len(r) : r[i] = g[Len(g) - Len(r) + i]
  <2> TAKE i \in 1 .. Len(r)
  <2>1. CASE i = Len(kept) + 1
    <3>1. Len(g) - Len(r) + i = Len(h) + 1
      BY <1>1, <1>3, <1>4, <2>1
    <3> QED BY <1>3, <2>1, <3>1
  <2>2. CASE i # Len(kept) + 1
    <3>1. i \in 1 .. Len(kept) /\ Len(g) - Len(r) + i \in 1 .. Len(h)
          /\ Len(g) - Len(r) + i = Len(h) - Len(kept) + i
      BY <1>1, <1>2, <1>3, <1>4, <2>2
    <3>2. r[i] = kept[i] /\ kept[i] = h[Len(h) - Len(kept) + i]
      BY <1>2, <1>3, <3>1
    <3>3. g[Len(g) - Len(r) + i] = h[Len(g) - Len(r) + i]
      BY <1>3, <3>1
    <3> QED BY <3>1, <3>2, <3>3
  <2> QED BY <2>1, <2>2
<1>6. Tails(V, r, g)
  BY <1>1, <1>2, <1>3, <1>4, <1>5 DEF Tails
<1> QED BY <1>6 DEF Queued, kept, g, r

LEMMA AppendJoins ==
  ASSUME NEW V, NEW h \in Seq(V), NEW s \in Seq(V), NEW e \in V
  PROVE  h \o Append(s, e) = Append(h \o s, e)
<1> DEFINE t == Append(s, e)
           hs == h \o s
           x == h \o t
           y == Append(hs, e)
<1>1. /\ t \in Seq(V) /\ Len(t) = Len(s) + 1 /\ t[Len(s) + 1] = e /\ \A i \in 1 .. Len(s) : t[i] = s[i]
      /\ Len(h) \in Nat /\ Len(s) \in Nat
  BY AppendProperties
<1>2. /\ hs \in Seq(V) /\ Len(hs) = Len(h) + Len(s)
      /\ \A i \in 1 .. Len(h) + Len(s) : hs[i] = IF i <= Len(h) THEN h[i] ELSE s[i - Len(h)]
  BY ConcatProperties
<1> HIDE DEF t, hs
<1>3. /\ x \in Seq(V) /\ Len(x) = Len(h) + Len(t)
      /\ \A i \in 1 .. Len(h) + Len(t) : x[i] = IF i <= Len(h) THEN h[i] ELSE t[i - Len(h)]
  BY <1>1, ConcatProperties
<1>4. /\ y \in Seq(V) /\ Len(y) = Len(hs) + 1 /\ y[Len(hs) + 1] = e /\ \A i \in 1 .. Len(hs) : y[i] = hs[i]
  <2>1. hs \in Seq(V)
    BY <1>2
  <2> QED BY <2>1, AppendProperties
<1> HIDE DEF x, y
<1>5. Len(x) = Len(y)
  BY <1>1, <1>2, <1>3, <1>4
<1>6. \A i \in 1 .. Len(x) : x[i] = y[i]
  <2> TAKE i \in 1 .. Len(x)
  <2>1. CASE i = Len(hs) + 1
    <3>1. ~ (i <= Len(h)) /\ i - Len(h) = Len(s) + 1
      BY <1>1, <1>2, <2>1
    <3> QED BY <1>1, <1>3, <1>4, <2>1, <3>1
  <2>2. CASE i # Len(hs) + 1
    <3>1. i \in 1 .. Len(hs) /\ (~ (i <= Len(h)) => i - Len(h) \in 1 .. Len(s))
      BY <1>1, <1>2, <1>3, <2>2
    <3> QED BY <1>1, <1>2, <1>3, <1>4, <3>1
  <2> QED BY <2>1, <2>2
<1>7. x = y
  BY <1>3, <1>4, <1>5, <1>6, SeqEqual
<1> QED BY <1>7 DEF x, y, t, hs

LEMMA QueuedAllTails ==
  ASSUME NEW V, NEW q, NEW h, Tails(V, q, h), NEW es \in Seq(V)
  PROVE  Tails(V, QueuedAll(q, es), h \o es)
<1> DEFINE N == Len(es)
           put(n) == h \o SubSeq(es, 1, n)
<1>1. N \in Nat /\ DOMAIN es = 1..N /\ (\A n \in 1..N : es[n] \in V) /\ h \in Seq(V)
  <2>1. Len(es) \in Nat /\ DOMAIN es = 1 .. Len(es) /\ \A n \in 1 .. Len(es) : es[n] \in V
    BY ElementOfSeq
  <2> QED BY <2>1 DEF Tails
<1>2. PICK at : /\ at[0] = q /\ \A n \in 1..N : at[n] = Queued(at[n - 1], es[n])
                /\ QueuedAll(q, es) = at[N]
  BY QueuedAllIs
<1> DEFINE S == {n \in 0..N : Tails(V, at[n], put(n))}
<1>3. 0 \in S
  <2>1. SubSeq(es, 1, 0) = << >>
    BY SubSeqEmpty
  <2>2. put(0) = h
    BY <1>1, <2>1, ConcatEmptySeq
  <2> HIDE DEF put
  <2> QED BY <1>1, <1>2, <2>2
<1>4. ASSUME NEW n \in 0..N, n \in S, n < N PROVE n + 1 \in S
  <2>1. PICK m \in 1..N : m = n + 1 /\ m - 1 = n /\ m \in 0..N
    BY <1>1, <1>4
  <2>2. at[m] = Queued(at[n], es[m])
    <3>1. at[m] = Queued(at[m - 1], es[m])
      BY <1>2, Zenon
    <3> QED BY <2>1, <3>1, Zenon
  <2>3. put(m) = Append(put(n), es[m])
    <3>1. m \in 1 .. Len(es) /\ 1 \in 1 .. Len(es) /\ m \in 1 .. Len(es) /\ m \in Int /\ n \in Int
      BY <1>1, <2>1
    <3>2. SubSeq(es, 1, m) = SubSeq(es, 1, m - 1) \o <<es[m]>>
      <4>1. m \in 1 .. Len(es) /\ 1 \in 1 .. Len(es)
        BY <3>1
      <4> HIDE DEF N
      <4> QED BY <4>1, SubSeqRecursiveSecond
    <3>3. SubSeq(es, 1, m) = SubSeq(es, 1, n) \o <<es[m]>>
      BY <2>1, <3>2, Zenon
    <3>4. \A i \in 1..n : es[i] \in V
      BY <1>1, <2>1
    <3>5. SubSeq(es, 1, n) \in Seq(V) /\ es[m] \in V
      <4>1. SubSeq(es, 1, n) \in Seq(V)
        BY <3>1, <3>4, SubSeqProperties
      <4>2. es[m] \in V
        BY <1>1
      <4> QED BY <4>1, <4>2
    <3>6. SubSeq(es, 1, m) = Append(SubSeq(es, 1, n), es[m])
      BY <3>3, <3>5, AppendIsConcat
    <3>7. h \in Seq(V)
      BY <1>1
    <3>8. PICK s \in Seq(V) : s = SubSeq(es, 1, n)
      BY <3>5
    <3>9. h \o Append(s, es[m]) = Append(h \o s, es[m])
      BY <3>5, <3>7, AppendJoins
    <3> QED BY <3>6, <3>8, <3>9, Zenon
  <2>4. Tails(V, at[n], put(n)) /\ es[m] \in V
    BY <1>1, <1>4
  <2> HIDE DEF put
  <2>5. Tails(V, at[m], put(m))
    BY <2>2, <2>3, <2>4, QueuedTails
  <2> QED BY <2>1, <2>5
<1>5. S \in SUBSET Nat
  BY <1>1
<1>6. 0..N \subseteq S
  <2> HIDE DEF S, N
  <2> QED BY <1>1, <1>3, <1>4, <1>5, Climb
<1>7. Tails(V, at[N], put(N))
  <2>1. N \in 0..N
    BY <1>1
  <2> HIDE DEF put, N
  <2> QED BY <1>6, <2>1
<1>8. put(N) = h \o es
  BY SubSeqFull
<1> HIDE DEF put
<1> QED BY <1>2, <1>7, <1>8

LEMMA TailTails ==
  ASSUME NEW V, NEW q, NEW h, Tails(V, q, h), q # << >>
  PROVE  Tails(V, Tail(q), h)
<1>1. /\ q \in Seq(V) /\ h \in Seq(V) /\ Len(q) \in Nat /\ Len(h) \in Nat /\ Len(q) <= Len(h)
      /\ \A i \in 1 .. Len(q) : q[i] = h[Len(h) - Len(q) + i]
  BY DEF Tails
<1>2. /\ Tail(q) \in Seq(V) /\ Len(Tail(q)) = Len(q) - 1
      /\ \A i \in 1 .. Len(Tail(q)) : Tail(q)[i] = q[i + 1]
  BY <1>1, HeadTailProperties
<1>3. \A i \in 1 .. Len(Tail(q)) : Tail(q)[i] = h[Len(h) - Len(Tail(q)) + i]
  <2> TAKE i \in 1 .. Len(Tail(q))
  <2>1. i + 1 \in 1 .. Len(q) /\ Len(h) - Len(q) + (i + 1) = Len(h) - Len(Tail(q)) + i
    BY <1>1, <1>2
  <2>2. q[i + 1] = h[Len(h) - Len(q) + (i + 1)]
    BY <1>1, <2>1
  <2> QED BY <1>2, <2>1, <2>2
<1>4. Len(Tail(q)) <= Len(h)
  BY <1>1, <1>2
<1> QED BY <1>1, <1>2, <1>3, <1>4 DEF Tails

LEMMA TailsIsSuffix ==
  ASSUME NEW V, NEW q, NEW h, Tails(V, q, h)
  PROVE  IsSuffix(q, h)
<1> DEFINE rq == Reverse(q)
           rh == Reverse(h)
<1>1. /\ q \in Seq(V) /\ h \in Seq(V) /\ Len(q) \in Nat /\ Len(h) \in Nat /\ Len(q) <= Len(h)
      /\ \A i \in 1 .. Len(q) : q[i] = h[Len(h) - Len(q) + i]
  BY DEF Tails
<1>2. ASSUME NEW s \in Seq(V)
      PROVE /\ Reverse(s) \in Seq(V) /\ Len(Reverse(s)) = Len(s)
            /\ \A i \in 1 .. Len(s) : Reverse(s)[i] = s[Len(s) - i + 1]
  <2>1. Len(s) \in Nat
    OBVIOUS
  <2>2. \A i \in 1 .. Len(s) : Len(s) - i + 1 \in 1 .. Len(s)
    BY <2>1
  <2>3. \A i \in 1 .. Len(s) : s[Len(s) - i + 1] \in V
    BY <2>2, ElementOfSeq
  <2>4. Reverse(s) = [i \in 1 .. Len(s) |-> s[Len(s) - i + 1]]
    BY DEF Reverse
  <2>5. Reverse(s) \in Seq(V)
    BY <2>1, <2>3, <2>4, IsASeq
  <2> QED BY <2>1, <2>4, <2>5
<1>3. /\ rq \in Seq(V) /\ Len(rq) = Len(q) /\ rh \in Seq(V) /\ Len(rh) = Len(h)
      /\ \A i \in 1 .. Len(q) : rq[i] = q[Len(q) - i + 1]
      /\ \A i \in 1 .. Len(h) : rh[i] = h[Len(h) - i + 1]
  BY <1>1, <1>2
<1> HIDE DEF rq, rh
<1>4. \A i \in 1 .. Len(q) : rq[i] = rh[i] /\ rh[i] \in V
  <2> TAKE i \in 1 .. Len(q)
  <2>1. i \in 1 .. Len(h) /\ Len(q) - i + 1 \in 1 .. Len(q)
        /\ Len(h) - Len(q) + (Len(q) - i + 1) = Len(h) - i + 1
    BY <1>1
  <2>2. q[Len(q) - i + 1] = h[Len(h) - Len(q) + (Len(q) - i + 1)]
    BY <1>1, <2>1
  <2>3. rh[i] \in V
    BY <1>3, <2>1, ElementOfSeq
  <2> QED BY <1>3, <2>1, <2>2, <2>3
<1>5. SubSeq(rq, 1, Len(rq)) = SubSeq(rh, 1, Len(rq))
  <2>1. SubSeq(rq, 1, Len(rq)) = rq
    BY <1>3, SubSeqFull
  <2> DEFINE s == SubSeq(rh, 1, Len(q))
  <2>2. s \in Seq(V) /\ Len(s) = Len(q) /\ \A i \in 1 .. Len(q) : s[i] = rh[i]
    <3>1. 1 \in Int /\ Len(q) \in Int /\ \A i \in 1 .. Len(q) : rh[i] \in V
      BY <1>1, <1>4
    <3>2. /\ s \in Seq(V)
          /\ Len(s) = IF 1 <= Len(q) THEN Len(q) - 1 + 1 ELSE 0
          /\ \A i \in 1 .. Len(q) - 1 + 1 : s[i] = rh[1 + i - 1]
      BY <3>1, SubSeqProperties
    <3> HIDE DEF s
    <3> QED BY <1>1, <3>2
  <2> HIDE DEF s
  <2>3. s = rq
    BY <1>3, <1>4, <2>2, SeqEqual
  <2> QED BY <1>3, <2>1, <2>3 DEF s
<1>6. IsPrefix(rq, rh)
  BY <1>1, <1>3, <1>5 DEF IsPrefix
<1> QED BY <1>6 DEF IsSuffix, rq, rh

HeardOf(f) == IF f.ch = "touch" /\ f.len > 0 THEN OfFingers(f.what) ELSE << >>
KeysOf(f) == IF f.ch = "button" /\ f.len > 0 THEN <<f.what>> ELSE << >>
Keys == {f.what : f \in firmware.traffic}

LEMMA HeardGrows ==
  ASSUME firmware \in Firmwares, NEW d \in Seq(firmware.traffic), NEW f \in firmware.traffic
  PROVE  /\ HeardIn(d) \in Seq(Touches) /\ HeardOf(f) \in Seq(Touches)
         /\ HeardIn(Append(d, f)) = HeardIn(d) \o HeardOf(f)
<1> DEFINE F == firmware.traffic
           t == Append(d, f)
           before == [i \in DOMAIN d |-> HeardOf(d[i])]
           after == [i \in DOMAIN t |-> HeardOf(t[i])]
<1>1. \A g \in F : HeardOf(g) \in Seq(Touches)
  <2> TAKE g \in F
  <2>1. CASE g.ch = "touch" /\ g.len > 0
    <3>1. g.what \in Seq(Touches)
      BY <2>1, LinkAssumption
    <3> QED BY <2>1, <3>1, OfFingersIs DEF HeardOf
  <2>2. CASE ~ (g.ch = "touch" /\ g.len > 0)
    BY <2>2 DEF HeardOf
  <2> QED BY <2>1, <2>2
<1>2. /\ Len(d) \in Nat /\ DOMAIN d = 1 .. Len(d) /\ (\A i \in 1 .. Len(d) : d[i] \in F /\ t[i] = d[i])
      /\ DOMAIN t = 1 .. (Len(d) + 1) /\ t[Len(d) + 1] = f
  BY AppendProperties
<1> HIDE DEF t
<1>3. /\ before = [i \in 1 .. Len(d) |-> HeardOf(d[i])]
      /\ after = [i \in 1 .. (Len(d) + 1) |-> HeardOf(t[i])]
  BY <1>2
<1> HIDE DEF before, after
<1>4. \A i \in 1 .. (Len(d) + 1) : t[i] \in F
  <2>1. \A i \in 1 .. (Len(d) + 1) : i = Len(d) + 1 \/ i \in 1 .. Len(d)
    BY <1>2
  <2> QED BY <1>2, <2>1
<1>5. /\ before \in [1 .. Len(d) -> Seq(Touches)] /\ after \in [1 .. (Len(d) + 1) -> Seq(Touches)]
      /\ (\A i \in 1 .. Len(d) : after[i] = before[i]) /\ after[Len(d) + 1] = HeardOf(f)
  <2>1. before \in [1 .. Len(d) -> Seq(Touches)]
    BY <1>1, <1>2, <1>3
  <2>2. after \in [1 .. (Len(d) + 1) -> Seq(Touches)]
    BY <1>1, <1>3, <1>4
  <2>3. Len(d) + 1 \in 1 .. (Len(d) + 1) /\ \A i \in 1 .. Len(d) : i \in 1 .. (Len(d) + 1)
    BY <1>2
  <2> QED BY <1>2, <1>3, <2>1, <2>2, <2>3
<1>6. FlattenSeq(before) \in Seq(Touches) /\ FlattenSeq(after) = FlattenSeq(before) \o HeardOf(f)
  <2>1. FlattenSeq(before) \in Seq(Touches) /\ FlattenSeq(after) = FlattenSeq(before) \o after[Len(d) + 1]
    BY <1>2, <1>5, PartsJoin
  <2> QED BY <1>5, <2>1
<1>7. HeardIn(d) = FlattenSeq(before) /\ HeardIn(t) = FlattenSeq(after)
  BY DEF before, after, HeardIn, HeardOf
<1> QED BY <1>1, <1>6, <1>7 DEF t

LEMMA KeysGrow ==
  ASSUME NEW d \in Seq(firmware.traffic), NEW f \in firmware.traffic
  PROVE  /\ KeysIn(d) \in Seq(Keys) /\ KeysOf(f) \in Seq(Keys)
         /\ KeysIn(Append(d, f)) = KeysIn(d) \o KeysOf(f)
<1> DEFINE F == firmware.traffic
           t == Append(d, f)
           before == [i \in DOMAIN d |-> KeysOf(d[i])]
           after == [i \in DOMAIN t |-> KeysOf(t[i])]
<1>1. \A g \in F : KeysOf(g) \in Seq(Keys)
  <2> TAKE g \in F
  <2>1. g.what \in Keys
    BY DEF Keys
  <2>2. <<g.what>> \in Seq(Keys) /\ << >> \in Seq(Keys)
    BY <2>1
  <2> QED BY <2>2 DEF KeysOf
<1>2. /\ Len(d) \in Nat /\ DOMAIN d = 1 .. Len(d) /\ (\A i \in 1 .. Len(d) : d[i] \in F /\ t[i] = d[i])
      /\ DOMAIN t = 1 .. (Len(d) + 1) /\ t[Len(d) + 1] = f
  BY AppendProperties
<1> HIDE DEF t
<1>3. /\ before = [i \in 1 .. Len(d) |-> KeysOf(d[i])]
      /\ after = [i \in 1 .. (Len(d) + 1) |-> KeysOf(t[i])]
  BY <1>2
<1> HIDE DEF before, after
<1>4. \A i \in 1 .. (Len(d) + 1) : t[i] \in F
  <2>1. \A i \in 1 .. (Len(d) + 1) : i = Len(d) + 1 \/ i \in 1 .. Len(d)
    BY <1>2
  <2> QED BY <1>2, <2>1
<1>5. /\ before \in [1 .. Len(d) -> Seq(Keys)] /\ after \in [1 .. (Len(d) + 1) -> Seq(Keys)]
      /\ (\A i \in 1 .. Len(d) : after[i] = before[i]) /\ after[Len(d) + 1] = KeysOf(f)
  <2>1. before \in [1 .. Len(d) -> Seq(Keys)]
    BY <1>1, <1>2, <1>3
  <2>2. after \in [1 .. (Len(d) + 1) -> Seq(Keys)]
    BY <1>1, <1>3, <1>4
  <2>3. Len(d) + 1 \in 1 .. (Len(d) + 1) /\ \A i \in 1 .. Len(d) : i \in 1 .. (Len(d) + 1)
    BY <1>2
  <2> QED BY <1>2, <1>3, <2>1, <2>2, <2>3
<1>6. FlattenSeq(before) \in Seq(Keys) /\ FlattenSeq(after) = FlattenSeq(before) \o KeysOf(f)
  <2>1. FlattenSeq(before) \in Seq(Keys) /\ FlattenSeq(after) = FlattenSeq(before) \o after[Len(d) + 1]
    BY <1>2, <1>5, PartsJoin
  <2> QED BY <1>5, <2>1
<1>7. KeysIn(d) = FlattenSeq(before) /\ KeysIn(t) = FlattenSeq(after)
  BY DEF before, after, KeysIn, KeysOf
<1> QED BY <1>1, <1>6, <1>7 DEF t

LEMMA NoneIn == HeardIn(<< >>) = << >> /\ KeysIn(<< >>) = << >>
<1>1. \A s : Len(s) = 0 => FlattenSeq(s) = s
  BY DEF FlattenSeq
<1>2. \A s : s = << >> => /\ [i \in DOMAIN s |-> HeardOf(s[i])] = << >>
                          /\ [i \in DOMAIN s |-> KeysOf(s[i])] = << >>
  OBVIOUS
<1>3. Len(<< >>) = 0
  OBVIOUS
<1> QED BY <1>1, <1>2, <1>3 DEF HeardIn, KeysIn, HeardOf, KeysOf

(* What the keys of the first connection come to, key by key.              *)
LEMMA HeldGrows ==
  ASSUME NEW V, NEW h \in Seq(V), NEW k \in V
  PROVE  /\ HeldKeys(Append(h, k)) = IF k.pressed THEN HeldKeys(h) \cup {k.id} ELSE HeldKeys(h) \ {k.id}
         /\ \A e : EdgeKeys(Append(h, k), e) = EdgeKeys(h, e) \cup (IF EdgeOf(k) = e THEN {k.id} ELSE {})
<1> DEFINE N == Len(h)
           t == Append(h, k)
           Latest(s, j) == \A l \in DOMAIN s : l > j => s[l].id # s[j].id
<1>1. /\ N \in Nat /\ DOMAIN h = 1..N /\ DOMAIN t = 1..(N + 1) /\ t[N + 1] = k /\ \A i \in 1..N : t[i] = h[i]
  BY AppendProperties
<1>2. \A s, x : x \in HeldKeys(s) <=> \E j \in DOMAIN s : s[j].pressed /\ Latest(s, j) /\ s[j].id = x
  BY Zenon DEF HeldKeys
<1>3. \A s, e, x : x \in EdgeKeys(s, e) <=> \E j \in DOMAIN s : EdgeOf(s[j]) = e /\ s[j].id = x
  BY Zenon DEF EdgeKeys
<1> HIDE DEF t
<1>4. ASSUME NEW j \in 1..N PROVE Latest(t, j) <=> Latest(h, j) /\ k.id # h[j].id
  <2>1. ASSUME Latest(t, j) PROVE Latest(h, j) /\ k.id # h[j].id
    <3>1. N + 1 \in DOMAIN t /\ N + 1 > j
      BY <1>1
    <3>2. \A l \in 1..N : l \in DOMAIN t /\ t[l] = h[l]
      BY <1>1
    <3> QED BY <1>1, <2>1, <3>1, <3>2
  <2>2. ASSUME Latest(h, j), k.id # h[j].id PROVE Latest(t, j)
    <3> SUFFICES ASSUME NEW l \in DOMAIN t, l > j PROVE t[l].id # t[j].id
      OBVIOUS
    <3>1. CASE l = N + 1
      BY <1>1, <2>2, <3>1
    <3>2. CASE l # N + 1
      <4>1. l \in 1..N
        BY <1>1, <3>2
      <4> QED BY <1>1, <2>2, <4>1
    <3> QED BY <3>1, <3>2
  <2> QED BY <2>1, <2>2
<1>5. Latest(t, N + 1)
  BY <1>1
<1> HIDE DEF Latest
<1>6. ASSUME NEW x
      PROVE  x \in HeldKeys(t) <=> IF k.pressed THEN x \in HeldKeys(h) \/ x = k.id ELSE x \in HeldKeys(h) /\ x # k.id
  <2>1. x \in HeldKeys(t) <=> \/ k.pressed /\ k.id = x
                              \/ \E j \in 1..N : h[j].pressed /\ Latest(h, j) /\ k.id # h[j].id /\ h[j].id = x
    <3>1. \A j : j \in 1..(N + 1) <=> j = N + 1 \/ j \in 1..N
      BY <1>1
    <3>2. x \in HeldKeys(t) <=> \E j \in 1..(N + 1) : t[j].pressed /\ Latest(t, j) /\ t[j].id = x
      BY <1>1, <1>2
    <3>3. x \in HeldKeys(t) <=> \/ k.pressed /\ k.id = x
                                \/ \E j \in 1..N : t[j].pressed /\ Latest(t, j) /\ t[j].id = x
      BY <1>1, <1>5, <3>1, <3>2
    <3> QED BY <1>1, <1>4, <3>3
  <2>2. x \in HeldKeys(h) <=> \E j \in 1..N : h[j].pressed /\ Latest(h, j) /\ h[j].id = x
    BY <1>1, <1>2
  <2> QED BY <2>1, <2>2
<1>7. ASSUME NEW e, NEW x
      PROVE  x \in EdgeKeys(t, e) <=> x \in EdgeKeys(h, e) \/ (EdgeOf(k) = e /\ x = k.id)
  <2>1. x \in EdgeKeys(t, e) <=> \/ EdgeOf(k) = e /\ k.id = x
                                 \/ \E j \in 1..N : EdgeOf(h[j]) = e /\ h[j].id = x
    <3>1. \A j : j \in 1..(N + 1) <=> j = N + 1 \/ j \in 1..N
      BY <1>1
    <3>2. x \in EdgeKeys(t, e) <=> \E j \in 1..(N + 1) : EdgeOf(t[j]) = e /\ t[j].id = x
      BY <1>1, <1>3
    <3> QED BY <1>1, <3>1, <3>2
  <2>2. x \in EdgeKeys(h, e) <=> \E j \in 1..N : EdgeOf(h[j]) = e /\ h[j].id = x
    BY <1>1, <1>3
  <2> QED BY <2>1, <2>2
<1> QED BY <1>6, <1>7 DEF t

----------------------------------------------------------------------------
(* Input: what is left to do for the frame in work is what the queues, the *)
(* controller and the key bytes do not have yet of the frames handed over. *)
ButtonStages == {"queue_button", "bits", "set_bits", "events", "set_events"}
InputStages == ButtonStages \cup {"touch"}

TouchDone(h) ==
  h \in Seq(Touches) /\ HeardIn(dispatched) = h \o (IF Stage = "touch" THEN OfFingers(work.what) ELSE << >>)
KeysDone(stages, h) ==
  h \in Seq(Keys) /\ KeysIn(dispatched) = IF Stage \in stages THEN Append(h, work.what) ELSE h

TouchPart ==
  \E h : /\ TouchDone(h) /\ Tails(Touches, touchQueue, h)
         /\ controller.kind = "ft6336u" => controller.active = After([f \in Fingers |-> Lifted], h)
QueuePart == \E h : KeysDone({"queue_button"}, h) /\ Tails(Keys, buttonQueue, h)
BitsPart == \E h : KeysDone({"queue_button", "bits", "set_bits"}, h) /\ mem.bits = HeldKeys(h)
Latched(h) == \A e \in Edges : EdgeKeys(h, e) \subseteq mem[e] \cup log.edges[e]
EdgePart ==
  /\ DOMAIN log.edges = Edges
  /\ firmware.polls # "load_store" => mem.polled = NoEdges /\ \E h : KeysDone(ButtonStages, h) /\ Latched(h)
CopyPart ==
  /\ Stage = "touch" => work.what \in Seq(Touches)
  /\ Stage \in ButtonStages => work.what \in Keys
  /\ Stage = "set_bits" => ops[2] = mem.bits
  /\ Stage = "set_events" => mem[Edge] \subseteq ops[2]
FirstInv == TouchPart /\ QueuePart /\ BitsPart /\ EdgePart /\ CopyPart

ControllerInv ==
  /\ DOMAIN controller = {"kind", "active", "frame", "intLow", "register"}
  /\ unread /\ controller.register # "td_status" => controller.intLow
InputInv == connections \in Nat \ {0} /\ ControllerInv /\ (connections = 1 => FirstInv)

(* A step that is not about input leaves what is said of it.               *)
KeyBytes == Edges \cup {"bits", "polled"}
InputStays ==
  /\ UNCHANGED <<connections, firmware, dispatched, touchQueue, buttonQueue, controller, unread>>
  /\ (\A b \in KeyBytes : mem'[b] = mem[b]) /\ log'.edges = log.edges

LEMMA InputAside ==
  ASSUME InputInv, InputStays,
         UNCHANGED <<ops, work>> \/ (Stage \notin InputStages /\ Stage' \notin InputStages)
  PROVE  InputInv'
<1>0. /\ UNCHANGED <<connections, firmware, dispatched, touchQueue, buttonQueue, controller, unread>>
      /\ mem'.bits = mem.bits /\ mem'.polled = mem.polled /\ log'.edges = log.edges
      /\ \A e \in Edges : mem'[e] = mem[e]
  BY DEF InputStays, KeyBytes
<1>1. ControllerInv' /\ connections' \in Nat \ {0}
  BY <1>0 DEF InputInv, ControllerInv
<1>2. SUFFICES ASSUME FirstInv PROVE FirstInv'
  BY <1>0, <1>1 DEF InputInv
<1>3. Keys' = Keys /\ \A h : Latched(h)' <=> Latched(h)
  BY <1>0 DEF Keys, Latched
<1>4. CASE UNCHANGED <<ops, work>>
  <2>1. Stage' = Stage /\ Edge' = Edge
    BY <1>4 DEF Stage, Edge, EdgeOf
  <2>2. \A h : TouchDone(h)' <=> TouchDone(h)
    BY <1>0, <1>4, <2>1 DEF TouchDone
  <2>3. \A s, h : KeysDone(s, h)' <=> KeysDone(s, h)
    BY <1>0, <1>3, <1>4, <2>1 DEF KeysDone
  <2>4. mem'[Edge] = mem[Edge]
    BY <1>0 DEF Edge, EdgeOf, Edges
  <2>5. CopyPart'
    BY <1>0, <1>2, <1>3, <1>4, <2>1, <2>4 DEF FirstInv, CopyPart
  <2>6. TouchPart' /\ QueuePart' /\ BitsPart' /\ EdgePart'
    BY <1>0, <1>2, <1>3, <2>2, <2>3 DEF FirstInv, TouchPart, QueuePart, BitsPart, EdgePart
  <2> QED BY <2>5, <2>6 DEF FirstInv
<1>5. CASE Stage \notin InputStages /\ Stage' \notin InputStages
  <2>1. \A h : TouchDone(h)' <=> TouchDone(h)
    BY <1>0, <1>5 DEF TouchDone, InputStages
  <2>2. \A s, h : s \subseteq ButtonStages => (KeysDone(s, h)' <=> KeysDone(s, h))
    BY <1>0, <1>3, <1>5 DEF KeysDone, InputStages
  <2>3. /\ {"queue_button"} \subseteq ButtonStages /\ {"queue_button", "bits", "set_bits"} \subseteq ButtonStages
        /\ ButtonStages \subseteq ButtonStages
    BY DEF ButtonStages
  <2>4. CopyPart'
    BY <1>5 DEF CopyPart, InputStages, ButtonStages
  <2>5. TouchPart'
    BY <1>0, <1>2, <2>1 DEF FirstInv, TouchPart
  <2>6. QueuePart' /\ BitsPart' /\ EdgePart'
    BY <1>0, <1>2, <1>3, <2>2, <2>3 DEF FirstInv, QueuePart, BitsPart, EdgePart
  <2> QED BY <2>4, <2>5, <2>6 DEF FirstInv
<1> QED BY <1>4, <1>5

LEMMA InputStart == LinkInit => InputInv
<1> SUFFICES ASSUME LinkInit PROVE InputInv
  OBVIOUS
<1>1. ops = << >> /\ dispatched = << >> /\ touchQueue = << >> /\ buttonQueue = << >> /\ connections = 1 /\ ~ unread
  BY DEF LinkInit
<1>2. Stage = "done"
  BY <1>1 DEF Stage
<1>3. ControllerInv /\ controller.active = [f \in Fingers |-> Lifted]
  BY <1>1 DEF LinkInit, ControllerInv, NewTouchController
<1>4. HeardIn(dispatched) = << >> /\ KeysIn(dispatched) = << >>
  BY <1>1, NoneIn
<1>5. \A V : Tails(V, << >>, << >>) /\ << >> \in Seq(V)
  BY DEF Tails
<1>6. << >> \o << >> = << >>
  BY ConcatEmptySeq, <1>5
<1>7. After([f \in Fingers |-> Lifted], << >>) = [f \in Fingers |-> Lifted]
  <2> DEFINE none == << >>
             S == {0}
  <2>1. none \in Seq(S) /\ Len(none) = 0 /\ none = << >>
    BY EmptySeq
  <2> HIDE DEF none, S
  <2>2. ASSUME NEW f PROVE ~ Touched(none, f)
    <3>1. \A i \in 1 .. Len(none) : none[i].finger # f
      BY <2>1
    <3> QED BY <2>1, <3>1, LastIs
  <2> QED BY <2>1, <2>2 DEF After
<1>8. TouchPart
  <2>1. TouchDone(<< >>)
    BY <1>2, <1>4, <1>5, <1>6 DEF TouchDone
  <2> QED BY <1>1, <1>3, <1>5, <1>7, <2>1 DEF TouchPart
<1>9. \A s : s \subseteq ButtonStages => KeysDone(s, << >>)
  BY <1>2, <1>4, <1>5 DEF KeysDone, ButtonStages
<1>10. QueuePart
  BY <1>1, <1>5, <1>9 DEF QueuePart, ButtonStages
<1>11. /\ mem.bits = HeldKeys(<< >>) /\ mem.polled = NoEdges /\ DOMAIN log.edges = Edges
       /\ \A e \in Edges : EdgeKeys(<< >>, e) = {}
  BY DEF LinkInit, HeldKeys, EdgeKeys, NoEdges
<1>12. BitsPart /\ EdgePart
  BY <1>9, <1>11 DEF BitsPart, EdgePart, Latched, ButtonStages
<1>13. CopyPart
  BY <1>2 DEF CopyPart, ButtonStages
<1> QED BY <1>1, <1>3, <1>8, <1>10, <1>12, <1>13 DEF InputInv, FirstInv

LEMMA ReconnectKeepsInput ==
  ASSUME InputInv, Reconnect
  PROVE  InputInv'
<1>1. connections' = connections + 1 /\ UNCHANGED <<controller, unread>>
  BY DEF Reconnect, input
<1>2. connections' \in Nat \ {0} /\ connections' # 1
  BY <1>1 DEF InputInv
<1> QED BY <1>1, <1>2 DEF InputInv, ControllerInv

(* The firmware reads.                                                     *)
LEMMA ReadsKeepInput ==
  ASSUME InputInv, TouchRead \/ ButtonRead \/ I2cPointer \/ I2cBeginRead \/ I2cEndRead
  PROVE  InputInv'
<1>1. UNCHANGED <<firmware, connections, dispatched, ops, work, mem, log>>
  BY DEF TouchRead, ButtonRead, I2cPointer, I2cBeginRead, I2cEndRead, InputOnly, hostVars, inbound
<1>2. /\ ControllerInv' /\ controller'.kind = controller.kind /\ controller'.active = controller.active
  <2>1. CASE TouchRead \/ ButtonRead
    BY <2>1 DEF TouchRead, ButtonRead, InputInv, ControllerInv
  <2>2. CASE I2cPointer
    BY <2>2 DEF I2cPointer, WritePointer, Finish, InputInv, ControllerInv
  <2>3. CASE I2cBeginRead
    BY <2>3 DEF I2cBeginRead, BeginRead, InputInv, ControllerInv
  <2>4. CASE I2cEndRead
    BY <2>4 DEF I2cEndRead, EndRead, Finish, InputInv, ControllerInv
  <2> QED BY <2>1, <2>2, <2>3, <2>4
<1>3. SUFFICES ASSUME FirstInv PROVE FirstInv'
  BY <1>1, <1>2 DEF InputInv
<1>4. Keys' = Keys /\ Stage' = Stage /\ Edge' = Edge
  BY <1>1 DEF Keys, Stage, Edge, EdgeOf
<1>5. (\A h : TouchDone(h)' <=> TouchDone(h)) /\ (\A s, h : KeysDone(s, h)' <=> KeysDone(s, h))
  BY <1>1, <1>4 DEF TouchDone, KeysDone
<1>6. touchQueue' = touchQueue \/ (touchQueue # << >> /\ touchQueue' = Tail(touchQueue))
  BY DEF TouchRead, ButtonRead, I2cPointer, I2cBeginRead, I2cEndRead
<1>7. buttonQueue' = buttonQueue \/ (buttonQueue # << >> /\ buttonQueue' = Tail(buttonQueue))
  BY DEF TouchRead, ButtonRead, I2cPointer, I2cBeginRead, I2cEndRead
<1>8. TouchPart'
  <2>1. PICK h : /\ TouchDone(h) /\ Tails(Touches, touchQueue, h)
                 /\ controller.kind = "ft6336u" => controller.active = After([f \in Fingers |-> Lifted], h)
    BY <1>3 DEF FirstInv, TouchPart
  <2>2. Tails(Touches, touchQueue', h)
    BY <1>6, <2>1, TailTails
  <2> QED BY <1>2, <1>5, <2>1, <2>2 DEF TouchPart
<1>9. QueuePart'
  <2>1. PICK h : KeysDone({"queue_button"}, h) /\ Tails(Keys, buttonQueue, h)
    BY <1>3 DEF FirstInv, QueuePart
  <2>2. Tails(Keys, buttonQueue', h)
    BY <1>7, <2>1, TailTails
  <2> QED BY <1>4, <1>5, <2>1, <2>2 DEF QueuePart
<1>10. BitsPart' /\ EdgePart' /\ CopyPart'
  BY <1>1, <1>3, <1>4, <1>5 DEF FirstInv, BitsPart, EdgePart, Latched, CopyPart
<1> QED BY <1>8, <1>9, <1>10 DEF FirstInv

(* The firmware takes key events: what leaves a byte in one instruction is *)
(* taken.  A byte only loses events to it, so a copy stays a superset.     *)
LEMMA PollsKeepInput ==
  ASSUME InputInv, Shape, NEW e \in Edges, SwapsEdges(e) \/ LoadsEdges(e) \/ StoresEdges(e)
  PROVE  InputInv'
<1>1. UNCHANGED <<firmware, connections, dispatched, touchQueue, buttonQueue, controller, unread, ops, work>>
  BY DEF SwapsEdges, LoadsEdges, StoresEdges, CpuOnly, hostVars, inbound, input
<1>2. ControllerInv' /\ connections' \in Nat \ {0}
  BY <1>1 DEF InputInv, ControllerInv
<1>3. SUFFICES ASSUME FirstInv PROVE FirstInv'
  BY <1>1, <1>2 DEF InputInv
<1>4. Keys' = Keys /\ Stage' = Stage /\ Edge' = Edge /\ Edge \in Edges
  BY <1>1 DEF Keys, Stage, Edge, EdgeOf, Edges
<1>5. (\A h : TouchDone(h)' <=> TouchDone(h)) /\ (\A s, h : KeysDone(s, h)' <=> KeysDone(s, h))
  BY <1>1, <1>4 DEF TouchDone, KeysDone
<1>6. mem'.bits = mem.bits /\ \A c \in Edges : mem'[c] \subseteq mem[c]
  BY PollIs
<1>7. TouchPart' /\ QueuePart' /\ BitsPart'
  BY <1>1, <1>3, <1>4, <1>5, <1>6 DEF FirstInv, TouchPart, QueuePart, BitsPart
<1>8. CopyPart'
  BY <1>1, <1>3, <1>4, <1>6 DEF FirstInv, CopyPart
<1>9. DOMAIN log'.edges = Edges
  <2>1. "edges" \in DOMAIN log /\ DOMAIN log.edges = Edges
    BY <1>3 DEF FirstInv, EdgePart, Shape
  <2> QED BY <2>1, PollIs
<1>10. ASSUME firmware.polls # "load_store"
       PROVE  mem'.polled = NoEdges /\ \E h : KeysDone(ButtonStages, h)' /\ Latched(h)'
  <2>1. PICK h : mem.polled = NoEdges /\ KeysDone(ButtonStages, h) /\ Latched(h)
    BY <1>3, <1>10 DEF FirstInv, EdgePart
  <2>2. SwapsEdges(e)
    <3>1. mem.polled[e] = {}
      BY <2>1 DEF NoEdges
    <3> QED BY <1>10, <3>1 DEF LoadsEdges, StoresEdges
  <2>3. /\ mem'.polled = mem.polled
        /\ \A c \in Edges : mem[c] \cup log.edges[c] \subseteq mem'[c] \cup log'.edges[c]
    <3>1. mem' = [mem EXCEPT ![e] = {}] /\ log' = [log EXCEPT !.edges[e] = @ \cup mem[e]]
      BY <2>2 DEF SwapsEdges, Cleared
    <3>2. e # "polled" /\ Edges \subseteq DOMAIN mem /\ "edges" \in DOMAIN log /\ DOMAIN log.edges = Edges
      BY <1>3 DEF FirstInv, EdgePart, Shape, Edges
    <3>3. log'.edges = [log.edges EXCEPT ![e] = @ \cup mem[e]]
      BY <3>1, <3>2
    <3> QED BY <3>1, <3>2, <3>3
  <2>4. Latched(h)'
    BY <2>1, <2>3 DEF Latched
  <2> QED BY <1>5, <2>1, <2>3, <2>4
<1>11. EdgePart'
  BY <1>1, <1>9, <1>10 DEF EdgePart
<1> QED BY <1>7, <1>8, <1>11 DEF FirstInv

(* A frame is handed over.                                                 *)
LEMMA FittingIn ==
  ASSUME NEW kind, NEW F, NEW s \in Seq(F), NEW k \in 0 .. Len(s)
  PROVE  FittingOn(kind, s)[k] \in Seq(F)
<1> DEFINE N == Len(s)
           g == FittingOn(kind, s)
           S == {n \in 0..N : g[n] \in Seq(F)}
<1>1. N \in Nat /\ \A n \in 1..N : s[n] \in F
  BY ElementOfSeq
<1>2. /\ g[0] = << >>
      /\ \A n \in 1..N : g[n] = IF FitsOn(kind, s[n]) THEN Append(g[n - 1], s[n]) ELSE g[n - 1]
  BY FittingOnIs
<1> HIDE DEF g
<1>3. 0 \in S
  <2>1. << >> \in Seq(F) /\ 0 \in 0..N
    BY <1>1
  <2> QED BY <1>2, <2>1
<1>4. S \in SUBSET Nat
  BY <1>1
<1>5. ASSUME NEW n \in 0..N, n \in S, n < N PROVE n + 1 \in S
  <2>1. PICK m \in 1..N : m = n + 1 /\ m - 1 = n /\ m \in 0..N
    BY <1>1, <1>5
  <2>2. g[n] \in Seq(F) /\ s[m] \in F
    BY <1>1, <1>5
  <2>3. Append(g[n], s[m]) \in Seq(F)
    BY <2>2, AppendProperties
  <2>4. g[m] = IF FitsOn(kind, s[m]) THEN Append(g[n], s[m]) ELSE g[n]
    BY <1>2, <2>1
  <2> QED BY <2>1, <2>2, <2>3, <2>4
<1>6. 0..N \subseteq S
  <2> HIDE DEF S, N
  <2> QED BY <1>1, <1>3, <1>4, <1>5, Climb
<1>7. g[k] \in Seq(F)
  BY <1>6
<1> QED BY <1>7 DEF g

LEMMA DispatchedIs ==
  ASSUME StreamInv
  PROVE  dispatched \in Seq(firmware.traffic)
BY FittingIn DEF StreamInv, Midway

LEMMA FrameIs ==
  ASSUME StreamInv, StreamInv', UNCHANGED firmware, NEW f, dispatched' = Append(dispatched, f)
  PROVE  f \in firmware.traffic
<1> DEFINE T == firmware.traffic \cup {f}
<1>1. dispatched \in Seq(firmware.traffic) /\ dispatched' \in Seq(firmware.traffic)
  <2>1. PICK k \in 0 .. Len(sent') : dispatched' = FittingOn(firmware'.panel, sent')[k]
    BY DEF StreamInv, Midway
  <2>2. sent' \in Seq(firmware.traffic)
    BY DEF StreamInv
  <2>3. dispatched' \in Seq(firmware.traffic)
    BY <2>1, <2>2, FittingIn
  <2> QED BY <2>3, DispatchedIs
<1>2. dispatched \in Seq(T) /\ f \in T
  BY <1>1, SeqMonotonic
<1> HIDE DEF T
<1>3. Len(dispatched') = Len(dispatched) + 1 /\ dispatched'[Len(dispatched) + 1] = f /\ Len(dispatched) \in Nat
  BY <1>2, AppendProperties
<1>4. Len(dispatched) + 1 \in 1 .. Len(dispatched')
  BY <1>3
<1> QED BY <1>1, <1>3, <1>4, ElementOfSeq

LEMMA WorkOf ==
  ASSUME NEW f, Dispatch(f)
  PROVE  /\ work' = f /\ dispatched' = Append(dispatched, f)
         /\ IF f.ch = "touch" /\ f.len > 0 THEN Stage' = "touch"
            ELSE IF f.ch = "button" /\ f.len > 0 THEN Stage' = "queue_button"
            ELSE Stage' \notin InputStages
<1>1. ops' = OpsFor(f)
  BY DEF Dispatch
<1>2. CASE f.ch = "touch" /\ f.len > 0
  BY <1>1, <1>2 DEF OpsFor, Stage, Dispatch
<1>3. CASE f.ch = "button" /\ f.len > 0
  BY <1>1, <1>3 DEF OpsFor, Stage, Dispatch
<1>4. CASE ~ (f.ch = "touch" /\ f.len > 0) /\ ~ (f.ch = "button" /\ f.len > 0)
  <2>1. ops' \in {<<"header", "payload">>, <<"poll_debug">>, <<"ask_debug">>, <<"ask_console">>, << >>}
    BY <1>1, <1>4 DEF OpsFor
  <2>2. Stage' \in {"header", "poll_debug", "ask_debug", "ask_console", "done"}
    BY <2>1 DEF Stage
  <2> QED BY <1>4, <2>2 DEF InputStages, ButtonStages, Dispatch
<1> QED BY <1>2, <1>3, <1>4

LEMMA DispatchKeepsInput ==
  ASSUME InputInv, StreamInv, StreamInv', ops = << >>, NEW f, Dispatch(f),
         UNCHANGED <<firmware, connections, input, mem, log>>
  PROVE  InputInv'
<1>1. /\ Stage = "done" /\ dispatched \in Seq(firmware.traffic) /\ firmware \in Firmwares /\ Keys' = Keys
      /\ UNCHANGED <<touchQueue, buttonQueue, controller, unread>>
  BY DispatchedIs DEF Stage, StreamInv, Keys, input
<1>2. /\ work' = f /\ dispatched' = Append(dispatched, f)
      /\ IF f.ch = "touch" /\ f.len > 0 THEN Stage' = "touch"
         ELSE IF f.ch = "button" /\ f.len > 0 THEN Stage' = "queue_button"
         ELSE Stage' \notin InputStages
  BY WorkOf
<1>3. f \in firmware.traffic
  BY <1>2, FrameIs
<1>4. ControllerInv' /\ connections' \in Nat \ {0}
  BY <1>1 DEF InputInv, ControllerInv
<1>5. SUFFICES ASSUME FirstInv PROVE FirstInv'
  BY <1>4 DEF InputInv
<1>6. TouchPart'
  <2>1. PICK h : /\ TouchDone(h) /\ Tails(Touches, touchQueue, h)
                 /\ controller.kind = "ft6336u" => controller.active = After([g \in Fingers |-> Lifted], h)
    BY <1>5 DEF FirstInv, TouchPart
  <2>2. h \in Seq(Touches) /\ HeardIn(dispatched) = h
    <3>1. h \in Seq(Touches) /\ HeardIn(dispatched) = h \o << >>
      BY <1>1, <2>1 DEF TouchDone
    <3> QED BY <3>1, ConcatEmptySeq
  <2>3. HeardIn(dispatched') = h \o HeardOf(f)
    BY <1>1, <1>2, <1>3, <2>2, HeardGrows
  <2>4. HeardOf(f) = IF Stage' = "touch" THEN OfFingers(work'.what) ELSE << >>
    BY <1>2 DEF HeardOf, InputStages
  <2>5. TouchDone(h)'
    BY <2>2, <2>3, <2>4 DEF TouchDone
  <2> QED BY <1>1, <2>1, <2>5 DEF TouchPart
<1>7. ASSUME NEW s, "queue_button" \in s, s \subseteq ButtonStages, NEW h, KeysDone(s, h)
      PROVE  KeysDone(s, h)'
  <2>1. h \in Seq(Keys) /\ KeysIn(dispatched) = h
    BY <1>1, <1>7 DEF KeysDone, ButtonStages
  <2>2. KeysIn(dispatched') = h \o KeysOf(f) /\ f.what \in Keys
    BY <1>1, <1>2, <1>3, <2>1, KeysGrow DEF Keys
  <2>3. h \o <<f.what>> = Append(h, f.what) /\ h \o << >> = h
    BY <2>1, <2>2, AppendIsConcat, ConcatEmptySeq
  <2>4. CASE f.ch = "button" /\ f.len > 0
    <3>1. KeysIn(dispatched') = Append(h, f.what) /\ Stage' \in s
      BY <1>2, <1>7, <2>2, <2>3, <2>4 DEF KeysOf
    <3> QED BY <1>1, <1>2, <2>1, <3>1 DEF KeysDone
  <2>5. CASE ~ (f.ch = "button" /\ f.len > 0)
    <3>1. KeysIn(dispatched') = h /\ Stage' \notin s
      BY <1>2, <1>7, <2>2, <2>3, <2>5 DEF KeysOf, InputStages, ButtonStages
    <3> QED BY <1>1, <2>1, <3>1 DEF KeysDone
  <2> QED BY <2>4, <2>5
<1>8. QueuePart' /\ BitsPart' /\ EdgePart'
  <2>1. QueuePart'
    BY <1>1, <1>5, <1>7 DEF FirstInv, QueuePart, ButtonStages
  <2>2. BitsPart'
    BY <1>1, <1>5, <1>7 DEF FirstInv, BitsPart, ButtonStages
  <2>3. EdgePart'
    BY <1>1, <1>5, <1>7 DEF FirstInv, EdgePart, Latched, ButtonStages
  <2> QED BY <2>1, <2>2, <2>3
<1>9. CopyPart'
  <2>1. Stage' = "touch" => work'.what \in Seq(Touches)
    BY <1>1, <1>2, <1>3, LinkAssumption DEF InputStages
  <2>2. work'.what \in Keys'
    BY <1>1, <1>2, <1>3 DEF Keys
  <2>3. Stage' # "set_bits" /\ Stage' # "set_events"
    BY <1>2 DEF InputStages, ButtonStages
  <2> QED BY <2>1, <2>2, <2>3 DEF CopyPart
<1> QED BY <1>6, <1>8, <1>9 DEF FirstInv

(* A touch reaches the queue and the controller.                           *)
LEMMA InjectKeepsInput ==
  ASSUME InputInv, OpsInv, InjectTouches
  PROVE  InputInv'
<1> DEFINE heard == OfFingers(work.what)
<1>1. /\ touchQueue' = QueuedAll(touchQueue, heard) /\ controller' = InjectTouch(controller, heard) /\ unread' = TRUE
      /\ UNCHANGED <<firmware, connections, dispatched, mem, buttonQueue, work, log>>
  BY DEF InjectTouches, MainOnly, hostVars, inbound
<1>2. Stage = "touch" /\ ops' = << >>
  BY OpsAfter DEF InjectTouches
<1>3. Stage' = "done"
  BY <1>2 DEF Stage
<1>4. /\ ControllerInv' /\ controller'.kind = controller.kind
      /\ controller.kind = "ft6336u" => controller'.active = After(controller.active, heard)
  <2> HIDE DEF heard
  <2> QED BY <1>1 DEF InputInv, ControllerInv, InjectTouch
<1>5. SUFFICES ASSUME FirstInv PROVE FirstInv'
  BY <1>1, <1>4 DEF InputInv
<1>6. heard \in Seq(Touches) /\ Keys' = Keys
  BY <1>1, <1>2, <1>5, OfFingersIs DEF FirstInv, CopyPart, Keys
<1>7. TouchPart'
  <2>1. PICK h : /\ TouchDone(h) /\ Tails(Touches, touchQueue, h)
                 /\ controller.kind = "ft6336u" => controller.active = After([g \in Fingers |-> Lifted], h)
    BY <1>5 DEF FirstInv, TouchPart
  <2>2. PICK all : all = h \o heard
    OBVIOUS
  <2>3. h \in Seq(Touches) /\ HeardIn(dispatched) = all
    BY <1>2, <2>1, <2>2 DEF TouchDone
  <2> HIDE DEF heard
  <2>4. all \in Seq(Touches) /\ Tails(Touches, QueuedAll(touchQueue, heard), all)
    BY <1>6, <2>1, <2>2, <2>3, ConcatProperties, QueuedAllTails
  <2>5. After(After([g \in Fingers |-> Lifted], h), heard) = After([g \in Fingers |-> Lifted], all)
    BY <1>6, <2>2, <2>3, AfterJoins
  <2>6. all \o << >> = all
    BY <2>4, ConcatEmptySeq
  <2>7. TouchDone(all)'
    BY <1>1, <1>3, <2>3, <2>4, <2>6 DEF TouchDone
  <2> QED BY <1>1, <1>4, <2>1, <2>4, <2>5, <2>7 DEF TouchPart
<1>8. \A s, h : s \subseteq ButtonStages => (KeysDone(s, h)' <=> KeysDone(s, h))
  BY <1>1, <1>2, <1>3, <1>6 DEF KeysDone, ButtonStages
<1>9. /\ {"queue_button"} \subseteq ButtonStages /\ {"queue_button", "bits", "set_bits"} \subseteq ButtonStages
      /\ ButtonStages \subseteq ButtonStages
  BY DEF ButtonStages
<1>10. QueuePart' /\ BitsPart' /\ EdgePart'
  BY <1>1, <1>5, <1>6, <1>8, <1>9 DEF FirstInv, QueuePart, BitsPart, EdgePart, Latched
<1>11. CopyPart'
  BY <1>3 DEF CopyPart, ButtonStages
<1> QED BY <1>7, <1>10, <1>11 DEF FirstInv

(* A key reaches the queue, the state byte and the edge byte.              *)
LEMMA KeyMoves ==
  ASSUME UNCHANGED <<firmware, dispatched, work>>, NEW s, NEW h, KeysDone(s, h), work.what \in Keys
  PROVE  /\ (Stage \in s <=> Stage' \in s) => KeysDone(s, h)'
         /\ Stage \in s /\ Stage' \notin s =>
              /\ h \in Seq(Keys)
              /\ \A g : g = Append(h, work.what) => KeysDone(s, g)'
<1>1. h \in Seq(Keys) /\ Append(h, work.what) \in Seq(Keys) /\ Keys' = Keys
  BY AppendProperties DEF KeysDone, Keys
<1> QED BY <1>1 DEF KeysDone

\* The stages of a key in their order, and what a step takes to the next does.
ButtonStep ==
  \/ QueueButton /\ Stage = "queue_button" /\ Stage' = "bits"
  \/ ReadBits /\ Stage = "bits" /\ Stage' = "set_bits" /\ ops'[2] = mem.bits
  \/ SetBits /\ Stage = "set_bits" /\ Stage' = "events"
  \/ ReadEvents /\ Stage = "events" /\ Stage' = "set_events" /\ ops'[2] = mem[Edge]
  \/ SetEvents /\ Stage = "set_events" /\ Stage' = "done"

LEMMA ButtonStepIs ==
  ASSUME OpsInv, QueueButton \/ ReadBits \/ SetBits \/ ReadEvents \/ SetEvents
  PROVE  ButtonStep
<1>1. CASE QueueButton
  <2>1. Stage = "queue_button" /\ ops' = <<"bits", "set_bits", "events", "set_events">>
    BY <1>1, OpsAfter DEF QueueButton
  <2> QED BY <1>1, <2>1 DEF Stage, ButtonStep
<1>2. CASE ReadBits
  <2>1. ops = <<"bits", "set_bits", "events", "set_events">>
    BY <1>2, OpsAre DEF ReadBits
  <2>2. SubSeq(ops, 3, Len(ops)) = <<"events", "set_events">>
    BY <2>1, LastTwo, SMTT(30)
  <2>3. ops' = <<"set_bits", mem.bits, "events", "set_events">>
    <3>1. ops' = <<"set_bits", mem.bits>> \o <<"events", "set_events">>
      BY <1>2, <2>2 DEF ReadBits
    <3>2. <<"set_bits", mem.bits>> \o <<"events", "set_events">> = <<"set_bits", mem.bits, "events", "set_events">>
      BY TwoAndTwo
    <3> QED BY <3>1, <3>2
  <2> QED BY <1>2, <2>1, <2>3 DEF Stage, ButtonStep
<1>3. CASE SetBits
  <2>1. PICK b : ops = <<"set_bits", b, "events", "set_events">>
    BY <1>3, OpsAre DEF SetBits
  <2>2. SubSeq(ops, 3, Len(ops)) = <<"events", "set_events">>
    BY <2>1, LastTwo
  <2>3. ops' = <<"events", "set_events">>
    BY <1>3, <2>2 DEF SetBits
  <2> QED BY <1>3, <2>1, <2>3 DEF Stage, ButtonStep
<1>4. CASE ReadEvents
  <2>1. ops = <<"events", "set_events">> /\ ops' = <<"set_events", mem[Edge]>>
    BY <1>4, OpsAre DEF ReadEvents
  <2> QED BY <1>4, <2>1 DEF Stage, ButtonStep
<1>5. CASE SetEvents
  <2>1. Stage = "set_events" /\ ops' = << >>
    BY <1>5 DEF SetEvents, Op, Stage
  <2> QED BY <1>5, <2>1 DEF Stage, ButtonStep
<1> QED BY <1>1, <1>2, <1>3, <1>4, <1>5

LEMMA KeyKeepsInput ==
  ASSUME InputInv, Shape, ButtonStep
  PROVE  InputInv'
<1>1. UNCHANGED <<firmware, connections, dispatched, touchQueue, controller, unread, work, log>>
  BY DEF ButtonStep, QueueButton, ReadBits, SetBits, ReadEvents, SetEvents, MainOnly, hostVars, inbound, input
<1>2. ControllerInv' /\ connections' \in Nat \ {0}
  BY <1>1 DEF InputInv, ControllerInv
<1>3. SUFFICES ASSUME FirstInv PROVE FirstInv'
  BY <1>1, <1>2 DEF InputInv
<1> DEFINE key == work.what
<1>4. /\ Stage \in ButtonStages /\ Stage # "touch" /\ Stage' # "touch"
      /\ Stage \in ButtonStages \ {"set_events"} <=> Stage' \in ButtonStages
  BY DEF ButtonStep, ButtonStages
<1>5. key \in Keys /\ Keys' = Keys /\ Edge' = Edge /\ Edge = EdgeOf(key) /\ Edge \in Edges
  BY <1>1, <1>3, <1>4 DEF FirstInv, CopyPart, Keys, Edge, EdgeOf, Edges
<1>6. TouchPart'
  <2>1. \A h : TouchDone(h)' <=> TouchDone(h)
    BY <1>1, <1>4 DEF TouchDone
  <2> QED BY <1>1, <1>3, <2>1 DEF FirstInv, TouchPart
<1>7. QueuePart'
  <2>1. PICK h : KeysDone({"queue_button"}, h) /\ Tails(Keys, buttonQueue, h)
    BY <1>3 DEF FirstInv, QueuePart
  <2>2. CASE Stage = "queue_button"
    <3>1. buttonQueue' = Queued(buttonQueue, key) /\ Stage' = "bits"
      BY <2>2 DEF ButtonStep, QueueButton
    <3>2. PICK g : g = Append(h, key)
      OBVIOUS
    <3>3. KeysDone({"queue_button"}, g)'
      BY <1>1, <1>5, <2>1, <2>2, <3>1, <3>2, KeyMoves
    <3>4. Tails(Keys, Queued(buttonQueue, key), g)
      <4> HIDE DEF key
      <4> QED BY <1>5, <2>1, <3>2, QueuedTails
    <3> QED BY <1>5, <3>1, <3>3, <3>4 DEF QueuePart
  <2>3. CASE Stage # "queue_button"
    <3>1. buttonQueue' = buttonQueue /\ Stage' # "queue_button"
      BY <2>3 DEF ButtonStep, ReadBits, SetBits, ReadEvents, SetEvents, input
    <3>2. KeysDone({"queue_button"}, h)'
      BY <1>1, <1>5, <2>1, <2>3, <3>1, KeyMoves
    <3> QED BY <1>5, <2>1, <3>1, <3>2 DEF QueuePart
  <2> QED BY <2>2, <2>3
<1>8. BitsPart'
  <2> DEFINE s == {"queue_button", "bits", "set_bits"}
  <2>1. PICK h : KeysDone(s, h) /\ mem.bits = HeldKeys(h)
    BY <1>3 DEF FirstInv, BitsPart
  <2>2. CASE Stage = "set_bits"
    <3>1. SetBits /\ Stage' = "events" /\ ops[2] = mem.bits
      BY <1>3, <2>2 DEF ButtonStep, FirstInv, CopyPart
    <3>2. mem'.bits = IF key.pressed THEN mem.bits \cup {key.id} ELSE mem.bits \ {key.id}
      BY <3>1 DEF SetBits, Shape
    <3>3. PICK g : g = Append(h, key)
      OBVIOUS
    <3>4. KeysDone(s, g)' /\ h \in Seq(Keys)
      BY <1>1, <1>5, <2>1, <2>2, <3>1, <3>3, KeyMoves
    <3>5. HeldKeys(g) = IF key.pressed THEN HeldKeys(h) \cup {key.id} ELSE HeldKeys(h) \ {key.id}
      <4> HIDE DEF key
      <4> QED BY <1>5, <3>3, <3>4, HeldGrows
    <3>6. mem'.bits = HeldKeys(g)
      BY <2>1, <3>2, <3>5
    <3> QED BY <3>4, <3>6 DEF BitsPart
  <2>3. CASE Stage # "set_bits"
    <3>1. Stage \in s <=> Stage' \in s
      BY <2>3 DEF ButtonStep
    <3>2. mem'.bits = mem.bits
      BY <1>5, <2>3 DEF ButtonStep, QueueButton, ReadBits, ReadEvents, SetEvents, Shape, Edges
    <3>3. KeysDone(s, h)'
      BY <1>1, <1>5, <2>1, <3>1, KeyMoves
    <3> QED BY <2>1, <3>2, <3>3 DEF BitsPart
  <2> QED BY <2>2, <2>3
<1>9. EdgePart'
  <2>1. SUFFICES ASSUME firmware.polls # "load_store"
                 PROVE  mem'.polled = NoEdges /\ \E h : KeysDone(ButtonStages, h)' /\ Latched(h)'
    BY <1>1, <1>3 DEF FirstInv, EdgePart
  <2>2. PICK h : mem.polled = NoEdges /\ KeysDone(ButtonStages, h) /\ Latched(h)
    BY <1>3, <2>1 DEF FirstInv, EdgePart
  <2>3. CASE Stage = "set_events"
    <3>1. SetEvents /\ Stage' = "done" /\ mem[Edge] \subseteq ops[2]
      BY <1>3, <2>3 DEF ButtonStep, FirstInv, CopyPart
    <3>2. /\ mem'.polled = mem.polled
          /\ \A e \in Edges : mem[e] \cup (IF e = Edge THEN {key.id} ELSE {}) \subseteq mem'[e]
      <4>1. mem' = [mem EXCEPT ![Edge] = ops[2] \cup {key.id}]
        BY <3>1 DEF SetEvents
      <4>2. Edge # "polled" /\ Edges \subseteq DOMAIN mem
        BY <1>5 DEF Edges, Shape
      <4> QED BY <1>5, <3>1, <4>1, <4>2
    <3>3. PICK g : g = Append(h, key)
      OBVIOUS
    <3>4. KeysDone(ButtonStages, g)' /\ h \in Seq(Keys)
      BY <1>1, <1>4, <1>5, <2>2, <2>3, <3>3, KeyMoves
    <3>5. \A e : EdgeKeys(g, e) = EdgeKeys(h, e) \cup (IF EdgeOf(key) = e THEN {key.id} ELSE {})
      <4> HIDE DEF key
      <4> QED BY <1>5, <3>3, <3>4, HeldGrows
    <3>6. Latched(g)'
      BY <1>1, <1>5, <2>2, <3>2, <3>5 DEF Latched
    <3> QED BY <2>2, <3>2, <3>4, <3>6
  <2>4. CASE Stage # "set_events"
    <3>1. mem'.polled = mem.polled /\ \A e \in Edges : mem'[e] = mem[e]
      BY <2>4 DEF ButtonStep, QueueButton, ReadBits, SetBits, ReadEvents, Shape, Edges
    <3>2. KeysDone(ButtonStages, h)'
      BY <1>1, <1>4, <1>5, <2>2, <2>4, KeyMoves
    <3> QED BY <1>1, <2>2, <3>1, <3>2 DEF Latched
  <2> QED BY <2>3, <2>4
<1>10. CopyPart'
  <2>1. work'.what \in Keys'
    BY <1>1, <1>5
  <2>2. Stage' = "set_bits" => ops'[2] = mem'.bits
    BY DEF ButtonStep, ReadBits
  <2>3. Stage' = "set_events" => mem'[Edge'] \subseteq ops'[2]
    BY <1>5 DEF ButtonStep, ReadEvents
  <2> QED BY <1>4, <2>1, <2>2, <2>3 DEF CopyPart
<1> QED BY <1>6, <1>7, <1>8, <1>9, <1>10 DEF FirstInv

(* The other steps do not come near input: what they write is a mailbox.   *)
LEMMA WriteAside ==
  ASSUME Shape, NEW box \in Boxes, NEW field, NEW value, Write(box, field, value)
  PROVE  \A b \in KeyBytes : mem'[b] = mem[b]
BY DEF Write, Shape, Boxes, KeyBytes, Edges

LEMMA AskStays ==
  ASSUME OpsInv, AskConsole \/ AskDebug \/ PollDebug
  PROVE  InputStays /\ Stage \notin InputStages /\ Stage' \notin InputStages
<1>1. InputStays
  BY DEF AskConsole, AskDebug, PollDebug, Ask, MainOnly, hostVars, inbound, input, InputStays
<1>2. PICK name \in {"ask_console", "ask_debug", "poll_debug"} : Op(name)
  BY DEF AskConsole, AskDebug, PollDebug, Ask
<1>3. Stage = name /\ ops = <<name>>
  BY <1>2, OpsAre DEF Op, Stage
<1>4. PICK s \in {<< >>, ConsoleOps, RequestOps, AnswerOps} : ops' = s \o Tail(ops)
  <2>1. Append(RequestSteps, "poll_debug") = RequestOps
    BY OneMore DEF RequestSteps, RequestOps
  <2> QED BY <2>1 DEF AskConsole, AskDebug, PollDebug, Ask, Then, ConsoleSteps, ConsoleOps, AnswerOps
<1>5. ops' = s
  <2>1. Listed(<< >>) /\ Listed(ConsoleOps) /\ Listed(RequestOps) /\ Listed(AnswerOps)
    BY DEF Listed, ConsoleOps, RequestOps, AnswerOps
  <2> QED BY <1>3, <1>4, <2>1, NothingAfter
<1>6. Stage' \in {"done", "console_data", "request_data", "take_debug"}
  BY <1>5 DEF Stage, ConsoleOps, RequestOps, AnswerOps
<1> QED BY <1>1, <1>2, <1>3, <1>6 DEF InputStages, ButtonStages

LEMMA LogAside ==
  ASSUME \/ DeliverConsole \/ DeliverRequest \/ PrintConsole \/ FreeConsole
         \/ TakeDebug \/ FreeDebug \/ SendHeader \/ SendPayload
  PROVE  log'.edges = log.edges
<1>1. ASSUME NEW steps, NEW box, NEW name \in {"console", "debug"}, Deliver(steps, box, name)
      PROVE  log'.edges = log.edges
  <2>1. log' = log \/ log' = [log EXCEPT ![name].accepted = Append(@, work.what)]
    BY <1>1 DEF Deliver
  <2>2. name # "edges"
    OBVIOUS
  <2>3. ASSUME NEW x, log' = [log EXCEPT ![name].accepted = x] PROVE log'.edges = log.edges
    BY <2>2, <2>3
  <2> QED BY <2>1, <2>3
<1>2. CASE DeliverConsole \/ DeliverRequest
  BY <1>1, <1>2 DEF DeliverConsole, DeliverRequest
<1>3. CASE PrintConsole
  BY <1>3 DEF PrintConsole
<1>4. CASE TakeDebug
  BY <1>4 DEF TakeDebug
<1>5. CASE FreeConsole \/ FreeDebug \/ SendHeader \/ SendPayload
  BY <1>5 DEF FreeConsole, FreeDebug, SendHeader, SendPayload
<1> QED BY <1>2, <1>3, <1>4, <1>5

LEMMA OtherStays ==
  ASSUME OpsInv, Shape,
         \/ DeliverConsole \/ DeliverRequest \/ ConsoleTimer \/ PrintConsole \/ FreeConsole
         \/ TakeDebug \/ FreeDebug \/ SendHeader \/ SendPayload
  PROVE  InputStays /\ Stage \notin InputStages /\ Stage' \notin InputStages
<1>1. CASE ConsoleTimer
  <2>1. ops = << >> /\ ops' = <<"print_console", "free_console">> /\ InputStays
    BY <1>1 DEF ConsoleTimer, MainOnly, hostVars, inbound, input, InputStays
  <2> QED BY <2>1 DEF Stage, InputStages, ButtonStages
<1> DEFINE names == {"console_data", "console_len", "console_pending", "request_data", "request_len",
                     "request_pending", "print_console", "free_console", "take_debug", "free_debug",
                     "header", "payload"}
<1>2. CASE ~ ConsoleTimer
  <2>1. PICK name \in names : Op(name) /\ Then(<< >>)
    BY <1>2 DEF DeliverConsole, DeliverRequest, Deliver, ConsoleSteps, RequestSteps, PrintConsole, FreeConsole,
                TakeDebug, FreeDebug, SendHeader, SendPayload
  <2>2. /\ Stage = name
        /\ ops' \in {<< >>, <<"payload">>, <<"free_console">>, <<"console_len", "console_pending">>,
                     <<"console_pending">>, <<"request_len", "request_pending", "poll_debug">>,
                     <<"request_pending", "poll_debug">>, <<"poll_debug">>, <<"free_debug", "header", "payload">>,
                     <<"header", "payload">>}
    BY <2>1, OpsAfter
  <2>3. Stage' \in names \cup {"done", "poll_debug"}
    BY <2>2 DEF Stage
  <2>4. UNCHANGED mem \/ \E box \in Boxes, field \in Fields, value \in {work.what, 0, 1} : Write(box, field, value)
    BY <1>2 DEF DeliverConsole, DeliverRequest, Deliver, PrintConsole, FreeConsole, TakeDebug, FreeDebug, SendHeader,
                SendPayload, Boxes, Fields
  <2>5. (\A b \in KeyBytes : mem'[b] = mem[b]) /\ log'.edges = log.edges
    <3>1. \A b \in KeyBytes : mem'[b] = mem[b]
      BY <2>4, WriteAside
    <3> QED BY <1>2, <3>1, LogAside
  <2>6. InputStays
    BY <1>2, <2>5 DEF DeliverConsole, DeliverRequest, Deliver, PrintConsole, FreeConsole, TakeDebug, FreeDebug,
                      SendHeader, SendPayload, MainOnly, hostVars, inbound, input, InputStays
  <2> QED BY <2>1, <2>2, <2>3, <2>6 DEF InputStages, ButtonStages
<1> QED BY <1>1, <1>2

LEMMA FirmwareStays ==
  ASSUME MailInv,
         \/ SeesRequest("console", "console") \/ SeesRequest("request", "debug")
         \/ ReadsLength \/ ReadsData \/ FreesRequest \/ WritesAnswer \/ RaisesAnswer
  PROVE  InputStays /\ UNCHANGED <<ops, work>>
<1>1. CpuOnly
  BY DEF SeesRequest, ReadsLength, ReadsData, FreesRequest, WritesAnswer, RaisesAnswer
<1>2. \A b \in KeyBytes : mem'[b] = mem[b]
  <2>1. CASE UNCHANGED mem
    BY <2>1
  <2>2. CASE FreesRequest
    BY <2>2, WriteAside DEF FreesRequest, MailInv, Boxes
  <2>3. CASE WritesAnswer \/ RaisesAnswer
    <3>1. cpu.box \in Boxes
      BY <2>3 DEF WritesAnswer, RaisesAnswer, Cpu, MailInv, CpuInv, Boxes
    <3>2. CASE WritesAnswer
      BY <3>1, <3>2 DEF WritesAnswer, MailInv, Shape, Boxes, KeyBytes, Edges
    <3>3. CASE RaisesAnswer
      BY <3>1, <3>3, WriteAside DEF RaisesAnswer, MailInv
    <3> QED BY <2>3, <3>2, <3>3
  <2> QED BY <2>1, <2>2, <2>3 DEF SeesRequest, ReadsLength, ReadsData
<1>3. log'.edges = log.edges
  <2>1. CASE ReadsData
    BY <2>1 DEF ReadsData, LogOf
  <2>2. CASE ~ ReadsData
    BY <2>2 DEF SeesRequest, ReadsLength, FreesRequest, WritesAnswer, RaisesAnswer
  <2> QED BY <2>1, <2>2
<1> QED BY <1>1, <1>2, <1>3 DEF CpuOnly, InputStays, hostVars, inbound, input

LEMMA InputStep == InputInv /\ MailInv /\ StreamInv /\ StreamInv' /\ [LinkNext]_linkVars => InputInv'
<1> SUFFICES ASSUME InputInv, MailInv, StreamInv, StreamInv', [LinkNext]_linkVars PROVE InputInv'
  OBVIOUS
<1>0. InputStays /\ (UNCHANGED <<ops, work>> \/ (Stage \notin InputStages /\ Stage' \notin InputStages)) => InputInv'
  BY InputAside
<1>1. CASE \/ UNCHANGED linkVars \/ (\E f \in firmware.traffic : HostSends(f)) \/ ReadChunk \/ DiscardTurn
           \/ BusyTimer \/ SpiTransaction \/ (\E pin \in BOOLEAN : ResetPin(pin))
           \/ (\E b \in Buffers \cup {None} : Exports(b)) \/ PublishFramebuffer \/ PublishDirect \/ EndPublish
  <2>1. UNCHANGED <<mem, log, ops, work, connections, firmware, dispatched, touchQueue, buttonQueue, controller, unread>>
    BY <1>1 DEF linkVars, HostSends, ReadChunk, DiscardTurn, ParserOnly, BusyTimer, SpiTransaction, ResetPin, Exports,
                PublishFramebuffer, PublishDirect, EndPublish, DisplayOnly, hostVars, inbound, input
  <2> QED BY <1>0, <2>1 DEF InputStays
<1>2. CASE Reconnect
  BY <1>2, ReconnectKeepsInput
<1>3. CASE HeaderTurn \/ PayloadTurn
  <2>1. ops = << >> /\ UNCHANGED <<firmware, connections, input, mem, log>>
    BY <1>3 DEF HeaderTurn, PayloadTurn, Parsing, hostVars
  <2>2. UNCHANGED <<dispatched, ops, work>> \/ \E f : Dispatch(f)
    BY <1>3 DEF HeaderTurn, PayloadTurn
  <2>3. CASE UNCHANGED <<dispatched, ops, work>>
    BY <1>0, <2>1, <2>3 DEF InputStays, input
  <2>4. CASE \E f : Dispatch(f)
    BY <2>1, <2>4, DispatchKeepsInput
  <2> QED BY <2>2, <2>3, <2>4
<1>4. CASE AskConsole \/ AskDebug \/ PollDebug
  BY <1>0, <1>4, AskStays DEF MailInv
<1>5. CASE \/ DeliverConsole \/ DeliverRequest \/ ConsoleTimer \/ PrintConsole \/ FreeConsole
           \/ TakeDebug \/ FreeDebug \/ SendHeader \/ SendPayload
  BY <1>0, <1>5, OtherStays DEF MailInv
<1>6. CASE InjectTouches
  BY <1>6, InjectKeepsInput DEF MailInv
<1>7. CASE QueueButton \/ ReadBits \/ SetBits \/ ReadEvents \/ SetEvents
  BY <1>7, ButtonStepIs, KeyKeepsInput DEF MailInv
<1>8. CASE \/ SeesRequest("console", "console") \/ SeesRequest("request", "debug")
           \/ ReadsLength \/ ReadsData \/ FreesRequest \/ WritesAnswer \/ RaisesAnswer
  BY <1>0, <1>8, FirmwareStays
<1>9. CASE TouchRead \/ ButtonRead \/ I2cPointer \/ I2cBeginRead \/ I2cEndRead
  BY <1>9, ReadsKeepInput
<1>10. CASE \E e \in Edges : SwapsEdges(e) \/ LoadsEdges(e) \/ StoresEdges(e)
  BY <1>10, PollsKeepInput DEF MailInv
<1> QED BY <1>1, <1>2, <1>3, <1>4, <1>5, <1>6, <1>7, <1>8, <1>9, <1>10 DEF LinkNext, MainThread, Firmware

LEMMA InputIsKept == InputInv => InputsKept
<1> SUFFICES ASSUME InputInv PROVE InputsKept
  OBVIOUS
<1>1. unread /\ controller.register # "td_status" => controller.intLow
  BY DEF InputInv, ControllerInv
<1>2. SUFFICES ASSUME ops = << >>, connections = 1
               PROVE  /\ IsSuffix(touchQueue, HeardIn(dispatched))
                      /\ IsSuffix(buttonQueue, KeysIn(dispatched))
                      /\ controller.kind = "ft6336u" =>
                           controller.active = After([f \in Fingers |-> Lifted], HeardIn(dispatched))
                      /\ mem.bits = HeldKeys(KeysIn(dispatched))
                      /\ firmware.polls # "load_store" => Latched(KeysIn(dispatched))
  BY <1>1 DEF InputsKept, NoEdgeLost, Latched
<1>3. FirstInv /\ Stage = "done"
  BY <1>2 DEF InputInv, Stage
<1>4. PICK h : /\ TouchDone(h) /\ Tails(Touches, touchQueue, h)
               /\ controller.kind = "ft6336u" => controller.active = After([f \in Fingers |-> Lifted], h)
  BY <1>3 DEF FirstInv, TouchPart
<1>5. h = HeardIn(dispatched)
  <2>1. h \in Seq(Touches) /\ HeardIn(dispatched) = h \o << >>
    BY <1>3, <1>4 DEF TouchDone
  <2> QED BY <2>1, ConcatEmptySeq
<1>6. \A s, g : s \subseteq ButtonStages /\ KeysDone(s, g) => g = KeysIn(dispatched)
  BY <1>3 DEF KeysDone, ButtonStages
<1>7. IsSuffix(buttonQueue, KeysIn(dispatched))
  BY <1>3, <1>6, TailsIsSuffix DEF FirstInv, QueuePart, ButtonStages
<1>8. mem.bits = HeldKeys(KeysIn(dispatched))
  BY <1>3, <1>6 DEF FirstInv, BitsPart, ButtonStages
<1>9. firmware.polls # "load_store" => Latched(KeysIn(dispatched))
  BY <1>3, <1>6 DEF FirstInv, EdgePart
<1> QED BY <1>4, <1>5, <1>7, <1>8, <1>9, TailsIsSuffix

(* What the host did reaches the firmware through the queues, the touch    *)
(* controller and the key bytes, whatever the firmware reads meanwhile; no *)
(* key event is lost on a firmware whose poll takes and clears its byte at *)
(* once, although the host writes back what it read before                 *)
(* (mofeiSimulatorTouchQueue, mofeiSimulatorButtonStateWrite,              *)
(* ft6336u_inject_touch and the I2C reads).                                *)
THEOREM InputsAreKept == LinkSpec => []InputsKept
<1>1. LinkInit => MailInv /\ StreamInv /\ InputInv
  BY LinkStart, StreamInit, InputStart
<1>2. MailInv /\ StreamInv /\ InputInv /\ [LinkNext]_linkVars => (MailInv /\ StreamInv /\ InputInv)'
  BY LinkStep, StreamStep, InputStep
<1> QED BY <1>1, <1>2, InputIsKept, PTL DEF LinkSpec

=============================================================================
