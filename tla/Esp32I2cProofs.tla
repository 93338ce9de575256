--------------------------- MODULE Esp32I2cProofs ---------------------------
(***************************************************************************)
(* For any devices, addresses, lists of commands, bridged calls, faults    *)
(* and length of the FIFO: controller and bus agree, a transaction is      *)
(* traced once, and a read of the gauge is of one state.                   *)
(***************************************************************************)
EXTENDS Esp32I2c, SequenceTheorems, TLAPS

(* A device is a record whose pointer may be anything.                     *)
IsDevice(d) ==
  \E P : d \in [ptr : P, expecting : BOOLEAN, active : BOOLEAN, reading : BOOLEAN,
                once : BOOLEAN, latched : BOOLEAN, data : Seq(Nat), version : Nat,
                pending : BOOLEAN, owed : Int]

(* One device: its trace is owed while it is in a transaction, and what a  *)
(* read of the gauge returned is the state it has.                         *)
Owing(d) == d.owed = IF d.active THEN 1 ELSE 0
Uniform(d, kind) ==
  kind = "gauge" /\ d.active /\ d.reading => \A i \in 1..Len(d.data) : d.data[i] = d.version
Good(d, kind) == IsDevice(d) /\ Owing(d) /\ Uniform(d, kind)

IInv ==
  /\ DOMAIN dev = Addresses /\ \A a \in Addresses : Good(dev[a], Devices[a])
  /\ held \in Addresses \cup {None} /\ ongoing \in BOOLEAN
  /\ BusAgrees

----------------------------------------------------------------------------
(* The handlers of a device.                                               *)

LEMMA FreshIsGood ==
  ASSUME NEW kind
  PROVE  Good(Fresh(0), kind) /\ ~ Fresh(0).active
<1>1. IsDevice(Fresh(0))
  BY EmptySeq DEF IsDevice, Fresh
<1> QED BY <1>1 DEF Good, Owing, Uniform, Fresh

(* The end of a transaction, if there is one.                              *)
LEMMA FinishedIsGood ==
  ASSUME NEW d, NEW kind, Good(d, kind)
  PROVE  Good(Finished(d), kind) /\ ~ Finished(d).active
<1>1. PICK P : d \in [ptr : P, expecting : BOOLEAN, active : BOOLEAN, reading : BOOLEAN,
                      once : BOOLEAN, latched : BOOLEAN, data : Seq(Nat), version : Nat,
                      pending : BOOLEAN, owed : Int]
  BY DEF Good, IsDevice
<1>2. IsDevice(Finished(d))
  <2>1. <<>> \in Seq(Nat) /\ d.owed - 1 \in Int
    BY <1>1, EmptySeq
  <2>2. [Closed(d) EXCEPT !.active = FALSE] \in [ptr : P, expecting : BOOLEAN, active : BOOLEAN, reading : BOOLEAN,
           once : BOOLEAN, latched : BOOLEAN, data : Seq(Nat), version : Nat,
           pending : BOOLEAN, owed : Int]
    BY <1>1, <2>1 DEF Closed
  <2> QED BY <1>1, <2>2 DEF IsDevice, Finished, Traced
<1>3. Owing(Finished(d)) /\ ~ Finished(d).active
  BY <1>1 DEF Good, Owing, Finished, Traced, Closed
<1> QED BY <1>2, <1>3 DEF Good, Uniform

(* A device that is in no transaction begins one, unless it refuses.       *)
LEMMA StartedIsGood ==
  ASSUME NEW d, NEW kind, Good(d, kind), ~ d.active, NEW reading \in BOOLEAN
  PROVE  Good(Started(d, kind, reading), kind) /\ Started(d, kind, reading).active = ~ Refuses(d)
<1>1. PICK P : d \in [ptr : P, expecting : BOOLEAN, active : BOOLEAN, reading : BOOLEAN,
                      once : BOOLEAN, latched : BOOLEAN, data : Seq(Nat), version : Nat,
                      pending : BOOLEAN, owed : Int]
  BY DEF Good, IsDevice
<1>2. Traced(d) = d
  BY DEF Traced
<1> DEFINE s == Started(d, kind, reading)
           begun == [d EXCEPT !.data = <<>>, !.expecting = ~ reading, !.reading = reading,
                              !.once = FALSE, !.active = ~ Refuses(d)]
<1>3. s = IF Refuses(d) THEN [begun EXCEPT !.expecting = TRUE, !.reading = FALSE]
          ELSE [begun EXCEPT !.owed = @ + 1]
  BY <1>2 DEF Started
<1>4. Refuses(d) \in BOOLEAN
  BY <1>1 DEF Refuses
<1>5. IsDevice(s)
  <2>1. <<>> \in Seq(Nat) /\ d.owed + 1 \in Int
    BY <1>1, EmptySeq
  <2>2. begun \in [ptr : P, expecting : BOOLEAN, active : BOOLEAN, reading : BOOLEAN,
             once : BOOLEAN, latched : BOOLEAN, data : Seq(Nat), version : Nat,
             pending : BOOLEAN, owed : Int]
    BY <1>1, <1>4, <2>1
  <2>3. begun.owed = d.owed
    BY <1>1
  <2> HIDE DEF begun
  <2>4. CASE Refuses(d)
    <3>1. s = [begun EXCEPT !.expecting = TRUE, !.reading = FALSE]
      BY <1>3, <2>4
    <3> QED BY <2>2, <3>1 DEF IsDevice
  <2>5. CASE ~ Refuses(d)
    <3>1. s = [begun EXCEPT !.owed = @ + 1]
      BY <1>3, <2>5
    <3> QED BY <2>1, <2>2, <2>3, <3>1 DEF IsDevice
  <2> QED BY <2>4, <2>5
<1>6. s.active = ~ Refuses(d) /\ s.data = <<>> /\ s.owed = IF Refuses(d) THEN d.owed ELSE d.owed + 1
  BY <1>1, <1>3, <1>4
<1>7. Uniform(s, kind)
  BY <1>6, EmptySeq DEF Uniform
<1>8. Owing(s)
  <2>1. d.owed = 0
    BY DEF Good, Owing
  <2> HIDE DEF s
  <2>2. CASE Refuses(d)
    <3>1. ~ s.active /\ s.owed = 0
      BY <1>6, <2>1, <2>2
    <3> QED BY <3>1 DEF Owing
  <2>3. CASE ~ Refuses(d)
    <3>1. s.owed = 1
      BY <1>6, <2>1, <2>3
    <3>2. s.active
      BY <1>6, <2>3, Zenon
    <3> QED BY <3>1, <3>2 DEF Owing
  <2> QED BY <2>2, <2>3
<1> QED BY <1>5, <1>6, <1>7, <1>8 DEF Good

(* A byte written or read leaves the transaction open.                     *)
LEMMA SentIsGood ==
  ASSUME NEW d, NEW kind, Good(d, kind), NEW byte
  PROVE  Good(Sent(d, kind, byte), kind) /\ Sent(d, kind, byte).active = d.active
<1>1. PICK P : d \in [ptr : P, expecting : BOOLEAN, active : BOOLEAN, reading : BOOLEAN,
                      once : BOOLEAN, latched : BOOLEAN, data : Seq(Nat), version : Nat,
                      pending : BOOLEAN, owed : Int]
  BY DEF Good, IsDevice
<1> DEFINE s == Sent(d, kind, byte)
           R == P \cup {byte % RegisterCount, NextRegister(d.ptr)}
<1>2. s \in [ptr : R, expecting : BOOLEAN, active : BOOLEAN, reading : BOOLEAN,
             once : BOOLEAN, latched : BOOLEAN, data : Seq(Nat), version : Nat,
             pending : BOOLEAN, owed : Int]
  BY <1>1 DEF Sent
<1>3. s.active = d.active /\ s.reading = d.reading /\ s.data = d.data /\ s.version = d.version
      /\ s.owed = d.owed
  BY <1>1 DEF Sent
<1>4. IsDevice(s)
  BY <1>2 DEF IsDevice
<1> QED BY <1>3, <1>4 DEF Good, Owing, Uniform

LEMMA ReceivedIsGood ==
  ASSUME NEW d, NEW kind, Good(d, kind)
  PROVE  Good(Received(d, kind), kind) /\ Received(d, kind).active = d.active
<1>1. PICK P : d \in [ptr : P, expecting : BOOLEAN, active : BOOLEAN, reading : BOOLEAN,
                      once : BOOLEAN, latched : BOOLEAN, data : Seq(Nat), version : Nat,
                      pending : BOOLEAN, owed : Int]
  BY DEF Good, IsDevice
<1> DEFINE r == Received(d, kind)
           R == P \cup {NextRegister(d.ptr)}
<1>2. Kept(d.data, d.version) \in Seq(Nat)
  BY <1>1, AppendProperties DEF Kept
<1>3. r \in [ptr : R, expecting : BOOLEAN, active : BOOLEAN, reading : BOOLEAN,
             once : BOOLEAN, latched : BOOLEAN, data : Seq(Nat), version : Nat,
             pending : BOOLEAN, owed : Int]
  BY <1>1, <1>2 DEF Received
<1>4. r.active = d.active /\ r.reading = d.reading /\ r.version = d.version /\ r.owed = d.owed
      /\ (kind = "gauge" => r.data = Kept(d.data, d.version))
  BY <1>1 DEF Received
<1>5. Uniform(r, kind)
  <2> SUFFICES ASSUME kind = "gauge", d.active, d.reading, NEW i \in 1..Len(r.data)
               PROVE  r.data[i] = d.version
    BY <1>4 DEF Uniform
  <2>1. \A j \in 1..Len(d.data) : d.data[j] = d.version
    BY DEF Good, Uniform
  <2>2. r.data = d.data \/ r.data = Append(d.data, d.version)
    BY <1>4 DEF Kept
  <2> QED BY <1>1, <2>1, <2>2, AppendProperties
<1>6. IsDevice(r)
  BY <1>3 DEF IsDevice
<1> QED BY <1>4, <1>5, <1>6 DEF Good, Owing

(* The host's requests.  Only a gauge in no transaction takes a state.     *)
LEMMA HostKeepsGood ==
  ASSUME NEW d, NEW kind \in Kinds, Good(d, kind), Accepts(d, kind), NEW version \in Nat,
         NEW once \in BOOLEAN,
         NEW e \in {StateSet(d, kind, version), FaultSet(d, once), FaultsCleared(d),
                    ModelReset(d, kind)}
  PROVE  Good(e, kind) /\ (e.active => d.active)
<1>1. PICK P : d \in [ptr : P, expecting : BOOLEAN, active : BOOLEAN, reading : BOOLEAN,
                      once : BOOLEAN, latched : BOOLEAN, data : Seq(Nat), version : Nat,
                      pending : BOOLEAN, owed : Int]
  BY DEF Good, IsDevice
<1>2. CASE e = StateSet(d, kind, version)
  <2>1. e.active = d.active /\ e.owed = d.owed
    BY <1>1, <1>2 DEF StateSet
  <2>2. IsDevice(e)
    BY <1>1, <1>2 DEF IsDevice, StateSet
  <2> QED BY <2>1, <2>2 DEF Good, Owing, Uniform, Accepts
<1>3. CASE e = FaultSet(d, once) \/ e = FaultsCleared(d)
  <2>1. e.active = d.active /\ e.reading = d.reading /\ e.data = d.data /\ e.version = d.version
        /\ e.owed = d.owed
    BY <1>1, <1>3 DEF FaultSet, FaultsCleared
  <2>2. IsDevice(e)
    BY <1>1, <1>3 DEF IsDevice, FaultSet, FaultsCleared
  <2> QED BY <2>1, <2>2 DEF Good, Owing, Uniform
<1>4. CASE e = ModelReset(d, kind) /\ kind = "charger"
  <2>1. e.active = d.active /\ e.owed = d.owed
    BY <1>1, <1>4 DEF ModelReset, Fresh
  <2>2. IsDevice(e)
    BY <1>1, <1>4 DEF IsDevice, ModelReset, Fresh
  <2> QED BY <1>4, <2>1, <2>2 DEF Good, Owing, Uniform
<1>5. CASE e = ModelReset(d, kind) /\ kind # "charger"
  BY <1>5, FreshIsGood DEF ModelReset
<1> QED BY <1>2, <1>3, <1>4, <1>5
----------------------------------------------------------------------------
(* The bus.                                                                *)

LEMMA Assumed ==
  /\ None \notin Addresses
  /\ \A a \in Addresses : Devices[a] \in Kinds
  /\ MaxStates \in Nat \ {0}
  /\ Set \subseteq Addresses /\ \A f \in Fail : f[1] \in Addresses
BY ControllerAssumption DEF Addresses, None

(* The device of a held bus changes and stays as active as it was.         *)
LEMMA HeldChanges ==
  ASSUME IInv, held # None, NEW d, Good(d, Devices[held]), d.active = dev[held].active,
         dev' = [dev EXCEPT ![held] = d], UNCHANGED <<held, ongoing>>
  PROVE  IInv'
<1>1. held \in Addresses /\ DOMAIN dev' = Addresses /\ dev'[held] = d
      /\ \A a \in Addresses : a # held => dev'[a] = dev[a]
  BY DEF IInv
<1>2. \A a \in Addresses : Good(dev'[a], Devices[a])
  BY <1>1 DEF IInv
<1>3. BusAgrees'
  BY <1>1 DEF IInv, BusAgrees
<1> QED BY <1>1, <1>2, <1>3 DEF IInv, Good, Addresses

(* The bus is let go of: nobody is in a transaction any more.              *)
LEMMA LetGo ==
  ASSUME IInv, NEW d, held # None => Good(d, Devices[held]) /\ ~ d.active,
         dev' = IF held = None THEN dev ELSE [dev EXCEPT ![held] = d],
         held' = None, ongoing' = FALSE
  PROVE  IInv'
<1>1. DOMAIN dev' = Addresses
      /\ (held # None => held \in Addresses /\ dev'[held] = d)
      /\ \A a \in Addresses : a # held => dev'[a] = dev[a]
  BY Assumed DEF IInv
<1>2. \A a \in Addresses : Good(dev'[a], Devices[a]) /\ ~ dev'[a].active
  BY <1>1, Assumed DEF IInv, BusAgrees
<1>3. BusAgrees'
  BY <1>2 DEF BusAgrees
<1> QED BY <1>1, <1>2, <1>3 DEF IInv

LEMMA HangupKeeps ==
  ASSUME IInv, Hangup
  PROVE  IInv'
<1>1. CASE ongoing
  <2>1. held # None /\ held \in Addresses
    BY <1>1 DEF IInv, BusAgrees
  <2>2. Good(Finished(dev[held]), Devices[held]) /\ ~ Finished(dev[held]).active
    BY <2>1, FinishedIsGood DEF IInv
  <2>3. dev' = [dev EXCEPT ![held] = Finished(dev[held])] /\ held' = None /\ ongoing' = FALSE
    BY <1>1, <2>1 DEF Hangup, EndTransfer
  <2> QED BY <2>1, <2>2, <2>3, LetGo
<1>2. CASE ~ ongoing
  <2>1. UNCHANGED <<held, dev>> /\ ongoing' = FALSE /\ ongoing = FALSE
    BY <1>2 DEF Hangup, IInv
  <2> QED BY <2>1 DEF IInv, BusAgrees
<1> QED BY <1>1, <1>2

(* A start on a bus that nobody holds.                                     *)
LEMMA WriteAddressKeeps ==
  ASSUME IInv, WriteAddress
  PROVE  IInv'
<1> DEFINE a == NextByte \div 2
           s == Started(dev[a], Devices[a], NextByte % 2 = 1)
<1>1. ~ ongoing /\ held = None /\ \A b \in Addresses : ~ dev[b].active
  BY Assumed DEF WriteAddress, IInv, BusAgrees
<1>2. CASE a \notin Addresses
  <2>1. UNCHANGED <<held, dev, ongoing>>
    BY <1>2 DEF WriteAddress, StartTransfer, Answers
  <2> QED BY <2>1 DEF IInv, BusAgrees
<1>3. CASE a \in Addresses
  <2>1. (NextByte % 2 = 1) \in BOOLEAN
    OBVIOUS
  <2>2. Good(s, Devices[a]) /\ s.active = ~ Refuses(dev[a])
    BY <1>1, <1>3, <2>1, StartedIsGood DEF IInv
  <2> HIDE DEF s
  <2>3. CASE Refuses(dev[a])
    <3>1. /\ dev' = [dev EXCEPT ![a] = Finished(s)] /\ held' = None /\ ongoing' = ongoing
      BY <1>3, <2>3 DEF WriteAddress, StartTransfer, Answers, s
    <3>2. Good(Finished(s), Devices[a]) /\ ~ Finished(s).active
      BY <2>2, FinishedIsGood
    <3>3. /\ DOMAIN dev' = Addresses /\ dev'[a] = Finished(s)
          /\ \A b \in Addresses : b # a => dev'[b] = dev[b]
      BY <1>3, <3>1 DEF IInv
    <3>4. \A b \in Addresses : Good(dev'[b], Devices[b]) /\ ~ dev'[b].active
      BY <1>1, <3>2, <3>3 DEF IInv
    <3>5. BusAgrees'
      BY <1>1, <3>1, <3>4 DEF BusAgrees
    <3> QED BY <3>1, <3>3, <3>4, <3>5 DEF IInv
  <2>4. CASE ~ Refuses(dev[a])
    <3>1. /\ dev' = [dev EXCEPT ![a] = s] /\ held' = a /\ ongoing' = TRUE
      BY <1>3, <2>4 DEF WriteAddress, StartTransfer, Answers, s
    <3>2. /\ DOMAIN dev' = Addresses /\ dev'[a] = s
          /\ \A b \in Addresses : b # a => dev'[b] = dev[b]
      BY <1>3, <3>1 DEF IInv
    <3>3. \A b \in Addresses : Good(dev'[b], Devices[b]) /\ (dev'[b].active => b = a)
      BY <1>1, <2>2, <3>2 DEF IInv
    <3>4. BusAgrees'
      BY <1>3, <3>1, <3>3, Assumed DEF BusAgrees
    <3> QED BY <1>3, <3>1, <3>2, <3>3, <3>4 DEF IInv
  <2> QED BY <2>3, <2>4
<1> QED BY <1>2, <1>3

(* A byte sent, or refused, which ends the transaction.                    *)
LEMMA SendByteKeeps ==
  ASSUME IInv, SendByte
  PROVE  IInv'
<1> DEFINE s == Sent(dev[held], Devices[held], NextByte)
<1>1. held # None /\ held \in Addresses /\ ongoing
  BY DEF SendByte, IInv, BusAgrees
<1>2. Good(s, Devices[held]) /\ s.active = dev[held].active
  BY <1>1, SentIsGood DEF IInv
<1>3. Good(Finished(s), Devices[held]) /\ ~ Finished(s).active
  BY <1>2, FinishedIsGood
<1>4. \/ dev' = [dev EXCEPT ![held] = Finished(s)] /\ held' = None /\ ongoing' = FALSE
      \/ dev' = [dev EXCEPT ![held] = s] /\ UNCHANGED <<held, ongoing>>
  BY DEF SendByte
<1> HIDE DEF s
<1>5. CASE dev' = [dev EXCEPT ![held] = Finished(s)] /\ held' = None /\ ongoing' = FALSE
  BY <1>1, <1>3, <1>5, LetGo
<1>6. CASE dev' = [dev EXCEPT ![held] = s] /\ UNCHANGED <<held, ongoing>>
  BY <1>1, <1>2, <1>6, HeldChanges
<1> QED BY <1>4, <1>5, <1>6

LEMMA ReceiveByteKeeps ==
  ASSUME IInv, ReceiveByte
  PROVE  IInv'
<1>1. UNCHANGED <<held, ongoing>>
  BY DEF ReceiveByte
<1>2. CASE held = None
  BY <1>1, <1>2 DEF ReceiveByte, IInv, BusAgrees
<1>3. CASE held # None
  <2> DEFINE r == Received(dev[held], Devices[held])
  <2>1. Good(r, Devices[held]) /\ r.active = dev[held].active
    BY <1>3, ReceivedIsGood DEF IInv
  <2>2. dev' = [dev EXCEPT ![held] = r]
    BY <1>3 DEF ReceiveByte
  <2> HIDE DEF r
  <2> QED BY <1>1, <1>3, <2>1, <2>2, HeldChanges
<1> QED BY <1>2, <1>3

(* A request of the host, between two bytes of a bridged call at worst.    *)
LEMMA HostKeeps ==
  ASSUME IInv, NEW a \in Addresses, NEW version \in Nat, NEW once \in BOOLEAN,
         NEW d \in {StateSet(dev[a], Devices[a], version), FaultSet(dev[a], once),
                    FaultsCleared(dev[a]), ModelReset(dev[a], Devices[a])},
         HostChanges(a, d)
  PROVE  IInv'
<1>1. Accepts(dev[a], Devices[a]) /\ dev' = [dev EXCEPT ![a] = d] /\ UNCHANGED <<held, ongoing>>
  BY DEF HostChanges
<1>2. Good(d, Devices[a]) /\ (d.active => dev[a].active)
  BY <1>1, Assumed, HostKeepsGood DEF IInv
<1>3. /\ DOMAIN dev' = Addresses /\ dev'[a] = d
      /\ \A b \in Addresses : b # a => dev'[b] = dev[b]
  BY <1>1 DEF IInv
<1>4. \A b \in Addresses : Good(dev'[b], Devices[b]) /\ (dev'[b].active => dev[b].active)
  BY <1>2, <1>3 DEF IInv
<1>5. BusAgrees'
  BY <1>1, <1>4 DEF IInv, BusAgrees
<1> QED BY <1>1, <1>3, <1>4, <1>5 DEF IInv

LEMMA HostRequestsKeep ==
  ASSUME IInv, NEW a \in Addresses,
         \/ SetState(a) \/ ClearFaults(a) \/ ResetDevice(a)
         \/ \E once \in BOOLEAN : SetFault(a, once)
  PROVE  IInv'
<1>1. CASE SetState(a)
  <2>1. (dev[a].version + 1) % MaxStates \in Nat
    BY Assumed DEF IInv, Good, IsDevice
  <2> QED BY <1>1, <2>1, HostKeeps DEF SetState
<1>2. CASE ClearFaults(a)
  BY <1>2, HostKeeps DEF ClearFaults
<1>3. CASE ResetDevice(a)
  BY <1>3, HostKeeps DEF ResetDevice
<1>4. ASSUME NEW once \in BOOLEAN, SetFault(a, once) PROVE IInv'
  BY <1>4, HostKeeps DEF SetFault
<1> QED BY <1>1, <1>2, <1>3, <1>4

----------------------------------------------------------------------------
LEMMA IInit == Init => IInv
<1> SUFFICES ASSUME Init PROVE IInv
  OBVIOUS
<1>1. \A a \in Addresses : Good(dev[a], Devices[a]) /\ ~ dev[a].active
  BY FreshIsGood DEF Init
<1> QED BY <1>1 DEF Init, IInv, BusAgrees

LEMMA IStep == IInv /\ [Next]_vars => IInv'
<1> SUFFICES ASSUME IInv, [Next]_vars PROVE IInv'
  OBVIOUS
<1>1. ASSUME UNCHANGED <<ongoing, held, dev>> PROVE IInv'
  BY <1>1 DEF IInv, BusAgrees
<1>2. ASSUME NEW p \in Programs, NEW fifoReset \in BOOLEAN, StartProgram(p, fifoReset) PROVE IInv'
  BY <1>1, <1>2 DEF StartProgram
<1>3. ASSUME NEW p \in Transfers, StartDirect(p) PROVE IInv'
  BY <1>1, <1>3 DEF StartDirect
<1>4. CASE ResetFsm \/ ResetController \/ Restart \/ Stop
  BY <1>4, HangupKeeps DEF ResetFsm, ResetController, Restart, Stop
<1>5. CASE ReadFifo \/ ConsumeEvent \/ CommandEnds \/ End \/ UNCHANGED vars
  BY <1>1, <1>5 DEF ReadFifo, ConsumeEvent, CommandEnds, End, vars
<1>6. ASSUME NEW a \in Addresses, ResetDevice(a) \/ ClearFaults(a) PROVE IInv'
  BY <1>6, HostRequestsKeep
<1>7. ASSUME NEW a \in Set, SetState(a) PROVE IInv'
  BY <1>7, Assumed, HostRequestsKeep
<1>8. ASSUME NEW f \in Fail, SetFault(f[1], f[2] = "once") PROVE IInv'
  <2>1. (f[2] = "once") \in BOOLEAN /\ f[1] \in Addresses
    BY Assumed
  <2> QED BY <1>8, <2>1, HostRequestsKeep
<1>9. CASE WriteAddress
  BY <1>9, WriteAddressKeeps
<1>10. CASE SendByte
  BY <1>10, SendByteKeeps
<1>11. CASE ReceiveByte
  BY <1>11, ReceiveByteKeeps
<1> QED
  BY <1>2, <1>3, <1>4, <1>5, <1>6, <1>7, <1>8, <1>9, <1>10, <1>11 DEF Next, Controller

LEMMA Inductive == Spec => []IInv
BY IInit, IStep, PTL DEF Spec

(* However a list or a bridged call ends, the controller believes that a   *)
(* transaction goes on just when a device holds the bus.                   *)
THEOREM ControllerAndBusAgree == Spec => []BusAgrees
<1>1. IInv => BusAgrees
  BY DEF IInv
<1> QED BY <1>1, Inductive, PTL

(* The host gets one trace of every transaction, of any length and with    *)
(* any requests in between.                                                *)
THEOREM EachTransactionTraced == Spec => []TracedOnce
<1>1. IInv => TracedOnce
  BY DEF IInv, Good, Owing, TracedOnce
<1> QED BY <1>1, Inductive, PTL

(* What a read of the gauge returned so far is of one state of the host,   *)
(* however many bytes it has and wherever it is split.                     *)
THEOREM GaugeReadsOneState == Spec => []GaugeWordWhole
<1>1. ASSUME IInv PROVE GaugeWordWhole
  <2> SUFFICES ASSUME NEW a \in Addresses, Devices[a] = "gauge", dev[a].active, dev[a].reading,
                      NEW i \in 1..Len(dev[a].data), NEW j \in 1..Len(dev[a].data)
               PROVE  dev[a].data[i] = dev[a].data[j]
    BY DEF GaugeWordWhole
  <2>1. \A k \in 1..Len(dev[a].data) : dev[a].data[k] = dev[a].version
    BY <1>1 DEF IInv, Good, Uniform
  <2> QED BY <2>1
<1> QED BY <1>1, Inductive, PTL
=============================================================================
