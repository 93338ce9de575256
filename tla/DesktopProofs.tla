--------------------------- MODULE DesktopProofs ---------------------------
(***************************************************************************)
(* The programs on the desktop.  The Tauri host, for any number of runs,   *)
(* IO threads and frames; the debug transport, for any number of clients,  *)
(* requests and payloads and any capacity of the broadcast; one call of    *)
(* the POS console client, for any number of ids and lines under way.      *)
(***************************************************************************)
EXTENDS TauriHost, DebugTransport, PosConsole, SequenceTheorems, FiniteSetTheorems, TLAPS

----------------------------------------------------------------------------
(* The Tauri host.                                                         *)

USE DEF Runs

LEMMA InitInv == Init => HostInv
<1> SUFFICES ASSUME Init PROVE HostInv
  OBVIOUS
<1>1. TypeOK
  <2>1. outbox \in [Runs -> Seq(Runs \cup {None})]
    BY DEF Init
  <2>2. spawned \in 0..MaxRuns /\ accepted \in 0..MaxFrames
    BY HostAssumption DEF Init
  <2>3. /\ link \in [Runs -> Runs \cup {None}]
        /\ served \in [Runs -> Runs \cup {None}]
        /\ stage \in [Runs -> {"none", "connecting", "connected", "bound", "ended"}]
    BY DEF Init
  <2>4. QED
    BY <2>1, <2>2, <2>3 DEF Init, TypeOK
<1>2. OneQemu /\ Started /\ TasksBound
  BY HostAssumption DEF Init, OneQemu, Started, TasksBound
<1>3. Tagged
  BY DEF Init, Tagged
<1>4. QED
  BY <1>1, <1>2, <1>3 DEF HostInv

(* A channel whose frames are all meant for one run keeps that, appended to *)
(* or read from.                                                            *)
LEMMA TagsAfterAppend ==
  ASSUME NEW S, NEW s \in Seq(S), NEW r \in S, \A i \in DOMAIN s : s[i] = r
  PROVE  /\ Append(s, r) \in Seq(S)
         /\ \A i \in DOMAIN Append(s, r) : Append(s, r)[i] = r
  OBVIOUS

LEMMA TagsAfterTail ==
  ASSUME NEW S, NEW s \in Seq(S), s # <<>>, NEW r, \A i \in DOMAIN s : s[i] = r
  PROVE  /\ Tail(s) \in Seq(S)
         /\ \A i \in DOMAIN Tail(s) : Tail(s)[i] = r
         /\ Head(s) = r
  OBVIOUS

----------------------------------------------------------------------------
(* The commands.                                                            *)

(* A QEMU started is a new one: no thread is linked to it.                  *)
LEMMA SpawnInv ==
  ASSUME HostInv, Spawn, rebooting' \in BOOLEAN
  PROVE  HostInv'
<1> USE DEF HostInv
<1>1. TypeOK'
  BY HostAssumption DEF TypeOK, Spawn, MayStart, frames
<1>2. alive = {}
  BY HostAssumption DEF TypeOK, OneQemu, Spawn, MayStart
<1>3. OneQemu'
  BY <1>2 DEF OneQemu, Spawn
<1>4. Started'
  BY <1>2, HostAssumption DEF TypeOK, Started, Spawn
<1>5. TasksBound'
  <2> SUFFICES ASSUME NEW t \in Runs
               PROVE  /\ t \in writing' => stage'[t] = "bound"
                      /\ outbox'[t] # <<>> => t \in writing'
    BY DEF TasksBound
  <2>1. t = spawned + 1 => t \notin writing
    BY DEF TypeOK, Started, TasksBound
  <2>2. t # spawned + 1 => stage'[t] = stage[t]
    BY DEF TypeOK, Spawn
  <2>3. QED
    BY <2>1, <2>2 DEF TasksBound, Spawn, frames
<1>6. Tagged'
  <2> SUFFICES ASSUME NEW t \in Runs PROVE link[t] \notin alive'
    BY DEF Tagged, Spawn, frames
  <2>1. alive' = {spawned + 1}
    BY <1>2 DEF Spawn
  <2>2. link[t] # None => link[t] \in Nat /\ link[t] <= spawned
    BY DEF TypeOK, Started
  <2>3. spawned \in Nat
    BY HostAssumption DEF TypeOK
  <2>4. None # spawned + 1
    BY <2>3, HostAssumption
  <2>5. QED
    BY <2>1, <2>2, <2>3, <2>4
<1>7. QED
  BY <1>1, <1>3, <1>4, <1>5, <1>6

LEMMA NoSpawnInv ==
  ASSUME HostInv, NoSpawn, rebooting' \in BOOLEAN
  PROVE  HostInv'
<1> USE DEF HostInv, NoSpawn, tasks, frames
<1>1. TypeOK'
  BY DEF TypeOK
<1>2. OneQemu' /\ Started' /\ TasksBound' /\ Tagged'
  BY DEF OneQemu, Started, TasksBound, Tagged
<1>3. QED
  BY <1>1, <1>2

LEMMA StopInv ==
  ASSUME HostInv, StopLocked, rebooting' \in BOOLEAN
  PROVE  HostInv'
<1> USE DEF HostInv, StopLocked, tasks, frames
<1>1. TypeOK'
  BY DEF TypeOK
<1>2. OneQemu' /\ Started' /\ TasksBound' /\ Tagged'
  BY DEF OneQemu, Started, TasksBound, Tagged
<1>3. QED
  BY <1>1, <1>2

(* A frame accepted while the bound thread's QEMU lives is meant for it.    *)
LEMMA TrySendInv ==
  ASSUME HostInv, TrySend
  PROVE  HostInv'
<1> USE DEF HostInv, TrySend, host, qemu, tasks
<1>1. bound \in Runs /\ bound \in writing
  BY DEF TypeOK, Accepts
<1>2. outbox[bound] \in Seq(Runs \cup {None}) /\ process \in Runs \cup {None}
  BY <1>1 DEF TypeOK
<1>3. Append(outbox[bound], process) \in Seq(Runs \cup {None})
  BY <1>2
<1>4. TypeOK'
  <2>1. outbox' \in [Runs -> Seq(Runs \cup {None})]
    BY <1>3 DEF TypeOK
  <2>2. accepted' \in 0..MaxFrames
    BY HostAssumption DEF TypeOK
  <2>3. QED
    BY <2>1, <2>2 DEF TypeOK
<1>5. OneQemu' /\ Started'
  BY DEF OneQemu, Started
<1>6. TasksBound'
  BY <1>1 DEF TasksBound, TypeOK
<1>7. ASSUME NEW t \in Runs, link[t] \in alive, NEW i \in DOMAIN outbox'[t]
      PROVE  outbox'[t][i] = link[t]
  <2>1. CASE t # bound
    BY <1>7, <2>1 DEF Tagged, TypeOK
  <2>2. CASE t = bound
    <3>1. link[t] = process
      BY <1>7 DEF OneQemu
    <3>2. outbox'[t] = Append(outbox[t], process)
      BY <1>1, <2>2 DEF TypeOK
    <3>3. \A j \in DOMAIN outbox[t] : outbox[t][j] = process
      BY <1>7, <3>1 DEF Tagged
    <3>4. QED
      BY <1>2, <1>7, <2>2, <3>1, <3>2, <3>3, TagsAfterAppend
  <2>3. QED
    BY <2>1, <2>2
<1>8. Tagged'
  BY <1>7 DEF Tagged
<1>9. QED
  BY <1>4, <1>5, <1>6, <1>8

----------------------------------------------------------------------------
(* The IO thread.                                                           *)

(* A thread that connects has an empty channel, whichever QEMU it reaches.  *)
LEMMA ConnectInv ==
  ASSUME HostInv, NEW t \in Runs, Connect(t)
  PROVE  HostInv'
<1> USE DEF HostInv, Connect, host, frames
<1>1. TypeOK'
  BY DEF TypeOK
<1>2. OneQemu'
  BY DEF OneQemu
<1>3. Started'
  BY DEF Started, TypeOK
<1>4. TasksBound'
  BY DEF TasksBound, TypeOK
<1>5. outbox[t] = <<>>
  BY DEF TasksBound
<1>6. Tagged'
  BY <1>5 DEF Tagged, TypeOK
<1>7. QED
  BY <1>1, <1>2, <1>3, <1>4, <1>6

LEMMA GiveUpInv ==
  ASSUME HostInv, NEW t \in Runs, GiveUp(t)
  PROVE  HostInv'
<1> USE DEF HostInv, GiveUp, host, qemu, frames
<1>1. TypeOK'
  BY DEF TypeOK
<1>2. OneQemu' /\ Tagged'
  BY DEF OneQemu, Tagged
<1>3. Started' /\ TasksBound'
  BY DEF Started, TasksBound, TypeOK
<1>4. QED
  BY <1>1, <1>2, <1>3

LEMMA BindInv ==
  ASSUME HostInv, NEW t \in Runs, Bind(t)
  PROVE  HostInv'
<1> USE DEF HostInv, Bind, NewChannel, host, qemu
<1>1. TypeOK'
  BY DEF TypeOK
<1>2. OneQemu'
  BY DEF OneQemu
<1>3. Started' /\ TasksBound'
  BY DEF Started, TasksBound, TypeOK
<1>4. Tagged'
  BY DEF Tagged, TypeOK
<1>5. QED
  BY <1>1, <1>2, <1>3, <1>4

LEMMA WriteFrameInv ==
  ASSUME HostInv, NEW t \in Runs, WriteFrame(t)
  PROVE  HostInv' /\ Head(outbox[t]) = link[t]
<1> USE DEF HostInv, WriteFrame, Delivers, host, qemu, tasks
<1>1. outbox[t] \in Seq(Runs \cup {None}) /\ outbox[t] # <<>>
  BY DEF TypeOK
<1>2. \A i \in DOMAIN outbox[t] : outbox[t][i] = link[t]
  BY DEF Tagged
<1>3. /\ Tail(outbox[t]) \in Seq(Runs \cup {None})
      /\ \A i \in DOMAIN Tail(outbox[t]) : Tail(outbox[t])[i] = link[t]
      /\ Head(outbox[t]) = link[t]
  BY <1>1, <1>2, TagsAfterTail
<1>4. TypeOK'
  BY <1>3 DEF TypeOK
<1>5. OneQemu' /\ Started'
  BY DEF OneQemu, Started
<1>6. TasksBound'
  BY DEF TasksBound, TypeOK
<1>7. Tagged'
  BY <1>3 DEF Tagged, TypeOK
<1>8. QED
  BY <1>3, <1>4, <1>5, <1>6, <1>7

LEMMA WriteEndsInv ==
  ASSUME HostInv, NEW t \in Runs, WriteEnds(t)
  PROVE  HostInv'
<1> USE DEF HostInv, WriteEnds, host, qemu
<1>1. TypeOK'
  BY DEF TypeOK
<1>2. OneQemu' /\ Started'
  BY DEF OneQemu, Started
<1>3. TasksBound' /\ Tagged'
  BY DEF TasksBound, Tagged, TypeOK
<1>4. QED
  BY <1>1, <1>2, <1>3

LEMMA ReadEndsInv ==
  ASSUME HostInv, NEW t \in Runs, ReadEnds(t)
  PROVE  HostInv'
<1> USE DEF HostInv, ReadEnds, host, qemu, frames
<1>1. TypeOK'
  BY DEF TypeOK
<1>2. OneQemu' /\ Started' /\ TasksBound' /\ Tagged'
  BY DEF OneQemu, Started, TasksBound, Tagged
<1>3. QED
  BY <1>1, <1>2

LEMMA UnbindInv ==
  ASSUME HostInv, NEW t \in Runs, Unbind(t)
  PROVE  HostInv'
<1> USE DEF HostInv, Unbind, host, qemu, frames
<1>1. TypeOK'
  BY DEF TypeOK
<1>2. OneQemu' /\ Tagged'
  BY DEF OneQemu, Tagged
<1>3. Started' /\ TasksBound'
  BY DEF Started, TasksBound, TypeOK
<1>4. QED
  BY <1>1, <1>2, <1>3

----------------------------------------------------------------------------
(* QEMU.                                                                    *)

LEMMA QemuInv ==
  ASSUME HostInv, NEW q \in Runs, Qemu(q)
  PROVE  HostInv'
<1> USE DEF HostInv, host, tasks, frames
<1>1. CASE Listen(q)
  BY <1>1 DEF Listen, TypeOK, OneQemu, Started, TasksBound, Tagged
<1>2. CASE Accept(q)
  BY <1>2 DEF Accept, TypeOK, OneQemu, Started, TasksBound, Tagged
<1>3. CASE HangUp(q)
  BY <1>3 DEF HangUp, TypeOK, OneQemu, Started, TasksBound, Tagged
<1>4. CASE Exit(q)
  BY <1>4 DEF Exit, TypeOK, OneQemu, Started, TasksBound, Tagged
<1>5. QED
  BY <1>1, <1>2, <1>3, <1>4 DEF Qemu

----------------------------------------------------------------------------
LEMMA StepInv == HostInv /\ [Next]_vars => HostInv'
<1> SUFFICES ASSUME HostInv, [Next]_vars PROVE HostInv'
  OBVIOUS
<1>1. ASSUME StartLocked, rebooting' \in BOOLEAN PROVE HostInv'
  BY <1>1, SpawnInv, NoSpawnInv DEF StartLocked
<1>2. CASE Command
  <2>1. rebooting \in BOOLEAN
    BY DEF HostInv, TypeOK
  <2>2. CASE StartSim
    BY <1>1, <2>1, <2>2 DEF StartSim
  <2>3. CASE StopSim
    BY StopInv, <2>1, <2>3 DEF StopSim
  <2>4. CASE FullReboot
    BY StopInv, <2>4 DEF FullReboot
  <2>5. CASE FullRebootStarts
    BY <1>1, <2>5 DEF FullRebootStarts
  <2>6. CASE TrySend
    BY TrySendInv, <2>6
  <2>7. QED
    BY <1>2, <2>2, <2>3, <2>4, <2>5, <2>6 DEF Command
<1>3. CASE \E r \in Runs : IoThread(r)
  BY <1>3, ConnectInv, GiveUpInv, BindInv, WriteFrameInv, WriteEndsInv, ReadEndsInv, UnbindInv
     DEF IoThread
<1>4. CASE \E r \in Runs : Qemu(r)
  BY <1>4, QemuInv
<1>5. CASE UNCHANGED vars
  BY <1>5 DEF vars, host, qemu, tasks, frames, HostInv, TypeOK, OneQemu, Started,
              TasksBound, Tagged
<1>6. QED
  BY <1>2, <1>3, <1>4, <1>5 DEF Next

(* The inductive invariant of the host: a run that is dead stays dead, and  *)
(* the frames in a thread's channel are meant for the QEMU it is linked to  *)
(* as long as that one lives.                                               *)
THEOREM HostInvariant == Spec => []HostInv
<1>1. Init => HostInv
  BY InitInv
<1>2. HostInv /\ [Next]_vars => HostInv'
  BY StepInv
<1>3. QED
  BY <1>1, <1>2, PTL DEF Spec

(* Whatever starts, stops and reboots race with exits of QEMU, the host     *)
(* leaves none alive that it does not hold.                                 *)
THEOREM NoOrphan == Spec => []OneQemu
<1>1. HostInv => OneQemu
  BY DEF HostInv
<1>2. QED
  BY <1>1, HostInvariant, PTL

(* A frame accepted during one run is never delivered to another, for any   *)
(* number of runs whose threads and channels outlive them.                  *)
THEOREM FramesKeepToTheirRun == Spec => FrameReachesItsRun
<1>1. HostInv => \A t \in Runs : WriteFrame(t) => Head(outbox[t]) = link[t]
  BY WriteFrameInv
<1>2. QED
  BY <1>1, HostInvariant, PTL DEF FrameReachesItsRun

----------------------------------------------------------------------------
(* The debug transport: the connection's one receiver passes over nothing, *)
(* and while a client loop selects nothing it has taken up is unanswered.  *)
ALine == [seq : Nat, type : Types]
Asked == [client : Nat, seq : Nat]

(* The types of what the proofs speak of.                                  *)
DebugTypes ==
  /\ phase \in {"accept", "select", "send", "wait", "closed"}
  /\ client \in Nat /\ lines \in Nat
  /\ inbox \in Seq(ALine)
  /\ phase \in {"send", "wait"} => request \in ALine
  /\ log \in Seq(Seq(Asked)) /\ firmware \in Seq(Asked)
  /\ next \in 1 .. Len(log) + 1 /\ joined \in 1 .. next

(* What has been taken up is answered but for the request in progress.     *)
OneOpen == Serving => read \subseteq answered \cup (IF phase = "select" THEN {} ELSE {request.seq})

IInv == DebugTypes /\ OneOpen /\ NothingSkipped

----------------------------------------------------------------------------
(* The server's own answer ends a request.                                 *)
LEMMA HostAnswersPreserves ==
  ASSUME IInv, phase \in {"send", "wait"}, HostAnswers
  PROVE  IInv'
<1>1. /\ answered' = answered \cup {request.seq}
      /\ UNCHANGED <<connection, shutdown, log, next, firmware, read, got, lost, joined>>
      /\ phase' \in {"select", "accept"}
  BY DEF HostAnswers, Writes, AfterRequest
<1>2. DebugTypes'
  BY <1>1 DEF IInv, DebugTypes, connection
<1>3. OneOpen'
  BY <1>1 DEF IInv, OneOpen, Serving
<1>4. NothingSkipped'
  BY <1>1 DEF IInv, NothingSkipped, Serving
<1> QED BY <1>2, <1>3, <1>4 DEF IInv

(* A payload moves the receiver by one, and one that ends the wait answers *)
(* the request.                                                            *)
LEMMA ReceivePreserves ==
  ASSUME IInv, Receive
  PROVE  IInv'
<1>1. /\ phase \in {"select", "wait"} /\ next <= Len(log) /\ next' = next + 1
      /\ got' = got \cup {next}
      /\ answered' = answered \cup {log[next][i].seq : i \in DOMAIN log[next]}
      /\ UNCHANGED <<connection, shutdown, log, firmware, read, lost, joined>>
  BY DEF Receive
<1>2. \/ phase' = "accept"
      \/ phase' = phase /\ (phase = "wait" => request' = request)
      \/ phase = "wait" /\ phase' = "select" /\ Matches(log[next])
  BY <1>1 DEF Receive, Writes, AfterRequest
<1>3. DebugTypes'
  BY <1>1, <1>2 DEF IInv, DebugTypes, connection
<1>4. Matches(log[next]) => request.seq \in answered'
  <2>1. log[next] \in Seq(Asked)
    BY <1>1 DEF IInv, DebugTypes
  <2>2. Matches(log[next]) => Len(log[next]) \in DOMAIN log[next]
    BY <2>1 DEF Matches
  <2> QED BY <1>1, <2>2 DEF Matches
<1>5. OneOpen'
  <2>1. CASE phase' = phase /\ (phase = "wait" => request' = request)
    BY <1>1, <2>1 DEF IInv, OneOpen, Serving
  <2>2. CASE phase = "wait" /\ phase' = "select" /\ Matches(log[next])
    BY <1>1, <1>4, <2>2 DEF IInv, OneOpen, Serving
  <2> QED BY <1>2, <2>1, <2>2 DEF OneOpen, Serving
<1>6. NothingSkipped'
  <2>1. joined .. next - 1 = got \cup lost /\ got \cap lost = {}
    BY <1>1 DEF IInv, NothingSkipped, Serving
  <2>2. next \in Nat /\ joined \in Nat /\ joined <= next
    BY DEF IInv, DebugTypes
  <2>3. joined .. (next + 1) - 1 = (joined .. next - 1) \cup {next} /\ next \notin joined .. next - 1
    BY <2>2
  <2> QED BY <1>1, <2>1, <2>3 DEF NothingSkipped
<1> QED BY <1>3, <1>5, <1>6 DEF IInv

(* Two stretches of the log that meet are one, and share nothing.          *)
LEMMA Stretches ==
  ASSUME NEW a \in Nat, NEW b \in Nat, NEW c \in Nat, a <= b, b <= c
  PROVE  /\ a .. c - 1 = (a .. b - 1) \cup (b .. c - 1)
         /\ (a .. b - 1) \cap (b .. c - 1) = {}
OBVIOUS

(* A receiver that has lagged goes on at the oldest payload that is left.  *)
LEMMA LagPreserves ==
  ASSUME IInv, Lag
  PROVE  IInv'
<1>1. /\ phase \in {"select", "wait"} /\ Len(log) - next >= Capacity
      /\ next' = Len(log) + 1 - Capacity
      /\ lost' = lost \cup (next .. next' - 1)
      /\ UNCHANGED <<phase, connection, request, shutdown, log, firmware, answered, read, got, joined>>
  BY DEF Lag, Lagged
<1>2. /\ next \in Nat /\ joined \in Nat /\ joined <= next /\ Len(log) \in Nat /\ Capacity \in Nat \ {0}
      /\ 1 <= joined
  BY TransportAssumption DEF IInv, DebugTypes
<1>3. next' \in Nat /\ next < next' /\ next' <= Len(log) + 1
  BY <1>1, <1>2
<1>4. DebugTypes'
  BY <1>1, <1>2, <1>3 DEF IInv, DebugTypes, connection
<1>5. OneOpen'
  BY <1>1 DEF IInv, OneOpen, Serving
<1>6. NothingSkipped'
  <2>1. joined .. next - 1 = got \cup lost /\ got \cap lost = {}
    BY <1>1 DEF IInv, NothingSkipped, Serving
  <2>2. /\ joined .. next' - 1 = (joined .. next - 1) \cup (next .. next' - 1)
        /\ (joined .. next - 1) \cap (next .. next' - 1) = {}
    <3>1. next <= next'
      BY <1>2, <1>3
    <3> QED BY <1>2, <1>3, <3>1, Stretches, Zenon
  <2> QED BY <1>1, <2>1, <2>2 DEF NothingSkipped
<1> QED BY <1>4, <1>5, <1>6 DEF IInv

(* A line is taken from the inbox when nothing is open.                    *)
LEMMA TakeRequestPreserves ==
  ASSUME IInv, TakeRequest
  PROVE  IInv'
<1>1. /\ phase = "select" /\ phase' = "send" /\ inbox # <<>>
      /\ inbox' = Tail(inbox) /\ request' = Head(inbox) /\ read' = read \cup {Head(inbox).seq}
      /\ UNCHANGED <<client, lines, hungUp, shutdown, log, next, firmware, answered, got, lost, joined>>
  BY DEF TakeRequest
<1>2. Head(inbox) \in ALine /\ Tail(inbox) \in Seq(ALine)
  BY <1>1, HeadTailProperties DEF IInv, DebugTypes
<1>3. DebugTypes'
  BY <1>1, <1>2 DEF IInv, DebugTypes
<1>4. OneOpen'
  BY <1>1 DEF IInv, OneOpen, Serving
<1>5. NothingSkipped'
  BY <1>1 DEF IInv, NothingSkipped, Serving
<1> QED BY <1>3, <1>4, <1>5 DEF IInv

LEMMA AnswerLinePreserves ==
  ASSUME IInv, AnswerLine
  PROVE  IInv'
<1>1. /\ phase = "select" /\ phase' \in {"select", "accept"} /\ inbox # <<>>
      /\ inbox' = Tail(inbox) /\ read' = read \cup {Head(inbox).seq}
      /\ answered' = answered \cup {Head(inbox).seq}
      /\ UNCHANGED <<client, lines, hungUp, shutdown, log, next, firmware, got, lost, joined>>
  BY DEF AnswerLine, Writes
<1>2. Tail(inbox) \in Seq(ALine)
  BY <1>1, HeadTailProperties DEF IInv, DebugTypes
<1>3. DebugTypes'
  BY <1>1, <1>2 DEF IInv, DebugTypes
<1>4. OneOpen'
  BY <1>1 DEF IInv, OneOpen, Serving
<1>5. NothingSkipped'
  BY <1>1 DEF IInv, NothingSkipped, Serving
<1> QED BY <1>3, <1>4, <1>5 DEF IInv

(* A request goes to the firmware; the receiver stays where it is.         *)
LEMMA ForwardPreserves ==
  ASSUME IInv, Forward
  PROVE  IInv'
<1>1. /\ phase = "send" /\ phase' = "wait" /\ next' = next
      /\ firmware' = Append(firmware, [client |-> client, seq |-> request.seq])
      /\ UNCHANGED <<connection, request, shutdown, log, history>>
  BY DEF Forward, PositionAfterSend
<1>2. [client |-> client, seq |-> request.seq] \in Asked
  BY <1>1 DEF IInv, DebugTypes, ALine, Asked
<1>3. firmware' \in Seq(Asked)
  BY <1>1, <1>2, AppendProperties DEF IInv, DebugTypes
<1>4. DebugTypes'
  BY <1>1, <1>3 DEF IInv, DebugTypes, connection, history
<1>5. OneOpen'
  BY <1>1 DEF IInv, OneOpen, Serving, history
<1>6. NothingSkipped'
  BY <1>1 DEF IInv, NothingSkipped, Serving, history
<1> QED BY <1>4, <1>5, <1>6 DEF IInv

(* A new connection starts with nothing read and subscribes at the end.    *)
LEMMA AcceptPreserves ==
  ASSUME IInv, AcceptClient
  PROVE  IInv'
<1>1. /\ phase' = "select" /\ client' = client + 1 /\ inbox' = <<>> /\ lines' = 0
      /\ next' = Len(log) + 1 /\ joined' = Len(log) + 1
      /\ answered' = {} /\ read' = {} /\ got' = {} /\ lost' = {}
      /\ UNCHANGED <<log, firmware>>
  BY DEF AcceptClient
<1>2. Len(log) \in Nat
  BY DEF IInv, DebugTypes
<1>3. DebugTypes'
  BY <1>1, <1>2, EmptySeq DEF IInv, DebugTypes
<1>4. OneOpen'
  BY <1>1 DEF OneOpen
<1>5. NothingSkipped'
  BY <1>1, <1>2 DEF NothingSkipped
<1> QED BY <1>3, <1>4, <1>5 DEF IInv

LEMMA ClientSendsPreserves ==
  ASSUME IInv, NEW type \in Types, ClientSends(type)
  PROVE  IInv'
<1>1. /\ lines' = lines + 1 /\ inbox' = Append(inbox, [seq |-> lines', type |-> type])
      /\ UNCHANGED <<phase, client, hungUp, request, shutdown, log, next, firmware, history>>
  BY DEF ClientSends
<1>2. lines' \in Nat /\ [seq |-> lines', type |-> type] \in ALine
  BY <1>1 DEF IInv, DebugTypes, ALine
<1>3. inbox' \in Seq(ALine)
  BY <1>1, <1>2, AppendProperties DEF IInv, DebugTypes
<1>4. DebugTypes'
  BY <1>1, <1>2, <1>3 DEF IInv, DebugTypes, history
<1>5. OneOpen' /\ NothingSkipped'
  BY <1>1 DEF IInv, OneOpen, NothingSkipped, Serving, history
<1> QED BY <1>4, <1>5 DEF IInv

(* The firmware answers some of its requests in one payload, or restarts.  *)
LEMMA FirmwarePreserves ==
  ASSUME IInv, Publish \/ FirmwareRestarts
  PROVE  IInv'
<1>1. UNCHANGED <<phase, connection, request, shutdown, next, history>>
  BY DEF Publish, FirmwareRestarts
<1>2. firmware' \in Seq(Asked) /\ (log' = log \/ \E p \in Seq(Asked) : log' = Append(log, p))
  <2>1. CASE FirmwareRestarts
    BY <2>1, EmptySeq DEF FirmwareRestarts
  <2>2. CASE Publish
    <3>1. PICK n \in 0..Len(firmware) :
            /\ log' = Append(log, SubSeq(firmware, 1, n))
            /\ firmware' = SubSeq(firmware, n + 1, Len(firmware))
      BY <2>2 DEF Publish
    <3>2. firmware \in Seq(Asked) /\ Len(firmware) \in Nat
      BY DEF IInv, DebugTypes
    <3>3. SubSeq(firmware, 1, n) \in Seq(Asked)
      BY <3>2, SubSeqProperties
    <3>4. SubSeq(firmware, n + 1, Len(firmware)) \in Seq(Asked)
      BY <3>2, SubSeqProperties
    <3> QED BY <3>1, <3>3, <3>4
  <2> QED BY <2>1, <2>2
<1>3. log' \in Seq(Seq(Asked)) /\ Len(log) <= Len(log')
  BY <1>2, AppendProperties DEF IInv, DebugTypes
<1>4. DebugTypes'
  BY <1>1, <1>2, <1>3 DEF IInv, DebugTypes, connection, history
<1>5. OneOpen' /\ NothingSkipped'
  BY <1>1 DEF IInv, OneOpen, NothingSkipped, Serving, history
<1> QED BY <1>4, <1>5 DEF IInv

(* The steps that end a connection or the server, or change nothing here.  *)
LEMMA OthersPreserve ==
  ASSUME IInv, ClientLoopEnds \/ ClientHangsUp \/ Shutdown \/ SeeShutdown \/ UNCHANGED debugVars
  PROVE  IInv'
<1>1. /\ phase' \in {phase, "accept", "closed"}
      /\ UNCHANGED <<client, inbox, lines, request, log, next, firmware, history>>
  BY DEF ClientLoopEnds, ClientHangsUp, Shutdown, SeeShutdown, debugVars, connection
<1>2. DebugTypes'
  BY <1>1 DEF IInv, DebugTypes, history
<1>3. OneOpen' /\ NothingSkipped'
  BY <1>1 DEF IInv, OneOpen, NothingSkipped, Serving, history
<1> QED BY <1>2, <1>3 DEF IInv

LEMMA StepPreserves == IInv /\ [DebugNext]_debugVars => IInv'
<1> SUFFICES ASSUME IInv, [DebugNext]_debugVars PROVE IInv'
  OBVIOUS
<1>1. CASE AnswerLine BY <1>1, AnswerLinePreserves
<1>2. CASE TakeRequest BY <1>2, TakeRequestPreserves
<1>3. CASE Forward BY <1>3, ForwardPreserves
<1>4. CASE ForwardFails BY <1>4, HostAnswersPreserves DEF ForwardFails
<1>5. CASE Timeout BY <1>5, HostAnswersPreserves DEF Timeout, TimesOut
<1>6. CASE Receive BY <1>6, ReceivePreserves
<1>7. CASE Lag BY <1>7, LagPreserves
<1>8. CASE AcceptClient BY <1>8, AcceptPreserves
<1>9. ASSUME NEW type \in Types, ClientSends(type) PROVE IInv'
  BY <1>9, ClientSendsPreserves
<1>10. CASE Publish \/ FirmwareRestarts BY <1>10, FirmwarePreserves
<1>11. CASE ClientLoopEnds \/ ClientHangsUp \/ Shutdown \/ SeeShutdown \/ UNCHANGED debugVars
  BY <1>11, OthersPreserve
<1> QED
  BY <1>1, <1>2, <1>3, <1>4, <1>5, <1>6, <1>7, <1>8, <1>9, <1>10, <1>11 DEF DebugNext, Server

LEMMA InitEstablishes == DebugInit => IInv
<1> SUFFICES ASSUME DebugInit PROVE IInv
  OBVIOUS
<1>1. DebugTypes
  BY EmptySeq DEF DebugInit, DebugTypes
<1> QED BY <1>1 DEF DebugInit, IInv, OneOpen, NothingSkipped, Serving

----------------------------------------------------------------------------
(* No request is taken up while an earlier one has no answer, for any      *)
(* number of late answers and of payloads lost by the broadcast.           *)
THEOREM RequestsAnsweredInTurn == DebugSpec => []AnsweredInTurn
<1>1. IInv => AnsweredInTurn
  BY DEF IInv, OneOpen, AnsweredInTurn, Serving
<1> QED BY <1>1, InitEstablishes, StepPreserves, PTL DEF DebugSpec

(* Every payload published since the client connected has been forwarded   *)
(* once or counted as lost.                                                *)
THEOREM NoPayloadSkipped == DebugSpec => []NothingSkipped
<1>1. IInv => NothingSkipped
  BY DEF IInv
<1> QED BY <1>1, InitEstablishes, StepPreserves, PTL DEF DebugSpec

----------------------------------------------------------------------------
(* The POS console client: an install it reports was done, and is asked    *)
(* for under one id unless something was lost.                             *)
JobStates == {"none", "queued", "completed", "failed"}

(* The types of what the proofs speak of.                                  *)
PosTypes ==
  /\ operation \in {"install", "capabilities"}
  /\ pc \in {"send", "await", "refused", "done", "failed"}
  /\ id \in Ids
  /\ sent \in BOOLEAN
  /\ input \in Seq(Lines) /\ output \in Seq(Answers)
  /\ jobs \in [Ids -> JobStates]
  /\ admitted \subseteq Ids /\ completed \subseteq Ids

(* An answer that says completed is of an operation that was completed.    *)
Truthful(r) == operation = "install" /\ Completes(r) => r.id \in completed
AnswersTruthful ==
  /\ \A i \in Ids : jobs[i] = "completed" => i \in completed
  /\ \A k \in 1..Len(output) : Truthful(output[k])
  /\ terminal # NoAnswer => terminal.id = id /\ Truthful(terminal)
  /\ latest # NoAnswer => latest.id = id /\ Truthful(latest)

TInv == PosTypes /\ AnswersTruthful /\ CompletionIsReal

----------------------------------------------------------------------------
(* What the guest answers to a line.                                       *)
Reply(r) == output' = Append(output, r)

(* An answer is typed and truthful, and about the line that was read.      *)
LEMMA ReplyIsTruthful ==
  ASSUME TInv, ReadLine
  PROVE  \E r \in Answers :
           /\ Reply(r) /\ r.id = Head(input).id /\ Truthful(r)
           /\ jobs[r.id] = "none" /\ operation = "install" /\ Head(input).kind = "operation"
                => \/ r.error = "busy" /\ Settling(r) /\ UNCHANGED guest
                   \/ /\ r.error = "none" /\ ~ Settling(r)
                      /\ jobs' = [jobs EXCEPT ![r.id] = "queued"]
                      /\ admitted' = admitted \cup {r.id} /\ completed' = completed
           /\ jobs[r.id] # "none" \/ operation # "install" \/ Head(input).kind # "operation"
                => UNCHANGED guest
           /\ operation = "install" /\ Head(input).kind = "status" =>
                IF jobs[r.id] = "none" THEN r.error = "request_not_found" /\ r.about = "status"
                ELSE r.error \in {"none", "other"}
           /\ r.error = "request_not_found" => r.about = "status"
           /\ r.error = "busy" => Settling(r)
           /\ operation = "install" /\ jobs[r.id] # "none" => r.error \in {"none", "other"}
<1> DEFINE i == Head(input).id
<1>1. input # <<>> /\ i \in Ids /\ Head(input).kind \in {"operation", "status"}
  <2>1. input # <<>> /\ input \in Seq(Lines)
    BY DEF ReadLine, TInv, PosTypes
  <2>2. Head(input) \in Lines
    BY <2>1, HeadTailProperties
  <2> QED BY <2>1, <2>2 DEF Lines
<1>2. jobs[i] \in JobStates /\ (jobs[i] = "completed" => i \in completed)
  BY <1>1 DEF TInv, PosTypes, AnswersTruthful
<1>3. operation \in {"install", "capabilities"}
  BY DEF TInv, PosTypes
<1> DEFINE known == [id |-> i, about |-> "operation", state |-> jobs[i],
                     error |-> IF jobs[i] = "failed" THEN "other" ELSE "none"]
           done == [id |-> i, about |-> "operation", state |-> "completed", error |-> "none"]
           queued == [id |-> i, about |-> "operation", state |-> "queued", error |-> "none"]
           busy == [id |-> i, about |-> "operation", state |-> "failed", error |-> "busy"]
           missing == [id |-> i, about |-> "status", state |-> "failed", error |-> "request_not_found"]
<1>4. /\ done \in Answers /\ queued \in Answers /\ busy \in Answers /\ missing \in Answers
      /\ jobs[i] # "none" => known \in Answers
  BY <1>1, <1>2 DEF Answers, JobStates
<1>5. /\ Truthful(queued) /\ Truthful(busy) /\ Truthful(missing) /\ Truthful(known)
      /\ operation # "install" => Truthful(done)
  BY <1>2 DEF Truthful, Completes, Settling, Ok
<1> HIDE DEF i
<1>6. CASE Head(input).kind = "operation"
  <2>1. ReadOperation(i)
    BY <1>6 DEF ReadLine, i
  <2>2. CASE operation = "capabilities"
    <3>1. Reply(done) /\ UNCHANGED guest
      BY <2>1, <2>2 DEF ReadOperation, Answer, Reply
    <3> QED BY <1>4, <1>5, <1>6, <2>2, <3>1 DEF i
  <2>3. CASE operation = "install" /\ jobs[i] # "none"
    <3>1. Reply(known) /\ UNCHANGED guest
      BY <2>1, <2>3 DEF ReadOperation, Answer, JobAnswer, Reply
    <3>2. known.error \in {"none", "other"} /\ known.id = i
      OBVIOUS
    <3> QED BY <1>4, <1>5, <1>6, <2>3, <3>1, <3>2 DEF i
  <2>4. CASE operation = "install" /\ jobs[i] = "none"
    <3>1. \/ Reply(busy) /\ UNCHANGED guest
          \/ /\ Reply(queued) /\ jobs' = [jobs EXCEPT ![i] = "queued"]
             /\ admitted' = admitted \cup {i} /\ completed' = completed
      BY <2>1, <2>4 DEF ReadOperation, Answer, Reply
    <3>2. /\ busy.error = "busy" /\ Settling(busy) /\ busy.id = i
          /\ queued.error = "none" /\ ~ Settling(queued) /\ queued.id = i
      BY DEF Settling
    <3>3. CASE Reply(busy) /\ UNCHANGED guest
      BY <1>4, <1>5, <1>6, <2>4, <3>2, <3>3 DEF i
    <3>4. CASE /\ Reply(queued) /\ jobs' = [jobs EXCEPT ![i] = "queued"]
               /\ admitted' = admitted \cup {i} /\ completed' = completed
      BY <1>4, <1>5, <1>6, <2>4, <3>2, <3>4 DEF i
    <3> QED BY <3>1, <3>3, <3>4
  <2> QED BY <1>3, <2>2, <2>3, <2>4
<1>7. CASE Head(input).kind = "status"
  <2>1. ReadStatus(i)
    BY <1>7 DEF ReadLine, i
  <2>2. CASE jobs[i] = "none"
    <3>1. Reply(missing) /\ UNCHANGED guest
      BY <2>1, <2>2 DEF ReadStatus, Answer, Reply
    <3> QED BY <1>4, <1>5, <1>7, <2>2, <3>1 DEF i
  <2>3. CASE jobs[i] # "none"
    <3>1. Reply(known) /\ UNCHANGED guest
      BY <2>1, <2>3 DEF ReadStatus, JobAnswer, Answer, Reply
    <3>2. known.error \in {"none", "other"} /\ known.id = i
      OBVIOUS
    <3> QED BY <1>4, <1>5, <1>7, <2>3, <3>1, <3>2 DEF i
  <2> QED BY <2>2, <2>3
<1> QED BY <1>1, <1>6, <1>7

----------------------------------------------------------------------------
(* Truth.                                                                  *)

LEMMA TInit == PosInit => TInv
<1> SUFFICES ASSUME PosInit PROVE TInv
  OBVIOUS
<1>1. 1 \in Ids
  BY ConsoleAssumption DEF Ids
<1>2. <<>> \in Seq(Lines) /\ <<>> \in Seq(Answers)
  BY EmptySeq
<1>3. [i \in Ids |-> "none"] \in [Ids -> JobStates]
  BY DEF JobStates
<1>4. PosTypes
  BY <1>1, <1>2, <1>3, Zenon DEF PosInit, PosTypes
<1>5. Len(output) = 0 /\ \A i \in Ids : jobs[i] # "completed"
  BY DEF PosInit
<1> QED BY <1>4, <1>5 DEF PosInit, TInv, AnswersTruthful, CompletionIsReal

LEMMA SendLineKeepsTruth == TInv /\ SendLine => TInv'
<1> SUFFICES ASSUME TInv, SendLine PROVE TInv'
  OBVIOUS
<1>1. /\ input' = input \/ input' = Append(input, Line)
      /\ sent' \in BOOLEAN /\ pc' = "await"
      /\ UNCHANGED <<operation, id, latest, terminal, output, guest, disturbed>>
  BY DEF SendLine, TInv, PosTypes
<1>2. Line \in Lines
  BY DEF Line, Lines, TInv, PosTypes
<1>3. input' \in Seq(Lines)
  BY <1>1, <1>2, AppendProperties DEF TInv, PosTypes
<1>4. PosTypes'
  BY <1>1, <1>3 DEF TInv, PosTypes, guest
<1>5. AnswersTruthful' /\ CompletionIsReal'
  BY <1>1 DEF TInv, AnswersTruthful, CompletionIsReal, Truthful, Completes, Settling, Ok, guest
<1> QED BY <1>4, <1>5 DEF TInv

LEMMA HearKeepsTruth == TInv /\ Hear => TInv'
<1> SUFFICES ASSUME TInv, Hear PROVE TInv'
  OBVIOUS
<1> DEFINE r == Head(output)
<1>1. /\ output # <<>> /\ output' = Tail(output)
      /\ \/ r.id = id /\ (terminal' = terminal \/ terminal' = r) /\ latest' = r
         \/ UNCHANGED <<terminal, latest>>
      /\ UNCHANGED <<operation, pc, id, sent, input, guest, disturbed>>
  BY DEF Hear
<1>2. /\ output' \in Seq(Answers) /\ Truthful(r)
      /\ \A k \in 1..Len(output') : Truthful(output'[k])
  <2>1. output \in Seq(Answers) /\ \A k \in 1..Len(output) : Truthful(output[k])
    BY DEF TInv, PosTypes, AnswersTruthful
  <2>2. /\ Tail(output) \in Seq(Answers) /\ Len(Tail(output)) = Len(output) - 1
        /\ \A k \in 1..Len(Tail(output)) : Tail(output)[k] = output[k + 1]
        /\ r = output[1] /\ Len(output) \in Nat \ {0}
    BY <1>1, <2>1, HeadTailProperties
  <2>3. \A k \in 1..Len(Tail(output)) : k + 1 \in 1..Len(output)
    BY <2>2
  <2> QED BY <1>1, <2>1, <2>2, <2>3
<1>3. PosTypes'
  BY <1>1, <1>2 DEF TInv, PosTypes, guest
<1> HIDE DEF r
<1>4. AnswersTruthful' /\ CompletionIsReal'
  BY <1>1, <1>2 DEF TInv, AnswersTruthful, CompletionIsReal, Truthful, Completes, Settling, Ok, guest
<1> QED BY <1>3, <1>4 DEF TInv

LEMMA DecideKeepsTruth == TInv /\ Decide => TInv'
<1> SUFFICES ASSUME TInv, Decide PROVE TInv'
  OBVIOUS
<1>1. /\ pc = "await" /\ pc' \in {"refused", "send", "failed", "done"}
      /\ sent' \in BOOLEAN /\ (latest' = latest \/ latest' = NoAnswer)
      /\ pc' = "done" => Result # NoAnswer /\ Completes(Result)
      /\ UNCHANGED <<operation, id, terminal, heard, input, output, guest, disturbed>>
  BY DEF Decide, TInv, PosTypes
<1>2. PosTypes'
  BY <1>1 DEF TInv, PosTypes, guest
<1>3. AnswersTruthful'
  BY <1>1 DEF TInv, AnswersTruthful, Truthful, Completes, Settling, Ok, guest
<1>4. Result # NoAnswer => Result.id = id /\ Truthful(Result)
  BY DEF Result, TInv, AnswersTruthful
<1>5. CompletionIsReal'
  BY <1>1, <1>4 DEF CompletionIsReal, Truthful, guest
<1> QED BY <1>2, <1>3, <1>5 DEF TInv

LEMMA ReadLineKeepsTruth == TInv /\ ReadLine => TInv'
<1> SUFFICES ASSUME TInv, ReadLine PROVE TInv'
  OBVIOUS
<1>1. PICK r \in Answers : /\ Reply(r) /\ Truthful(r)
                           /\ \/ UNCHANGED guest
                              \/ /\ jobs' = [jobs EXCEPT ![r.id] = "queued"]
                                 /\ admitted' = admitted \cup {r.id} /\ completed' = completed
  BY ReplyIsTruthful
<1>2. input # <<>> /\ input' = Tail(input) /\ UNCHANGED <<clientVars, disturbed>>
  BY DEF ReadLine
<1>3. input' \in Seq(Lines)
  BY <1>2, HeadTailProperties DEF TInv, PosTypes
<1>4. r.id \in Ids
  BY DEF Answers
<1>5. /\ output' \in Seq(Answers)
      /\ \A k \in 1..Len(output') : Truthful(output'[k])
  <2>1. output \in Seq(Answers) /\ \A k \in 1..Len(output) : Truthful(output[k])
    BY DEF TInv, PosTypes, AnswersTruthful
  <2>2. /\ output' \in Seq(Answers) /\ Len(output') = Len(output) + 1
        /\ \A k \in 1..Len(output) : output'[k] = output[k]
        /\ output'[Len(output) + 1] = r /\ Len(output) \in Nat
    BY <1>1, <2>1, AppendProperties DEF Reply
  <2>3. \A k \in 1..Len(output') : k \in 1..Len(output) \/ k = Len(output) + 1
    BY <2>2
  <2> QED BY <1>1, <2>1, <2>2, <2>3
<1>6. /\ jobs' \in [Ids -> JobStates] /\ admitted' \subseteq Ids /\ completed' = completed
      /\ \A i \in Ids : jobs'[i] = "completed" => i \in completed
  BY <1>1, <1>4 DEF guest, TInv, PosTypes, AnswersTruthful, JobStates
<1>7. PosTypes'
  BY <1>2, <1>3, <1>5, <1>6 DEF TInv, PosTypes, clientVars
<1>8. AnswersTruthful' /\ CompletionIsReal'
  BY <1>2, <1>5, <1>6 DEF TInv, AnswersTruthful, CompletionIsReal, Truthful, Completes, Settling, Ok, clientVars
<1> QED BY <1>7, <1>8 DEF TInv

LEMMA FinishKeepsTruth ==
  ASSUME TInv, NEW i \in Ids, Finish(i)
  PROVE  TInv'
<1>1. /\ \/ jobs' = [jobs EXCEPT ![i] = "completed"] /\ completed' = completed \cup {i}
         \/ jobs' = [jobs EXCEPT ![i] = "failed"] /\ completed' = completed
      /\ UNCHANGED <<clientVars, input, output, admitted, disturbed>>
  BY DEF Finish
<1>2. PosTypes'
  BY <1>1 DEF TInv, PosTypes, JobStates, clientVars
<1>3. /\ \A j \in Ids : jobs'[j] = "completed" => j \in completed'
      /\ completed \subseteq completed'
  BY <1>1 DEF TInv, PosTypes, AnswersTruthful
<1>4. AnswersTruthful' /\ CompletionIsReal'
  BY <1>1, <1>3 DEF TInv, AnswersTruthful, CompletionIsReal, Truthful, Completes, Settling, Ok, clientVars
<1> QED BY <1>2, <1>4 DEF TInv

LEMMA LossKeepsTruth == TInv /\ (LoseLine \/ LoseAnswer \/ Restart) => TInv'
<1> SUFFICES ASSUME TInv, LoseLine \/ LoseAnswer \/ Restart PROVE TInv'
  OBVIOUS
<1>1. /\ input' \in Seq(Lines)
      /\ output' = output \/ (output # <<>> /\ output' = Tail(output))
      /\ jobs' = jobs \/ jobs' = [i \in Ids |-> "none"]
      /\ UNCHANGED <<clientVars, admitted, completed>>
  BY HeadTailProperties, EmptySeq DEF LoseLine, LoseAnswer, Restart, guest, TInv, PosTypes
<1>2. /\ output' \in Seq(Answers)
      /\ \A k \in 1..Len(output') : Truthful(output'[k])
  <2>1. output \in Seq(Answers) /\ \A k \in 1..Len(output) : Truthful(output[k])
    BY DEF TInv, PosTypes, AnswersTruthful
  <2>2. CASE output # <<>> /\ output' = Tail(output)
    <3>1. /\ Tail(output) \in Seq(Answers) /\ Len(Tail(output)) = Len(output) - 1
          /\ \A k \in 1..Len(Tail(output)) : Tail(output)[k] = output[k + 1]
          /\ Len(output) \in Nat \ {0}
      BY <2>1, <2>2, HeadTailProperties
    <3>2. \A k \in 1..Len(Tail(output)) : k + 1 \in 1..Len(output)
      BY <3>1
    <3> QED BY <2>1, <2>2, <3>1, <3>2
  <2> QED BY <1>1, <2>1, <2>2
<1>3. PosTypes'
  BY <1>1, <1>2 DEF TInv, PosTypes, JobStates, clientVars
<1>4. AnswersTruthful' /\ CompletionIsReal'
  BY <1>1, <1>2 DEF TInv, AnswersTruthful, CompletionIsReal, Truthful, Completes, Settling, Ok, clientVars
<1> QED BY <1>3, <1>4 DEF TInv

LEMMA TStep == TInv /\ [PosNext]_posVars => TInv'
<1> SUFFICES ASSUME TInv, [PosNext]_posVars PROVE TInv'
  OBVIOUS
<1>1. CASE SendLine BY <1>1, SendLineKeepsTruth
<1>2. CASE Hear BY <1>2, HearKeepsTruth
<1>3. CASE Decide BY <1>3, DecideKeepsTruth
<1>4. CASE Retry
  <2>1. /\ id' = id + 1 /\ id < MaxIds /\ latest' = NoAnswer /\ terminal' = NoAnswer /\ sent' = FALSE
        /\ pc' = "send" /\ UNCHANGED <<operation, heard, input, output, guest, disturbed>>
    BY <1>4 DEF Retry
  <2>2. id' \in Ids
    BY <2>1, ConsoleAssumption DEF TInv, PosTypes, Ids
  <2> QED
    BY <2>1, <2>2 DEF TInv, PosTypes, AnswersTruthful, CompletionIsReal, Truthful, Completes,
                      Settling, Ok, guest
<1>5. CASE Abandon
  BY <1>5 DEF Abandon, TInv, PosTypes, AnswersTruthful, CompletionIsReal, Truthful, Completes,
              Settling, Ok, guest
<1>6. CASE ReadLine BY <1>6, ReadLineKeepsTruth
<1>7. ASSUME NEW i \in Ids, Finish(i) PROVE TInv'
  BY <1>7, FinishKeepsTruth
<1>8. CASE LoseLine \/ LoseAnswer \/ Restart BY <1>8, LossKeepsTruth
<1>9. CASE UNCHANGED posVars
  BY <1>9 DEF posVars, clientVars, guest, TInv, PosTypes, AnswersTruthful, CompletionIsReal, Truthful,
              Completes, Settling, Ok
<1> QED BY <1>1, <1>2, <1>3, <1>4, <1>5, <1>6, <1>7, <1>8, <1>9 DEF PosNext

(* An install that is reported done was completed by the guest under the   *)
(* id of the answer, whatever was lost, late or restarted.                 *)
THEOREM InstallIsReal == PosSpec => []CompletionIsReal
<1>1. TInv => CompletionIsReal
  BY DEF TInv
<1> QED BY <1>1, TInit, TStep, PTL DEF PosSpec

----------------------------------------------------------------------------
(* One id.  As long as nothing was lost, the line that asks for the        *)
(* operation is read before the lines that ask for its state, so a missing *)
(* request has been refused before, and the client has heard of it first.  *)

Active == pc \in {"send", "await", "refused"}
Mine(k) == input[k].id = id
Asks(k) == input[k].kind = "operation"
Unasked == \A k \in 1..Len(output) : output[k].id # id
NoNews == terminal = NoAnswer /\ latest = NoAnswer

(* The guest has admitted the operation, or refused it: the client knows,  *)
(* or will before it hears what comes behind.                              *)
RefusalAt(k) == output[k].id = id /\ Settling(output[k])
Decided == id \in admitted \/ terminal # NoAnswer \/ \E k \in 1..Len(output) : RefusalAt(k)

(* At any time.                                                            *)
OneId ==
  /\ admitted \subseteq {id} /\ (operation = "install" \/ admitted = {})
  /\ \A i \in Ids : jobs[i] # "none" <=> i \in admitted
  /\ \A k \in 1..Len(input) : input[k].id <= id /\ (operation = "install" /\ Asks(k) => Mine(k))
  /\ \A k \in 1..Len(output) :
       /\ output[k].id <= id
       /\ output[k].error = "request_not_found" => output[k].about = "status"
       /\ output[k].error = "busy" => Settling(output[k])

(* Of the current id, while the call goes on.                              *)
InOrder ==
  /\ ~ sent => /\ id \notin admitted /\ Unasked /\ NoNews
               /\ \A k \in 1..Len(input) : ~ Mine(k)
  /\ \A k \in 1..Len(input) : Asks(k) =>
       /\ id \notin admitted /\ Unasked /\ NoNews
       /\ \A j \in 1 .. k - 1 : ~ Mine(j)
  /\ sent /\ (\A k \in 1..Len(input) : ~ Asks(k)) => Decided
  /\ id \in admitted =>
       /\ \A k \in 1..Len(output) : output[k].id = id => output[k].error \in {"none", "other"}
       /\ terminal # NoAnswer => terminal.error \in {"none", "other"}
       /\ latest # NoAnswer => latest.error \in {"none", "other"}
  /\ \A k \in 1..Len(output) : output[k].id = id /\ output[k].error = "request_not_found" =>
       terminal # NoAnswer \/ \E j \in 1 .. k - 1 : RefusalAt(j)
  /\ latest # NoAnswer /\ (latest.error = "request_not_found" \/ Settling(latest)) => terminal # NoAnswer
  /\ terminal # NoAnswer => Settling(terminal) /\ terminal.error # "request_not_found"
  /\ pc = "refused" => terminal # NoAnswer /\ terminal.error = "busy"

AInv == ~ disturbed => OneId /\ (operation = "install" /\ Active => InOrder)

UInv == TInv /\ OneId /\ (operation = "install" /\ Active => InOrder)

(* What a step leaves alone.                                               *)
LEMMA Steady ==
  ASSUME OneId, UNCHANGED <<operation, id, input, output, jobs, admitted>>
  PROVE  OneId'
BY DEF OneId, Asks, Mine, Settling

(* A line is put behind the others: of the operation when none has been    *)
(* sent under this id.                                                     *)
LEMMA SendLineKeepsId ==
  ASSUME UInv, SendLine
  PROVE  OneId' /\ (operation' = "install" /\ Active' => InOrder')
<1>1. /\ pc = "send" /\ pc' = "await"
      /\ \/ input' = input /\ sent' = sent
         \/ input' = Append(input, Line) /\ sent' = TRUE
      /\ UNCHANGED <<operation, id, latest, terminal, output, jobs, admitted>>
  BY DEF SendLine, guest
<1>2. /\ input \in Seq(Lines) /\ Len(input) \in Nat /\ sent \in BOOLEAN /\ id \in Nat
  BY ConsoleAssumption DEF UInv, TInv, PosTypes, Ids
<1>3. CASE input' = input /\ sent' = sent
  <2>1. OneId'
    BY <1>1, <1>3, Steady DEF UInv
  <2>2. InOrder => InOrder'
    BY <1>1, <1>3 DEF InOrder, Unasked, NoNews, Asks, Mine, Decided, RefusalAt, Settling
  <2> QED BY <1>1, <2>1, <2>2 DEF UInv, Active
<1>4. CASE input' = Append(input, Line) /\ sent' = TRUE
  <2>1. Line \in Lines /\ Line.id = id
        /\ (operation = "install" => Line.kind = IF sent THEN "status" ELSE "operation")
    BY DEF Line, Lines, UInv, TInv, PosTypes
  <2> DEFINE n == Len(input) + 1
  <2>2. /\ Len(input') = n /\ input'[n] = Line
        /\ \A k \in 1..Len(input) : input'[k] = input[k]
        /\ \A k \in 1..n : k \in 1..Len(input) \/ k = n
    BY <1>2, <1>4, <2>1, AppendProperties
  <2> HIDE DEF n
  <2>3. OneId'
    BY <1>1, <1>2, <2>1, <2>2 DEF UInv, OneId, Asks, Mine, Settling
  <2>4. ASSUME operation = "install" PROVE InOrder'
    <3>1. InOrder
      BY <1>1, <2>4 DEF UInv, Active
    <3>2. ~ sent =>
            /\ id \notin admitted /\ Unasked /\ NoNews
            /\ \A k \in 1..Len(input) : ~ Mine(k)
      BY <3>1 DEF InOrder
    <3>3. ASSUME NEW k \in 1..Len(input'), Asks(k)'
          PROVE  id' \notin admitted' /\ Unasked' /\ NoNews' /\ \A j \in 1 .. k - 1 : ~ Mine(j)'
      <4>1. CASE k \in 1..Len(input)
        <5>1. Asks(k) /\ \A j \in 1 .. k - 1 : j \in 1..Len(input)
          BY <3>3, <4>1, <1>2, <2>2 DEF Asks
        <5> QED BY <1>1, <1>2, <2>2, <3>1, <4>1, <5>1 DEF InOrder, Unasked, NoNews, Mine
      <4>2. CASE k = n
        <5>1. ~ sent
          BY <3>3, <4>2, <2>1, <2>2, <2>4 DEF Asks
        <5>2. \A j \in 1 .. k - 1 : j \in 1..Len(input)
          BY <4>2, <1>2 DEF n
        <5> QED BY <1>1, <2>2, <3>2, <4>2, <5>1, <5>2 DEF Unasked, NoNews, Mine
      <4> QED BY <2>2, <4>1, <4>2
    <3>4. (\A k \in 1..Len(input') : ~ Asks(k)') => Decided'
      <4> HAVE \A k \in 1..Len(input') : ~ Asks(k)'
      <4>1. n \in 1..Len(input') /\ \A k \in 1..Len(input) : k \in 1..Len(input')
        BY <1>2, <2>2 DEF n
      <4>2. sent /\ \A k \in 1..Len(input) : ~ Asks(k)
        BY <2>1, <2>2, <2>4, <4>1 DEF Asks
      <4> QED BY <1>1, <3>1, <4>2 DEF InOrder, Decided, RefusalAt, Settling
    <3> QED
      BY <1>1, <1>4, <3>1, <3>3, <3>4 DEF InOrder, Unasked, NoNews, RefusalAt, Settling
  <2> QED BY <1>1, <2>3, <2>4
<1> QED BY <1>1, <1>3, <1>4

(* The client hears the oldest answer.  A refusal of its operation is the  *)
(* first it hears about it.                                                *)
LEMMA HearKeepsId ==
  ASSUME UInv, Hear
  PROVE  OneId' /\ (operation' = "install" /\ Active' => InOrder')
<1> DEFINE r == Head(output)
<1>1. /\ output # <<>> /\ output' = Tail(output)
      /\ UNCHANGED <<operation, pc, id, sent, input, jobs, admitted>>
  BY DEF Hear, guest
<1>2. /\ output \in Seq(Answers) /\ Len(output) \in Nat /\ r \in Answers /\ r = output[1]
      /\ Len(output') = Len(output) - 1
      /\ \A k \in 1..Len(output') : output'[k] = output[k + 1] /\ k + 1 \in 1..Len(output)
      /\ 1 \in 1..Len(output)
  BY <1>1, HeadTailProperties DEF UInv, TInv, PosTypes
<1>3. r # NoAnswer
  BY <1>2, NoneAssumption
<1>4. OneId'
  BY <1>1, <1>2 DEF UInv, OneId, Asks, Mine, Settling
<1>5. ASSUME operation = "install", Active PROVE InOrder'
  <2>1. InOrder
    BY <1>5 DEF UInv
  <2>2. \/ r.id # id /\ UNCHANGED <<terminal, latest>>
        \/ /\ r.id = id /\ latest' = r
           /\ terminal' = IF terminal = NoAnswer /\ Settling(r) THEN r ELSE terminal
    BY <1>5 DEF Hear, Active
  <2>3. /\ terminal # NoAnswer => terminal' = terminal
        /\ RefusalAt(1) => terminal' # NoAnswer
    BY <1>2, <1>3, <2>2 DEF RefusalAt
  <2> HIDE DEF r
  <2>4. Unasked => r.id # id /\ Unasked'
    BY <1>1, <1>2 DEF Unasked
  <2>5. Unasked /\ NoNews => Unasked' /\ NoNews'
    BY <2>2, <2>4 DEF NoNews
  <2>6. /\ ~ sent' => /\ id' \notin admitted' /\ Unasked' /\ NoNews'
                      /\ \A k \in 1..Len(input') : ~ Mine(k)'
        /\ \A k \in 1..Len(input') : Asks(k)' =>
             /\ id' \notin admitted' /\ Unasked' /\ NoNews'
             /\ \A j \in 1 .. k - 1 : ~ Mine(j)'
    BY <1>1, <2>1, <2>5 DEF InOrder, Mine, Asks
  <2>7. \A k \in 1..Len(output) : RefusalAt(k) => k = 1 \/ (k - 1 \in 1..Len(output') /\ RefusalAt(k - 1)')
    BY <1>1, <1>2 DEF RefusalAt, Settling
  <2>8. Decided => Decided'
    BY <1>1, <1>2, <2>3, <2>7 DEF Decided
  <2>9. sent' /\ (\A k \in 1..Len(input') : ~ Asks(k)') => Decided'
    BY <1>1, <2>1, <2>8 DEF InOrder, Asks
  <2>10. id' \in admitted' =>
           /\ \A k \in 1..Len(output') : output'[k].id = id' => output'[k].error \in {"none", "other"}
           /\ terminal' # NoAnswer => terminal'.error \in {"none", "other"}
           /\ latest' # NoAnswer => latest'.error \in {"none", "other"}
    BY <1>1, <1>2, <2>1, <2>2 DEF InOrder
  <2>11. \A k \in 1..Len(output') : output'[k].id = id' /\ output'[k].error = "request_not_found" =>
           terminal' # NoAnswer \/ \E j \in 1 .. k - 1 : RefusalAt(j)'
    <3> TAKE k \in 1..Len(output')
    <3> HAVE output'[k].id = id' /\ output'[k].error = "request_not_found"
    <3>1. /\ k + 1 \in 1..Len(output) /\ output[k + 1].id = id
          /\ output[k + 1].error = "request_not_found"
      BY <1>1, <1>2
    <3>2. terminal # NoAnswer \/ \E j \in 1 .. (k + 1) - 1 : RefusalAt(j)
      BY <2>1, <3>1 DEF InOrder
    <3>3. ASSUME NEW j \in 1 .. (k + 1) - 1, RefusalAt(j)
          PROVE  terminal' # NoAnswer \/ \E l \in 1 .. k - 1 : RefusalAt(l)'
      <4>1. j \in 1..Len(output)
        BY <1>2, <3>1
      <4>2. j = 1 \/ (j - 1 \in 1 .. k - 1 /\ RefusalAt(j - 1)')
        BY <2>7, <3>3, <4>1
      <4> QED BY <2>3, <3>3, <4>2
    <3> QED BY <2>3, <3>2, <3>3
  <2>12. latest' # NoAnswer /\ (latest'.error = "request_not_found" \/ Settling(latest)') => terminal' # NoAnswer
    <3>1. CASE r.id # id /\ UNCHANGED <<terminal, latest>>
      BY <2>1, <3>1 DEF InOrder, Settling
    <3>2. CASE r.id = id /\ latest' = r
      <4>1. r.error = "request_not_found" => terminal # NoAnswer
        BY <1>2, <2>1, <3>2 DEF InOrder
      <4>2. Settling(r) => terminal' # NoAnswer
        BY <1>2, <2>3, <3>2 DEF RefusalAt
      <4> QED BY <2>3, <3>2, <4>1, <4>2 DEF Settling
    <3> QED BY <2>2, <3>1, <3>2
  <2>13. terminal' # NoAnswer => Settling(terminal)' /\ terminal'.error # "request_not_found"
    <3>1. Settling(r) => r.error # "request_not_found"
      BY <1>2 DEF UInv, OneId, Settling
    <3> QED BY <2>1, <2>2, <3>1 DEF InOrder, Settling
  <2>14. pc' = "refused" => terminal' # NoAnswer /\ terminal'.error = "busy"
    BY <1>1, <2>1, <2>3 DEF InOrder
  <2> QED BY <2>6, <2>9, <2>10, <2>11, <2>12, <2>13, <2>14 DEF InOrder
<1> QED BY <1>1, <1>4, <1>5 DEF Active

(* A missing request is never what the client decides on.                  *)
LEMMA DecideKeepsId ==
  ASSUME UInv, Decide
  PROVE  OneId' /\ (operation' = "install" /\ Active' => InOrder')
<1>1. pc = "await" /\ UNCHANGED <<operation, id, terminal, input, output, jobs, admitted>>
  BY DEF Decide, guest
<1>2. OneId'
  BY <1>1, Steady DEF UInv
<1>3. ASSUME operation = "install" PROVE InOrder'
  <2>1. InOrder
    BY <1>1, <1>3 DEF UInv, Active
  <2>2. ~ Unknown(Result)
    BY <2>1 DEF InOrder, Unknown, Result
  <2>3. Refused(Result) => terminal # NoAnswer /\ terminal.error = "busy"
    BY <2>1 DEF InOrder, Refused, Result
  <2>4. UNCHANGED <<sent, latest>> /\ (pc' = "refused" => Refused(Result))
    BY <2>2 DEF Decide
  <2> QED
    BY <1>1, <2>1, <2>3, <2>4 DEF InOrder, Unasked, NoNews, Asks, Mine, Decided, RefusalAt, Settling
<1> QED BY <1>1, <1>2, <1>3

(* A new id is drawn when the old one was refused, which leaves no line    *)
(* behind that could have it admitted.                                     *)
LEMMA RetryKeepsId ==
  ASSUME UInv, Retry
  PROVE  OneId' /\ (operation' = "install" /\ Active' => InOrder')
<1>1. /\ pc = "refused" /\ id' = id + 1 /\ latest' = NoAnswer /\ terminal' = NoAnswer /\ sent' = FALSE
      /\ pc' = "send" /\ UNCHANGED <<operation, input, output, jobs, admitted>>
  BY DEF Retry, guest
<1>2. /\ id \in Nat
      /\ \A k \in 1..Len(input) : input[k].id \in Nat
      /\ \A k \in 1..Len(output) : output[k].id \in Nat
  <2>1. id \in Ids /\ input \in Seq(Lines) /\ output \in Seq(Answers)
    BY DEF UInv, TInv, PosTypes
  <2>2. \A k \in 1..Len(input) : input[k] \in Lines
    BY <2>1
  <2>3. \A k \in 1..Len(output) : output[k] \in Answers
    BY <2>1
  <2> QED BY <2>1, <2>2, <2>3, ConsoleAssumption DEF Lines, Answers, Ids
<1>3. /\ \A k \in 1..Len(input) : input[k].id <= id /\ input[k].id # id + 1
      /\ \A k \in 1..Len(output) : output[k].id <= id /\ output[k].id # id + 1
  BY <1>2 DEF UInv, OneId
<1>4. /\ admitted = {}
      /\ operation = "install" => \A k \in 1..Len(input) : ~ Asks(k)
  <2>1. CASE operation = "install"
    <3>1. InOrder
      BY <1>1, <2>1 DEF UInv, Active
    <3>2. terminal # NoAnswer /\ terminal.error = "busy"
      BY <1>1, <3>1 DEF InOrder
    <3>3. id \notin admitted
      BY <3>1, <3>2 DEF InOrder
    <3>4. \A k \in 1..Len(input) : ~ Asks(k)
      BY <3>1, <3>2 DEF InOrder, NoNews
    <3> QED BY <3>3, <3>4 DEF UInv, OneId
  <2>2. CASE operation # "install"
    BY <2>2 DEF UInv, OneId
  <2> QED BY <2>1, <2>2
<1>5. OneId'
  <2>1. \A i \in Ids : jobs[i] # "none" <=> i \in admitted
    BY DEF UInv, OneId
  <2>2. \A k \in 1..Len(output) :
          /\ output[k].error = "request_not_found" => output[k].about = "status"
          /\ output[k].error = "busy" => Settling(output[k])
    BY DEF UInv, OneId
  <2> QED BY <1>1, <1>2, <1>3, <1>4, <2>1, <2>2 DEF OneId, Asks, Mine, Settling
<1>6. operation = "install" => InOrder'
  <2> HAVE operation = "install"
  <2>1. Unasked' /\ NoNews' /\ \A k \in 1..Len(input') : ~ Mine(k)' /\ ~ Asks(k)'
    BY <1>1, <1>3, <1>4 DEF Unasked, NoNews, Mine, Asks
  <2> QED BY <1>1, <1>4, <2>1 DEF InOrder, Unasked, NoNews
<1> QED BY <1>1, <1>5, <1>6
(* The guest reads a line: of the operation before any of its state.       *)
LEMMA ReadLineKeepsId ==
  ASSUME UInv, ReadLine
  PROVE  OneId' /\ (operation' = "install" /\ Active' => InOrder')
<1>1. /\ input # <<>> /\ input' = Tail(input)
      /\ UNCHANGED <<operation, pc, id, sent, latest, terminal>>
  BY DEF ReadLine, clientVars
<1> DEFINE asks == operation = "install" /\ Asks(1)
           n == Len(output) + 1
<1>2. /\ Len(input) \in Nat /\ 1 \in 1..Len(input) /\ Head(input) = input[1]
      /\ Len(input') = Len(input) - 1
      /\ \A k \in 1..Len(input') : input'[k] = input[k + 1] /\ k + 1 \in 1..Len(input)
      /\ input[1].kind \in {"operation", "status"}
  <2>1. input \in Seq(Lines)
    BY DEF UInv, TInv, PosTypes
  <2>2. input[1] \in Lines
    BY <1>1, <2>1
  <2> QED BY <1>1, <2>1, <2>2, HeadTailProperties DEF Lines
<1>3. PICK r \in Answers :
        /\ Reply(r) /\ r.id = input[1].id
        /\ jobs[r.id] = "none" /\ asks
             => \/ r.error = "busy" /\ Settling(r) /\ UNCHANGED guest
                \/ /\ r.error = "none" /\ ~ Settling(r)
                   /\ jobs' = [jobs EXCEPT ![r.id] = "queued"]
                   /\ admitted' = admitted \cup {r.id}
        /\ jobs[r.id] # "none" \/ ~ asks => UNCHANGED guest
        /\ operation = "install" /\ ~ asks =>
             IF jobs[r.id] = "none" THEN r.error = "request_not_found" /\ r.about = "status"
             ELSE r.error \in {"none", "other"}
        /\ r.error = "request_not_found" => r.about = "status"
        /\ r.error = "busy" => Settling(r)
  BY <1>2, ReplyIsTruthful DEF UInv, Asks
<1>4. /\ Len(output) \in Nat /\ Len(output') = n /\ output'[n] = r
      /\ \A k \in 1..Len(output) : output'[k] = output[k] /\ k \in 1..n /\ k # n
      /\ \A k \in 1..n : k \in 1..Len(output) \/ k = n
      /\ n \in 1..n
  BY <1>3, AppendProperties DEF Reply, UInv, TInv, PosTypes
<1>5. r.id \in Ids /\ r.id <= id /\ (asks => r.id = id)
  BY <1>2, <1>3 DEF Answers, UInv, OneId, Mine
<1> HIDE DEF n
<1>6. \/ UNCHANGED <<jobs, admitted>>
      \/ /\ asks /\ jobs' = [jobs EXCEPT ![id] = "queued"] /\ admitted' = admitted \cup {id}
         /\ r.error = "none"
  BY <1>3, <1>5 DEF guest
<1>7. OneId'
  <2>1. \A k \in 1..Len(input') :
          input'[k].id <= id' /\ (operation' = "install" /\ Asks(k)' => Mine(k)')
    BY <1>1, <1>2 DEF UInv, OneId, Asks, Mine
  <2>2. \A k \in 1..Len(output') :
          /\ output'[k].id <= id'
          /\ output'[k].error = "request_not_found" => output'[k].about = "status"
          /\ output'[k].error = "busy" => Settling(output'[k])
    BY <1>1, <1>3, <1>4, <1>5 DEF UInv, OneId
  <2>3. /\ admitted' \subseteq {id'} /\ (operation' = "install" \/ admitted' = {})
        /\ \A i \in Ids : jobs'[i] # "none" <=> i \in admitted'
    <3>1. CASE UNCHANGED <<jobs, admitted>>
      BY <1>1, <3>1 DEF UInv, OneId
    <3>2. CASE asks /\ jobs' = [jobs EXCEPT ![id] = "queued"] /\ admitted' = admitted \cup {id}
      <4>1. jobs \in [Ids -> JobStates] /\ id \in Ids
        BY DEF UInv, TInv, PosTypes
      <4> QED BY <1>1, <3>2, <4>1 DEF UInv, OneId
    <3> QED BY <1>6, <3>1, <3>2
  <2> QED BY <2>1, <2>2, <2>3 DEF OneId, Settling
<1>8. ASSUME operation = "install", Active PROVE InOrder'
  <2>1. InOrder
    BY <1>8 DEF UInv
  <2>2. \A k \in 1..Len(output) : RefusalAt(k) => RefusalAt(k)'
    BY <1>1, <1>4 DEF RefusalAt, Settling
  <2>3. jobs[id] = "none" <=> id \notin admitted
    BY DEF UInv, TInv, PosTypes, OneId
  <2>4. CASE asks
    <3>1. /\ id \notin admitted /\ Unasked /\ NoNews /\ sent /\ Mine(1)
          /\ \A k \in 1..Len(input') : ~ Asks(k)'
      <4>1. Mine(1) /\ id \notin admitted /\ Unasked /\ NoNews
        BY <1>2, <2>1, <2>4 DEF UInv, OneId, InOrder
      <4>2. ASSUME NEW k \in 1..Len(input'), Asks(k)' PROVE FALSE
        <5>1. k + 1 \in 1..Len(input) /\ Asks(k + 1) /\ 1 \in 1 .. (k + 1) - 1
          BY <1>2, <4>2 DEF Asks
        <5> QED BY <2>1, <4>1, <5>1 DEF InOrder
      <4>3. sent
        BY <1>2, <2>1, <4>1 DEF InOrder, UInv, TInv, PosTypes
      <4> QED BY <4>1, <4>2, <4>3
    <3>2. /\ pc' # "refused" /\ NoNews' /\ sent' /\ r.id = id /\ id' = id
          /\ r.error # "request_not_found"
      BY <1>1, <1>3, <1>5, <2>1, <2>3, <2>4, <3>1 DEF InOrder, NoNews
    <3>3. \A k \in 1..Len(output') : output'[k].id = id => k = n
      BY <1>4, <3>1 DEF Unasked
    <3>4. \/ id \in admitted' /\ r.error = "none"
          \/ (\E k \in 1..Len(output') : RefusalAt(k)') /\ id \notin admitted'
      <4>1. CASE r.error = "busy" /\ Settling(r) /\ UNCHANGED guest
        <5>1. output'[n].id = id' /\ Settling(output'[n]) /\ n \in 1..Len(output')
          BY <1>4, <3>2, <4>1
        <5> QED BY <3>1, <4>1, <5>1 DEF RefusalAt, Settling, guest
      <4>2. CASE r.error = "none" /\ admitted' = admitted \cup {r.id}
        BY <3>2, <4>2
      <4> QED BY <1>3, <2>3, <2>4, <3>1, <3>2, <4>1, <4>2
    <3>5. \A k \in 1..Len(output') : output'[k].id = id' =>
            /\ output'[k].error # "request_not_found"
            /\ id' \in admitted' => output'[k].error \in {"none", "other"}
      <4>1. id \in admitted' => r.error = "none"
        BY <1>3, <2>3, <2>4, <3>1, <3>2 DEF guest
      <4> QED BY <1>4, <3>2, <3>3, <4>1
    <3>6. Decided'
      BY <3>2, <3>4 DEF Decided
    <3> QED BY <3>1, <3>2, <3>5, <3>6 DEF InOrder, NoNews, Asks
  <2>5. CASE ~ asks
    <3>1. UNCHANGED <<jobs, admitted>>
      BY <1>6, <2>5
    <3>2. Decided => Decided'
      BY <1>1, <1>4, <2>2, <3>1 DEF Decided
    <3>3. (\A k \in 1..Len(input') : ~ Asks(k)') => \A k \in 1..Len(input) : ~ Asks(k)
      <4> HAVE \A k \in 1..Len(input') : ~ Asks(k)'
      <4> TAKE k \in 1..Len(input)
      <4>1. CASE k = 1
        BY <1>8, <2>5, <4>1
      <4>2. CASE k # 1
        <5>1. k - 1 \in 1..Len(input') /\ input'[k - 1] = input[(k - 1) + 1]
          BY <1>2, <4>2
        <5> QED BY <5>1 DEF Asks
      <4> QED BY <4>1, <4>2
    <3>4. r.id = id => \A k \in 1..Len(input') : ~ Asks(k)'
      <4> SUFFICES ASSUME r.id = id, NEW k \in 1..Len(input'), Asks(k)' PROVE FALSE
        OBVIOUS
      <4>1. k + 1 \in 1..Len(input) /\ Asks(k + 1) /\ 1 \in 1 .. (k + 1) - 1
        BY <1>2 DEF Asks
      <4> QED BY <1>3, <2>1, <4>1 DEF InOrder, Mine
    <3>5. r.id = id => sent
      BY <1>2, <1>3, <2>1 DEF InOrder, Mine, UInv, TInv, PosTypes
    <3>6. ~ sent' => /\ id' \notin admitted' /\ Unasked' /\ NoNews'
                     /\ \A k \in 1..Len(input') : ~ Mine(k)'
      BY <1>1, <1>2, <1>4, <2>1, <3>1, <3>5 DEF InOrder, Unasked, NoNews, Mine
    <3>7. ASSUME NEW k \in 1..Len(input'), Asks(k)'
          PROVE  id' \notin admitted' /\ Unasked' /\ NoNews' /\ \A j \in 1 .. k - 1 : ~ Mine(j)'
      <4>1. k + 1 \in 1..Len(input) /\ Asks(k + 1)
        BY <1>2, <3>7 DEF Asks
      <4>2. id \notin admitted /\ Unasked /\ NoNews /\ \A j \in 1 .. (k + 1) - 1 : ~ Mine(j)
        BY <2>1, <4>1 DEF InOrder
      <4>3. r.id # id
        BY <3>4, <3>7
      <4>4. Unasked' /\ NoNews'
        BY <1>1, <1>4, <4>2, <4>3 DEF Unasked, NoNews
      <4>5. \A j \in 1 .. k - 1 : ~ Mine(j)'
        <5> TAKE j \in 1 .. k - 1
        <5>1. j \in 1..Len(input') /\ j + 1 \in 1 .. (k + 1) - 1
          BY <1>2
        <5> QED BY <1>1, <1>2, <4>2, <5>1 DEF Mine
      <4> QED BY <1>1, <3>1, <4>2, <4>4, <4>5
    <3>8. sent' /\ (\A k \in 1..Len(input') : ~ Asks(k)') => Decided'
      BY <1>1, <2>1, <3>2, <3>3 DEF InOrder
    <3>9. id' \in admitted' =>
            /\ \A k \in 1..Len(output') : output'[k].id = id' => output'[k].error \in {"none", "other"}
            /\ terminal' # NoAnswer => terminal'.error \in {"none", "other"}
            /\ latest' # NoAnswer => latest'.error \in {"none", "other"}
      BY <1>1, <1>3, <1>4, <1>8, <2>1, <2>3, <2>5, <3>1 DEF InOrder
    <3>10. ASSUME NEW k \in 1..Len(output'), output'[k].id = id', output'[k].error = "request_not_found"
           PROVE  terminal' # NoAnswer \/ \E j \in 1 .. k - 1 : RefusalAt(j)'
      <4>1. CASE k \in 1..Len(output)
        <5>1. terminal # NoAnswer \/ \E j \in 1 .. k - 1 : RefusalAt(j)
          BY <1>1, <1>4, <2>1, <3>10, <4>1 DEF InOrder
        <5>2. \A j \in 1 .. k - 1 : j \in 1..Len(output)
          BY <1>4, <4>1
        <5> QED BY <1>1, <2>2, <5>1, <5>2
      <4>2. CASE k = n
        <5>1. r.id = id /\ r.error = "request_not_found"
          BY <1>1, <1>4, <3>10, <4>2
        <5>2. id \notin admitted
          BY <1>3, <1>8, <2>3, <2>5, <5>1
        <5>3. Decided
          BY <2>1, <3>3, <3>4, <3>5, <5>1 DEF InOrder
        <5>4. \A j \in 1..Len(output) : j \in 1 .. k - 1
          BY <1>4, <4>2 DEF n
        <5> QED BY <1>1, <2>2, <5>2, <5>3, <5>4 DEF Decided
      <4> QED BY <1>4, <4>1, <4>2
    <3>11. /\ latest' # NoAnswer /\ (latest'.error = "request_not_found" \/ Settling(latest)') => terminal' # NoAnswer
           /\ terminal' # NoAnswer => Settling(terminal)' /\ terminal'.error # "request_not_found"
           /\ pc' = "refused" => terminal' # NoAnswer /\ terminal'.error = "busy"
      BY <1>1, <2>1 DEF InOrder, Settling
    <3> QED BY <3>6, <3>7, <3>8, <3>9, <3>10, <3>11 DEF InOrder
  <2> QED BY <2>4, <2>5
<1> QED BY <1>1, <1>7, <1>8 DEF Active
(* A job that ends stays a job, so its id stays the only one.              *)
LEMMA FinishKeepsId ==
  ASSUME UInv, NEW i \in Ids, Finish(i)
  PROVE  OneId' /\ (operation' = "install" /\ Active' => InOrder')
<1>1. /\ jobs[i] = "queued"
      /\ jobs' = [jobs EXCEPT ![i] = "completed"] \/ jobs' = [jobs EXCEPT ![i] = "failed"]
      /\ UNCHANGED <<operation, pc, id, sent, latest, terminal, input, output, admitted>>
  BY DEF Finish, clientVars
<1>2. \A j \in Ids : jobs'[j] # "none" <=> jobs[j] # "none"
  BY <1>1 DEF UInv, TInv, PosTypes
<1>3. OneId'
  BY <1>1, <1>2 DEF UInv, OneId, Asks, Mine, Settling
<1>4. InOrder => InOrder'
  BY <1>1 DEF InOrder, Unasked, NoNews, Asks, Mine, Decided, RefusalAt, Settling
<1> QED BY <1>1, <1>3, <1>4 DEF UInv, Active

LEMMA UInit == PosInit => TInv /\ AInv
<1> SUFFICES ASSUME PosInit PROVE AInv
  BY TInit
<1>1. Len(input) = 0 /\ Len(output) = 0 /\ id \notin admitted
  BY DEF PosInit
<1>2. OneId
  BY <1>1 DEF PosInit, OneId
<1>3. InOrder
  BY <1>1 DEF PosInit, InOrder, Unasked, NoNews
<1> QED BY <1>2, <1>3 DEF AInv

LEMMA UStep == TInv /\ AInv /\ [PosNext]_posVars => TInv' /\ AInv'
<1> SUFFICES ASSUME TInv, AInv, [PosNext]_posVars, ~ disturbed'
             PROVE  OneId' /\ (operation' = "install" /\ Active' => InOrder')
  BY TStep DEF AInv
<1>1. ~ disturbed
  BY DEF PosNext, SendLine, Hear, Decide, Retry, Abandon, ReadLine, Finish, LoseLine, LoseAnswer,
         Restart, posVars
<1>2. UInv
  BY <1>1 DEF AInv, UInv
<1>3. CASE SendLine BY <1>2, <1>3, SendLineKeepsId
<1>4. CASE Hear BY <1>2, <1>4, HearKeepsId
<1>5. CASE Decide BY <1>2, <1>5, DecideKeepsId
<1>6. CASE Retry BY <1>2, <1>6, RetryKeepsId
<1>7. CASE Abandon
  <2>1. pc' = "failed" /\ UNCHANGED <<operation, id, input, output, jobs, admitted>>
    BY <1>7 DEF Abandon, guest
  <2> QED BY <1>2, <2>1, Steady DEF UInv, Active
<1>8. CASE ReadLine BY <1>2, <1>8, ReadLineKeepsId
<1>9. ASSUME NEW i \in Ids, Finish(i)
      PROVE  OneId' /\ (operation' = "install" /\ Active' => InOrder')
  BY <1>2, <1>9, FinishKeepsId
<1>10. ~ LoseLine /\ ~ LoseAnswer /\ ~ Restart
  BY DEF LoseLine, LoseAnswer, Restart
<1>11. CASE UNCHANGED posVars
  <2>1. UNCHANGED <<operation, pc, id, sent, latest, terminal, input, output, jobs, admitted>>
    BY <1>11 DEF posVars, clientVars, guest
  <2>2. OneId'
    BY <1>2, <2>1, Steady DEF UInv
  <2>3. InOrder => InOrder'
    BY <2>1 DEF InOrder, Unasked, NoNews, Asks, Mine, Decided, RefusalAt, Settling
  <2> QED BY <1>2, <2>1, <2>2, <2>3 DEF UInv, Active
<1> QED BY <1>3, <1>4, <1>5, <1>6, <1>7, <1>8, <1>9, <1>10, <1>11 DEF PosNext

(* Where no line and no answer is lost and the guest does not restart, the *)
(* guest admits the operation of one call under one id at most, however    *)
(* late the answers and however often the call asks again.                 *)
THEOREM AdmittedUnderOneId == PosSpec => []AdmittedOnceUnlessLost
<1>1. TInv /\ AInv => AdmittedOnceUnlessLost
  <2> SUFFICES ASSUME ~ disturbed, OneId PROVE Cardinality(admitted) <= 1
    BY DEF AInv, AdmittedOnceUnlessLost, AdmittedOnce
  <2>1. IsFiniteSet({id}) /\ Cardinality({id}) = 1
    BY FS_Singleton
  <2>2. admitted \subseteq {id}
    BY DEF OneId
  <2> QED BY <2>1, <2>2, FS_Subset
<1> QED BY <1>1, UInit, UStep, PTL DEF PosSpec
=============================================================================
