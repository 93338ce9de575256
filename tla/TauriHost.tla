----------------------------- MODULE TauriHost -----------------------------
(***************************************************************************)
(* The desktop host (src-tauri/src/lib.rs, ipc.rs): one QEMU child behind  *)
(* a mutex, its chardev socket, and for every QEMU started an IO thread    *)
(* that connects to the socket, binds the one frame sender and runs a read *)
(* and a write task until both end.  A thread is never joined: those of    *)
(* earlier runs overlap the later ones.                                    *)
(*                                                                         *)
(* QEMU is external: it listens on the socket some time after it was       *)
(* spawned, serves one connection at a time, drops it when the client      *)
(* shuts down its half, and may exit by itself.                            *)
(***************************************************************************)
EXTENDS Naturals, Sequences, FiniteSets

CONSTANTS MaxRuns,    \* QEMUs started
          MaxFrames,  \* frames accepted
          None

ASSUME HostAssumption == MaxRuns \in Nat /\ MaxFrames \in Nat /\ None \notin Nat

Runs == 1..MaxRuns

VARIABLES process,   \* the run in SimState.process
          rebooting, \* a full reboot holds the process mutex
          spawned,   \* QEMUs started so far
          alive,     \* runs whose QEMU is alive
          path,      \* run whose QEMU listens at the socket path
          stage,     \* where each run's IO thread stands
          link,      \* the QEMU each thread connected to
          open,      \* threads whose connection QEMU has not closed
          served,    \* the connection each QEMU serves
          reading,   \* threads whose read_task runs
          writing,   \* threads whose write_task runs
          bound,     \* the thread whose sender IpcWriter holds
          outbox,    \* frames in each thread's channel, by the run they were meant for
          accepted   \* frames accepted so far

host == <<process, rebooting, spawned>>
qemu == <<alive, path, open, served>>
tasks == <<stage, link, reading, writing>>
frames == <<outbox, accepted>>
vars == <<host, qemu, tasks, bound, frames>>

Init ==
  /\ process = None
  /\ rebooting = FALSE
  /\ spawned = 0
  /\ alive = {}
  /\ path = None
  /\ stage = [t \in Runs |-> "none"]
  /\ link = [t \in Runs |-> None]
  /\ open = {}
  /\ served = [q \in Runs |-> None]
  /\ reading = {}
  /\ writing = {}
  /\ bound = None
  /\ outbox = [t \in Runs |-> <<>>]
  /\ accepted = 0

----------------------------------------------------------------------------
(* Seeded faults: a start ignores the running child, one channel serves    *)
(* every run, a reader waits on a closed socket.                           *)
Disconnected(t) == t \notin open \/ link[t] \notin alive
MayStartAlways == TRUE
NewChannelNever(t) == [outbox EXCEPT ![t] = IF bound = None THEN <<>> ELSE outbox[bound]]
ReaderSeesEndNever(t) == FALSE

----------------------------------------------------------------------------
(* The commands.  Each holds the process mutex; a full reboot keeps it     *)
(* through its sleep.                                                      *)

MayStart == process = None

(* cmd.spawn and spawn_io.  The socket file of an earlier run is gone.     *)
Spawn ==
  /\ MayStart
  /\ spawned < MaxRuns
  /\ LET r == spawned + 1 IN
     /\ spawned' = r
     /\ process' = r
     /\ alive' = alive \cup {r}
     /\ stage' = [stage EXCEPT ![r] = "connecting"]
  /\ path' = None
  /\ UNCHANGED <<open, served, link, reading, writing, bound, frames>>

(* A start that finds a child, or fails before it has spawned one.  A late  *)
(* failure has removed the socket file.                                    *)
NoSpawn ==
  /\ path' \in IF process = None THEN {path, None} ELSE {path}
  /\ UNCHANGED <<process, spawned, alive, open, served, tasks, bound, frames>>

StartLocked == Spawn \/ NoSpawn

(* stop_owned_sim_process: kill, remove the socket file, drop the sender.  *)
StopLocked ==
  /\ alive' = alive \ {process}
  /\ process' = None
  /\ path' = None
  /\ bound' = None
  /\ UNCHANGED <<spawned, open, served, tasks, frames>>

StartSim == ~ rebooting /\ StartLocked /\ UNCHANGED rebooting
StopSim == ~ rebooting /\ StopLocked /\ UNCHANGED rebooting
FullReboot == ~ rebooting /\ StopLocked /\ rebooting' = TRUE
FullRebootStarts == rebooting /\ StartLocked /\ rebooting' = FALSE

(* IpcWriter.try_send, from an injection command or release_buttons: the   *)
(* frame is accepted while the bound thread's write task holds the channel.*)
Accepts == bound # None /\ bound \in writing

TrySend ==
  /\ Accepts
  /\ accepted < MaxFrames
  /\ accepted' = accepted + 1
  /\ outbox' = [outbox EXCEPT ![bound] = Append(@, process)]
  /\ UNCHANGED <<host, qemu, tasks, bound>>

----------------------------------------------------------------------------
(* The IO thread of run t.                                                 *)

(* connect_with_retry knows the path only: it reaches whichever QEMU       *)
(* listens there now.                                                      *)
Connect(t) ==
  /\ stage[t] = "connecting"
  /\ path # None /\ path \in alive
  /\ link' = [link EXCEPT ![t] = path]
  /\ open' = open \cup {t}
  /\ stage' = [stage EXCEPT ![t] = "connected"]
  /\ UNCHANGED <<host, alive, path, served, reading, writing, bound, frames>>

(* Forty refused attempts.                                                 *)
GiveUp(t) ==
  /\ stage[t] = "connecting"
  /\ stage' = [stage EXCEPT ![t] = "ended"]
  /\ UNCHANGED <<host, qemu, link, reading, writing, bound, frames>>

NewChannel(t) == [outbox EXCEPT ![t] = <<>>]

Bind(t) ==
  /\ stage[t] = "connected"
  /\ outbox' = NewChannel(t)
  /\ bound' = t
  /\ reading' = reading \cup {t}
  /\ writing' = writing \cup {t}
  /\ stage' = [stage EXCEPT ![t] = "bound"]
  /\ UNCHANGED <<host, qemu, link, accepted>>

(* The write task hands the next frame to the QEMU that serves it.         *)
Delivers(t) == t \in writing /\ outbox[t] # <<>> /\ link[t] \in alive /\ served[link[t]] = t

WriteFrame(t) ==
  /\ Delivers(t)
  /\ outbox' = [outbox EXCEPT ![t] = Tail(@)]
  /\ UNCHANGED <<host, qemu, tasks, bound, accepted>>

(* It ends when a write fails, or when the channel is empty and its sender *)
(* was dropped; what is left in the channel is lost.                       *)
WriteEnds(t) ==
  /\ t \in writing
  /\ \/ outbox[t] # <<>> /\ Disconnected(t)
     \/ outbox[t] = <<>> /\ bound # t
  /\ writing' = writing \ {t}
  /\ outbox' = [outbox EXCEPT ![t] = <<>>]
  /\ UNCHANGED <<host, qemu, stage, link, reading, bound, accepted>>

ReaderSeesEnd(t) == Disconnected(t)

ReadEnds(t) ==
  /\ t \in reading
  /\ ReaderSeesEnd(t)
  /\ reading' = reading \ {t}
  /\ UNCHANGED <<host, qemu, stage, link, writing, bound, frames>>

(* Both tasks joined: the thread drops the sender, whoever bound it.       *)
Unbind(t) ==
  /\ stage[t] = "bound"
  /\ t \notin reading \cup writing
  /\ bound' = None
  /\ stage' = [stage EXCEPT ![t] = "ended"]
  /\ UNCHANGED <<host, qemu, link, reading, writing, frames>>

----------------------------------------------------------------------------
(* QEMU q.                                                                 *)

Listen(q) ==
  /\ q \in alive
  /\ path # q
  /\ path' = q
  /\ UNCHANGED <<host, alive, open, served, tasks, bound, frames>>

Accept(q) ==
  /\ q \in alive
  /\ served[q] = None
  /\ \E t \in open : link[t] = q /\ served' = [served EXCEPT ![q] = t]
  /\ UNCHANGED <<host, alive, path, open, tasks, bound, frames>>

(* The client shut its half down.                                          *)
HangUp(q) ==
  /\ q \in alive
  /\ served[q] # None
  /\ stage[served[q]] \in {"bound", "ended"} /\ served[q] \notin writing
  /\ open' = open \ {served[q]}
  /\ served' = [served EXCEPT ![q] = None]
  /\ UNCHANGED <<host, alive, path, tasks, bound, frames>>

Exit(q) ==
  /\ q \in alive
  /\ alive' = alive \ {q}
  /\ UNCHANGED <<host, path, open, served, tasks, bound, frames>>

----------------------------------------------------------------------------
Command == \/ StartSim
           \/ StopSim
           \/ FullReboot
           \/ FullRebootStarts
           \/ TrySend

IoThread(t) == \/ Connect(t)
               \/ GiveUp(t)
               \/ Bind(t)
               \/ WriteFrame(t)
               \/ WriteEnds(t)
               \/ ReadEnds(t)
               \/ Unbind(t)

Qemu(q) == Listen(q) \/ Accept(q) \/ HangUp(q) \/ Exit(q)

Next == \/ Command
        \/ \E r \in Runs : IoThread(r) \/ Qemu(r)

Spec == Init /\ [][Next]_vars

(* Every IO thread is scheduled, its attempts to connect run out, and a    *)
(* QEMU that is alive serves its socket.                                   *)
Fairness == \A r \in Runs : /\ WF_vars(IoThread(r))
                            /\ WF_vars(Accept(r))
                            /\ WF_vars(HangUp(r))

FairSpec == Spec /\ Fairness

----------------------------------------------------------------------------
(* Every variable has its type.                                            *)
TypeOK ==
  /\ process \in Runs \cup {None}
  /\ rebooting \in BOOLEAN
  /\ spawned \in 0..MaxRuns
  /\ alive \subseteq Runs
  /\ path \in Runs \cup {None}
  /\ stage \in [Runs -> {"none", "connecting", "connected", "bound", "ended"}]
  /\ link \in [Runs -> Runs \cup {None}]
  /\ open \subseteq Runs
  /\ served \in [Runs -> Runs \cup {None}]
  /\ reading \subseteq Runs
  /\ writing \subseteq Runs
  /\ bound \in Runs \cup {None}
  /\ outbox \in [Runs -> Seq(Runs \cup {None})]
  /\ accepted \in 0..MaxFrames

(* No QEMU is left alive that the host does not hold, through starts,      *)
(* stops and reboots in any order: it could not be stopped any more and    *)
(* would write the same SD directory as the next one.                      *)
OneQemu == alive \subseteq {process}

(* The inductive invariant behind OneQemu and FrameReachesItsRun.  A dead  *)
(* run never comes back to life, so a thread's frames stay meant for the   *)
(* QEMU it is linked to as long as that one lives.                         *)
Started == /\ alive \subseteq 1..spawned
           /\ process # None => process <= spawned
           /\ \A t \in Runs : link[t] # None => link[t] <= spawned
           /\ \A t \in Runs : t > spawned => stage[t] = "none"

TasksBound == \A t \in Runs : /\ t \in writing => stage[t] = "bound"
                              /\ outbox[t] # <<>> => t \in writing

Tagged == \A t \in Runs : link[t] \in alive => \A i \in DOMAIN outbox[t] : outbox[t][i] = link[t]

HostInv == TypeOK /\ OneQemu /\ Started /\ TasksBound /\ Tagged

(* A touch or button frame accepted during one run is never delivered to   *)
(* another, whichever threads, channels and sockets outlive their run.     *)
FrameReachesItsRun ==
  [][\A t \in Runs : WriteFrame(t) => Head(outbox[t]) = link[t]]_vars

(* A thread whose QEMU is gone, or has dropped its connection, ends or, if *)
(* it holds the sender, waits for a frame to fail on.                      *)
Gone(t) == stage[t] \in {"connected", "bound"} /\ Disconnected(t)
GoneThreadsEnd == \A t \in Runs : Gone(t) ~> stage[t] = "ended" \/ bound = t
============================================================================
