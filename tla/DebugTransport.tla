--------------------------- MODULE DebugTransport ---------------------------
(***************************************************************************)
(* The debug transport (src-tauri/src/debug_transport.rs): a TCP server    *)
(* that serves one client at a time.  Each line of the client is one       *)
(* request; a runtime request goes to the firmware over the IPC channel,   *)
(* and the server forwards the firmware's records until one answers the    *)
(* request or three seconds are over.  The records arrive on a bounded     *)
(* broadcast channel that drops its oldest payloads.                       *)
(*                                                                         *)
(* Clients number their requests from 1, and the firmware answers requests *)
(* in order or not at all.  Neither is in the repository: both are         *)
(* external.                                                               *)
(***************************************************************************)
EXTENDS Naturals, Sequences, FiniteSets

CONSTANTS MaxClients,   \* connections
          MaxSeq,       \* requests of a client
          MaxPayloads,  \* payloads the firmware publishes
          Capacity,     \* DEBUG_BROKER_CAPACITY
          NoRequest

ASSUME TransportAssumption == Capacity \in Nat \ {0}

Types == {"parse", "host", "runtime", "disconnect"}

VARIABLES phase,     \* "accept", "select", "send", "wait" or "closed"
          client,    \* connections accepted so far; the last one is served
          inbox,     \* lines of the client not read yet
          lines,     \* lines the client has sent
          hungUp,    \* the client closed its side
          request,   \* the runtime request in progress
          shutdown,  \* the watch value
          log,       \* payloads published: each the requests it answers
          next,      \* the receiver's position in log
          firmware,  \* requests the firmware has not answered, oldest first
          answered,  \* history: requests of the client it has an answer to
          read,      \* history: requests of the client taken up
          got,       \* history: payloads forwarded to the client
          lost,      \* history: payloads the receiver lagged behind
          joined     \* history: first payload published after the subscription

connection == <<client, inbox, lines, hungUp>>
history == <<answered, read, got, lost, joined>>
debugVars == <<phase, connection, request, shutdown, log, next, firmware, history>>

DebugInit ==
  /\ phase = "accept"
  /\ client = 0
  /\ inbox = <<>>
  /\ lines = 0
  /\ hungUp = FALSE
  /\ request = NoRequest
  /\ shutdown = FALSE
  /\ log = <<>>
  /\ next = 1
  /\ firmware = <<>>
  /\ answered = {} /\ read = {} /\ got = {} /\ lost = {}
  /\ joined = 1

----------------------------------------------------------------------------
(* Seeded faults: any response ends the wait, every wait subscribes anew,  *)
(* the wait has no time out.                                               *)
MatchesAny(payload) == payload # <<>>
PositionAfterSendAnew == Len(log) + 1
TimesOutNever == FALSE

----------------------------------------------------------------------------
(* The connection.                                                         *)

(* run_server accepts the next client when the last one is done.           *)
AcceptClient ==
  /\ phase = "accept"
  /\ client < MaxClients
  /\ phase' = "select"
  /\ client' = client + 1
  /\ inbox' = <<>> /\ lines' = 0 /\ hungUp' = FALSE
  /\ next' = Len(log) + 1
  /\ joined' = Len(log) + 1
  /\ answered' = {} /\ read' = {} /\ got' = {} /\ lost' = {}
  /\ UNCHANGED <<request, shutdown, log, firmware>>

Serving == phase \in {"select", "send", "wait"}

ClientSends(type) ==
  /\ Serving /\ ~ hungUp
  /\ lines < MaxSeq
  /\ lines' = lines + 1
  /\ inbox' = Append(inbox, [seq |-> lines', type |-> type])
  /\ UNCHANGED <<phase, client, hungUp, request, shutdown, log, next, firmware, history>>

ClientHangsUp ==
  /\ Serving /\ ~ hungUp
  /\ hungUp' = TRUE
  /\ UNCHANGED <<phase, client, inbox, lines, request, shutdown, log, next, firmware, history>>

(* A write to a client that is gone may fail and ends the connection.      *)
Writes(after) ==
  \/ phase' = after /\ request' = IF after \in {"select", "accept"} THEN NoRequest ELSE request
  \/ hungUp /\ phase' = "accept" /\ request' = NoRequest

(* The connection is over after a disconnect request.                      *)
AfterRequest == IF request.type = "disconnect" THEN "accept" ELSE "select"

----------------------------------------------------------------------------
(* The client loop.                                                        *)

ClientLoopEnds ==
  /\ phase = "select" /\ hungUp /\ inbox = <<>>
  /\ phase' = "accept"
  /\ UNCHANGED <<connection, request, shutdown, log, next, firmware, history>>

(* A malformed line, an unknown command and initialize are answered by the *)
(* server itself; the answer to a malformed line names request 0.          *)
AnswerLine ==
  /\ phase = "select" /\ inbox # <<>>
  /\ Head(inbox).type \in {"parse", "host"}
  /\ inbox' = Tail(inbox)
  /\ read' = read \cup {Head(inbox).seq}
  /\ answered' = answered \cup {Head(inbox).seq}
  /\ Writes("select")
  /\ UNCHANGED <<client, lines, hungUp, shutdown, log, next, firmware, got, lost, joined>>

TakeRequest ==
  /\ phase = "select" /\ inbox # <<>>
  /\ Head(inbox).type \in {"runtime", "disconnect"}
  /\ inbox' = Tail(inbox)
  /\ request' = Head(inbox)
  /\ read' = read \cup {Head(inbox).seq}
  /\ phase' = "send"
  /\ UNCHANGED <<client, lines, hungUp, shutdown, log, next, firmware, answered, got, lost, joined>>

(* The receiver of the connection is the receiver of its waits.            *)
PositionAfterSend == next

(* send_within retries while no sender is bound.                           *)
Forward ==
  /\ phase = "send"
  /\ firmware' = Append(firmware, [client |-> client, seq |-> request.seq])
  /\ next' = PositionAfterSend
  /\ phase' = "wait"
  /\ UNCHANGED <<connection, request, shutdown, log, history>>

HostAnswers ==
  /\ answered' = answered \cup {request.seq}
  /\ Writes(AfterRequest)
  /\ UNCHANGED <<connection, shutdown, log, next, firmware, read, got, lost, joined>>

ForwardFails == phase = "send" /\ HostAnswers

TimesOut == phase = "wait"
Timeout == TimesOut /\ HostAnswers

----------------------------------------------------------------------------
(* The receiver: debug_rx.recv, in the client loop and in the wait.        *)

Lagged == Len(log) - next >= Capacity

(* forward_debug_payload returns the request that the payload's last       *)
(* response answers.                                                       *)
Matches(payload) == payload # <<>> /\ payload[Len(payload)].seq = request.seq

Receive ==
  /\ phase \in {"select", "wait"}
  /\ next <= Len(log) /\ ~ Lagged
  /\ next' = next + 1
  /\ got' = got \cup {next}
  /\ answered' = answered \cup {log[next][i].seq : i \in DOMAIN log[next]}
  /\ Writes(IF phase = "wait" /\ Matches(log[next]) THEN AfterRequest ELSE phase)
  /\ UNCHANGED <<connection, shutdown, log, firmware, read, lost, joined>>

Lag ==
  /\ phase \in {"select", "wait"}
  /\ Lagged
  /\ next' = Len(log) + 1 - Capacity
  /\ lost' = lost \cup (next .. next' - 1)
  /\ UNCHANGED <<phase, connection, request, shutdown, log, firmware, answered, read, got, joined>>

----------------------------------------------------------------------------
(* Shutdown: only the two select loops look at the watch.                  *)

Shutdown ==
  /\ ~ shutdown
  /\ shutdown' = TRUE
  /\ UNCHANGED <<phase, connection, request, log, next, firmware, history>>

SeeShutdown ==
  /\ shutdown
  /\ phase \in {"accept", "select"}
  /\ phase' = "closed"
  /\ UNCHANGED <<connection, request, shutdown, log, next, firmware, history>>

----------------------------------------------------------------------------
(* The firmware: a payload answers some of its requests, or none (events). *)

Publish ==
  /\ Len(log) < MaxPayloads
  /\ \E n \in 0..Len(firmware) :
       /\ log' = Append(log, SubSeq(firmware, 1, n))
       /\ firmware' = SubSeq(firmware, n + 1, Len(firmware))
  /\ UNCHANGED <<phase, connection, request, shutdown, next, history>>

FirmwareRestarts ==
  /\ firmware # <<>>
  /\ firmware' = <<>>
  /\ UNCHANGED <<phase, connection, request, shutdown, log, next, history>>

----------------------------------------------------------------------------
Server == \/ AnswerLine
          \/ TakeRequest
          \/ Forward
          \/ ForwardFails
          \/ Timeout
          \/ Receive
          \/ Lag
          \/ ClientLoopEnds

DebugNext == \/ Server
             \/ AcceptClient
             \/ \E type \in Types : ClientSends(type)
             \/ ClientHangsUp
             \/ Shutdown
             \/ SeeShutdown
             \/ Publish
             \/ FirmwareRestarts

DebugSpec == DebugInit /\ [][DebugNext]_debugVars

(* The client reads what is written to it; the timers fire; a loop looks   *)
(* at each of its sources again and again (tokio::select! picks among the  *)
(* ready branches at random).                                              *)
DebugFairness ==
  /\ WF_debugVars(Forward \/ ForwardFails)
  /\ WF_debugVars(Timeout)
  /\ SF_debugVars(AnswerLine \/ TakeRequest)
  /\ SF_debugVars(SeeShutdown)

DebugFairSpec == DebugSpec /\ DebugFairness

----------------------------------------------------------------------------
(* A request is taken up when every earlier one of the connection has its  *)
(* answer, whatever records of other requests, late answers to a request   *)
(* that timed out, and gaps in the broadcast come between.                 *)
AnsweredInTurn == phase = "select" => read \subseteq answered

(* A payload published while a client is connected reaches it, events as   *)
(* well as answers, in the client loop and in a wait, unless the receiver  *)
(* lagged; and none reaches it twice.                                      *)
NothingSkipped == Serving => joined..next-1 = got \cup lost /\ got \cap lost = {}

(* Every line the client sends is answered, or its connection ends.        *)
EveryLineAnswered ==
  \A c \in 1..MaxClients, s \in 1..MaxSeq :
    client = c /\ Serving /\ lines >= s ~> s \in answered \/ client # c \/ ~ Serving
=============================================================================
