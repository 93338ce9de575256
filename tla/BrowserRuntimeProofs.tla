----------------------- MODULE BrowserRuntimeProofs -----------------------
(***************************************************************************)
(* For any boards, contents, requests, timers and length of the queue:     *)
(* every variable has its type, an edit or import a caller was told of     *)
(* stays the board's card, and no card of another template is written over *)
(* but by an import.                                                       *)
(***************************************************************************)
EXTENDS BrowserRuntime, SequenceTheorems, TLAPS


(* A stored card of no other template.                                     *)
Clean(b) == stored[b] # None => ~ stored[b].conflict

(* What runs, what is loaded and what the timer saves.                     *)
QemuInv ==
  /\ module = "loaded" => instance # None
  /\ attached => module = "loaded"
  /\ running => attached
  /\ timer => running /\ active # None

(* The command and the card it works on.                                   *)
CommandInv ==
  cmd # None =>
    /\ (cmd.step \in {"assign", "edit", "prepare", "module"} \/ At("save", {"edit"}))
         => cmd.card # None /\ cmd.card.board = cmd.request.board
    /\ (cmd.step \in {"edit", "prepare", "module"} \/ At("save", {"edit"})) => ~ cmd.card.conflict
    /\ cmd.step = "main" => attached
    /\ (cmd.request.type = "edit" /\ cmd.step # "begin") \/ At("save", {"import"}) => ~ running

(* A save of the command is the command's.                                 *)
FlightInv ==
  /\ \A t \in Timers : flight[t] # None => active # None
  /\ flight["cmd"] # None =>
       /\ At("save", {"edit", "import", "stop"})
       /\ cmd.request.type = "stop" => active # None
       /\ cmd.request.type # "stop" => /\ flight["cmd"].board = cmd.request.board
                                       /\ flight["cmd"].image.files = cmd.request.image.files

(* Whatever shows no conflict is of a board that has none.                 *)
CleanFlights ==
  \A s \in Savers : flight[s] # None =>
       \/ Clean(flight[s].board)
       \/ s = "cmd" /\ cmd.request.type = "import" /\ ~ Is("cmd", "saved")
CleanInv ==
  /\ active # None => Clean(active)
  /\ editable # None => editable.conflict \/ Clean(editable.board)
  /\ cmd # None /\ cmd.card # None => cmd.card.conflict \/ Clean(cmd.card.board)
  /\ CleanFlights

(* Each request waits for its answer in one place.                         *)
Waiters == {c.id : c \in pending}
IdsInv ==
  /\ \A i \in 1..Len(queue) : queue[i].id \in Waiters
  /\ \A i \in 1..Len(replies) : replies[i].id \in Waiters
  /\ cmd # None => cmd.request.id \in Waiters
  /\ \A i, j \in 1..Len(queue) : i # j => queue[i].id # queue[j].id
  /\ \A i, j \in 1..Len(replies) : i # j => replies[i].id # replies[j].id
  /\ \A i \in 1..Len(queue), j \in 1..Len(replies) : queue[i].id # replies[j].id
  /\ cmd # None => /\ \A i \in 1..Len(queue) : queue[i].id # cmd.request.id
                   /\ \A j \in 1..Len(replies) : replies[j].id # cmd.request.id

(* A stop that was answered ends the worker before any later answer.       *)
StopOk(r) == r.ok /\ r.type = "stop"
Stopping == \E k \in 1..Len(replies) : StopOk(replies[k])
Doomed(i) == \E k \in 1..Len(replies) : StopOk(replies[k]) /\ \A j \in 1..k : replies[j].id # i
Holds(b, f) == /\ stored[b] # None /\ stored[b].image.files = f
               /\ \A t \in Timers : Is(t, "open") => flight[t].board # b

SafeAck(b) ==
  acked[b] # None =>
    \/ ~ acked[b].told /\ Doomed(acked[b].id)
    \/ Holds(b, acked[b].files)

AckInv ==
  /\ \A t \in Timers : Is(t, "open") => running \/ Stopping
  /\ flight["cmd"] # None /\ cmd.request.type = "stop" => acked[flight["cmd"].board] = None
  /\ Is("cmd", "saved") /\ cmd.request.type # "stop"
       => Stopping \/ Holds(cmd.request.board, cmd.request.image.files)
  /\ \A b \in Boards : SafeAck(b)

----------------------------------------------------------------------------
(* Records and functions the handlers build.                               *)

Edited(c, f) == [c EXCEPT !.image.files = f]
Moved(c) == [c EXCEPT !.image = Located(@)]
Kept(c) == [c EXCEPT !.persisted = TRUE]
Written(i, f) == [i EXCEPT !.sd.files = f]

LEMMA EditedCard ==
  ASSUME NEW c \in Cards, NEW f \in Files, NEW d, d = Edited(c, f)
  PROVE  /\ d \in Cards /\ d.board = c.board /\ d.conflict = c.conflict
         /\ d.image \in Images /\ d.image.files = f
  BY DEF Edited, Cards, Images

LEMMA LocatedCard ==
  ASSUME NEW c \in Cards, NEW d, d = Moved(c)
  PROVE  d \in Cards /\ d.board = c.board /\ d.conflict = c.conflict
  BY DEF Moved, Cards, Images, Located

LEMMA SavedCard ==
  ASSUME NEW c \in Cards, NEW d, d = Kept(c)
  PROVE  d \in Cards /\ d.board = c.board /\ d.conflict = c.conflict
  BY DEF Kept, Cards

LEMMA WrittenInstance ==
  ASSUME NEW i \in Instances, NEW f \in Files
  PROVE  Written(i, f) \in Instances
  BY DEF Written, Instances, Images

(* A save in flight changes its state, begins or ends; the others stay.    *)
Flying(g) == g \in [Savers -> Flights \cup {None}]
Begun(g, s, b, img) == [g EXCEPT ![s] = [board |-> b, image |-> img, state |-> "open"]]
Turned(g, s, state) == [g EXCEPT ![s].state = state]
Ended(g, s) == [g EXCEPT ![s] = None]

LEMMA StateChanged ==
  ASSUME NEW g, Flying(g), NEW s \in Savers, g[s] # None, NEW state \in {"open", "saved", "lost"},
         NEW h, h = Turned(g, s, state)
  PROVE  /\ Flying(h) /\ h[s] # None
         /\ h[s].board = g[s].board /\ h[s].image = g[s].image /\ h[s].state = state
         /\ \A r \in Savers \ {s} : h[r] = g[r]
<1>1. g[s] \in Flights
  BY DEF Flying
<1> DEFINE e == [g[s] EXCEPT !.state = state]
<1>2. e \in Flights /\ e.board = g[s].board /\ e.image = g[s].image /\ e.state = state
  BY <1>1 DEF Flights
<1>3. h = [g EXCEPT ![s] = e]
  BY DEF Turned
<1>4. e # None
  BY <1>2, NoneAssumption
<1> HIDE DEF e
<1>5. h \in [Savers -> Flights \cup {None}] /\ h[s] = e /\ \A r \in Savers \ {s} : h[r] = g[r]
  BY <1>2, <1>3 DEF Flying
<1> QED BY <1>2, <1>4, <1>5 DEF Flying

LEMMA FlightBegun ==
  ASSUME NEW g, Flying(g), NEW s \in Savers, NEW b \in Boards, NEW img \in Images,
         NEW h, h = Begun(g, s, b, img)
  PROVE  /\ Flying(h) /\ h[s] # None
         /\ h[s].board = b /\ h[s].image = img /\ h[s].state = "open"
         /\ \A r \in Savers \ {s} : h[r] = g[r]
<1> DEFINE e == [board |-> b, image |-> img, state |-> "open"]
<1>1. e \in Flights /\ e.board = b /\ e.image = img /\ e.state = "open"
  BY DEF Flights
<1>2. e # None
  BY <1>1, NoneAssumption
<1>3. h = [g EXCEPT ![s] = e]
  BY DEF Begun
<1> HIDE DEF e
<1>4. h \in [Savers -> Flights \cup {None}] /\ h[s] = e /\ \A r \in Savers \ {s} : h[r] = g[r]
  BY <1>1, <1>3 DEF Flying
<1> QED BY <1>1, <1>2, <1>4 DEF Flying

LEMMA FlightOver ==
  ASSUME NEW g, Flying(g), NEW s \in Savers, NEW h, h = Ended(g, s)
  PROVE  Flying(h) /\ h[s] = None /\ \A r \in Savers \ {s} : h[r] = g[r]
  BY DEF Flying, Ended

(* The command goes on: to another step, with another card, unshared.      *)
LEMMA CommandGoesOn ==
  ASSUME NEW c \in Runs, NEW step \in Steps, NEW card \in Cards \cup {None}, NEW shared \in BOOLEAN,
         NEW d, d = [step |-> step, request |-> c.request, card |-> card, shared |-> shared]
  PROVE  /\ d \in Runs /\ d # None
         /\ d.step = step /\ d.request = c.request /\ d.card = card /\ d.shared = shared
<1>1. d \in Runs /\ d.step = step /\ d.request = c.request /\ d.card = card /\ d.shared = shared
  BY DEF Runs
<1> QED BY <1>1, NoneAssumption

LEMMA CommandFields ==
  ASSUME NEW c \in Runs
  PROVE  /\ c.step \in Steps /\ c.request \in Commands /\ c.card \in Cards \cup {None}
         /\ c.shared \in BOOLEAN
         /\ c.request.id \in Ids /\ c.request.type \in Types
         /\ c.request.type # "stop" => c.request.board \in Boards
         /\ c.request.type \in {"edit", "import"} => c.request.image \in Images
<1>1. c.step \in Steps /\ c.request \in Commands /\ c.card \in Cards \cup {None} /\ c.shared \in BOOLEAN
  BY DEF Runs
<1>2. c.request \in [id : Ids, type : Types, board : Boards \cup {None}, image : Images \cup {None}]
  BY <1>1 DEF Commands
<1>3. c.request.type # "stop" => c.request.board # None
  BY <1>1 DEF Commands
<1>4. c.request.type \in {"edit", "import"} => c.request.image # None
  BY <1>1 DEF Commands
<1> QED BY <1>1, <1>2, <1>3, <1>4

----------------------------------------------------------------------------
(* The worker: types, and what its variables say of each other.            *)
WorkerInv == WTypeOK /\ QemuInv /\ CommandInv /\ FlightInv

(* Where a command is, as its fields say it.                               *)
LEMMA Busy ==
  ASSUME WTypeOK, cmd # None
  PROVE  /\ cmd \in Runs
         /\ cmd.step \in Steps /\ cmd.request \in Commands /\ cmd.card \in Cards \cup {None}
         /\ cmd.shared \in BOOLEAN
         /\ cmd.request.id \in Ids /\ cmd.request.type \in Types
         /\ cmd.request.type # "stop" => cmd.request.board \in Boards
         /\ cmd.request.type \in {"edit", "import"} => cmd.request.image \in Images
<1>1. cmd \in Runs
  BY DEF WTypeOK
<1> QED BY <1>1, CommandFields

(* The command is answered and leaves.                                     *)
LEMMA Settles ==
  ASSUME WTypeOK, cmd # None, NEW ok \in BOOLEAN, Settle(ok), UNCHANGED queue
  PROVE  /\ cmd' = None /\ cmd' \in Runs \cup {None}
         /\ replies' \in Seq(Results) /\ (Held <= MaxQueue)'
<1>1. [id |-> cmd.request.id, ok |-> ok, type |-> cmd.request.type] \in Results
  BY Busy DEF Results
<1>2. cmd' = None /\ replies' = Append(replies, [id |-> cmd.request.id, ok |-> ok, type |-> cmd.request.type])
  BY DEF Settle, Reply
<1>3. replies' \in Seq(Results)
  BY <1>1, <1>2, AppendProperties DEF WTypeOK
<1>4. Len(queue) \in Nat /\ Len(queue) + 1 <= MaxQueue
  BY LenProperties, WorkerAssumption DEF WTypeOK, Held
<1> QED BY <1>2, <1>3, <1>4, WorkerAssumption DEF Held

(* The command goes on.                                                    *)
LEMMA GoesOn ==
  ASSUME WTypeOK, cmd # None, cmd' \in Runs, cmd' # None, UNCHANGED <<queue, replies>>
  PROVE  replies' \in Seq(Results) /\ (Held <= MaxQueue)'
  BY DEF WTypeOK, Held

LEMMA Goes ==
  ASSUME WTypeOK, cmd # None, NEW step \in Steps, Goto(step), UNCHANGED queue
  PROVE  /\ cmd' \in Runs /\ cmd' # None /\ cmd'.step = step /\ cmd'.request = cmd.request
         /\ cmd'.card = cmd.card /\ cmd'.shared = cmd.shared
         /\ replies' \in Seq(Results) /\ (Held <= MaxQueue)'
<1>1. cmd' = [step |-> step, request |-> cmd.request, card |-> cmd.card, shared |-> cmd.shared]
  BY Busy DEF Goto, Runs
<1>2. /\ cmd' \in Runs /\ cmd' # None /\ cmd'.step = step /\ cmd'.request = cmd.request
      /\ cmd'.card = cmd.card /\ cmd'.shared = cmd.shared
  BY <1>1, Busy, CommandGoesOn
<1> QED BY <1>2, GoesOn DEF Goto

(* The rest of an invariant, when a handler leaves it alone.               *)
LEMMA StillOff ==
  ASSUME WorkerInv, UNCHANGED <<flight, active>>, cmd' = None, flight["cmd"] = None
  PROVE  CommandInv' /\ FlightInv'
  BY DEF WorkerInv, CommandInv, FlightInv

LEMMA NoFlight ==
  ASSUME WorkerInv, cmd = None \/ cmd.step # "save"
  PROVE  flight["cmd"] = None
  BY DEF WorkerInv, FlightInv, At

LEMMA CmdSaver == "cmd" \in Savers /\ \A t \in Timers : t \in Savers /\ t # "cmd"
  BY TimersAssumption DEF Savers

----------------------------------------------------------------------------
LEMMA Taken ==
  ASSUME WorkerInv, Begin
  PROVE  cmd' \in Runs /\ cmd' # None /\ cmd'.step = "begin" /\ cmd'.request = Head(queue) /\ cmd'.card = None
<1>1. Head(queue) \in Commands
  BY HeadTailProperties DEF Begin, WorkerInv, WTypeOK
<1>2. cmd' = [step |-> "begin", request |-> Head(queue), card |-> None, shared |-> FALSE]
  BY DEF Begin
<1>3. /\ cmd' \in Runs /\ cmd'.step = "begin" /\ cmd'.request = Head(queue) /\ cmd'.card = None
  BY <1>1, <1>2 DEF Runs, Steps
<1> QED BY <1>3, NoneAssumption

LEMMA BeginKeeps ==
  ASSUME WorkerInv, Begin
  PROVE  WorkerInv'
<1>1. queue # <<>> /\ queue \in Seq(Commands) /\ cmd = None /\ Len(queue) <= MaxQueue
  BY DEF Begin, WorkerInv, WTypeOK, Held
<1>2. /\ Head(queue) \in Commands /\ Tail(queue) \in Seq(Commands)
      /\ Len(Tail(queue)) = Len(queue) - 1 /\ Len(queue) \in Nat /\ Len(queue) > 0
  BY <1>1, HeadTailProperties, LenProperties, EmptySeq
<1>4. cmd' \in Runs /\ cmd' # None /\ cmd'.step = "begin"
  BY Taken
<1>6. WTypeOK'
  BY <1>1, <1>2, <1>4, WorkerAssumption DEF Begin, WorkerInv, WTypeOK, Held, qemuVars
<1>7. flight["cmd"] = None
  BY <1>1, NoFlight
<1>8. CommandInv'
  BY <1>4 DEF CommandInv, At
<1> QED BY <1>6, <1>7, <1>8 DEF Begin, WorkerInv, QemuInv, FlightInv, qemuVars

LEMMA BeginCardKeeps ==
  ASSUME WorkerInv, BeginCard
  PROVE  WorkerInv'
<1>1. cmd # None /\ WTypeOK /\ cmd.step = "begin" /\ cmd.request.type \in {"edit", "read"}
  BY DEF BeginCard, At, WorkerInv
<1>2. flight["cmd"] = None
  BY <1>1, NoFlight
<1>3. CASE running
  <2>1. Settle(FALSE)
    BY <1>3 DEF BeginCard
  <2>2. cmd' = None /\ cmd' \in Runs \cup {None} /\ replies' \in Seq(Results) /\ (Held <= MaxQueue)'
    BY <1>1, <2>1, Settles DEF BeginCard
  <2>3. CommandInv' /\ FlightInv'
    BY <1>2, <2>2, StillOff DEF BeginCard, qemuVars
  <2> QED BY <2>2, <2>3 DEF BeginCard, WorkerInv, WTypeOK, QemuInv, qemuVars
<1>4. CASE ~ running
  <2>1. Goto("load") /\ "load" \in Steps
    BY <1>4 DEF BeginCard, Steps
  <2>2. /\ cmd' \in Runs /\ cmd' # None /\ cmd'.step = "load" /\ cmd'.request = cmd.request
        /\ replies' \in Seq(Results) /\ (Held <= MaxQueue)'
    BY <1>1, <2>1, Goes DEF BeginCard
  <2>3. CommandInv'
    BY <1>4, <2>2 DEF CommandInv, At, BeginCard, qemuVars
  <2> QED BY <1>2, <2>2, <2>3 DEF BeginCard, WorkerInv, WTypeOK, QemuInv, FlightInv, qemuVars
<1> QED BY <1>3, <1>4

LEMMA BeginStartKeeps ==
  ASSUME WorkerInv, BeginStart
  PROVE  WorkerInv'
<1>1. cmd # None /\ WTypeOK /\ cmd.step = "begin" /\ cmd.request.type = "start"
  BY DEF BeginStart, At, WorkerInv
<1>2. flight["cmd"] = None
  BY <1>1, NoFlight
<1>3. ASSUME NEW ok \in BOOLEAN, Settle(ok) PROVE WorkerInv'
  <2>2. cmd' = None /\ cmd' \in Runs \cup {None} /\ replies' \in Seq(Results) /\ (Held <= MaxQueue)'
    BY <1>1, <1>3, Settles DEF BeginStart
  <2>3. CommandInv' /\ FlightInv'
    BY <1>2, <2>2, StillOff DEF BeginStart, qemuVars
  <2> QED BY <2>2, <2>3 DEF BeginStart, WorkerInv, WTypeOK, QemuInv, qemuVars
<1>4. CASE Goto("load")
  <2>1. "load" \in Steps
    BY DEF Steps
  <2>2. /\ cmd' \in Runs /\ cmd' # None /\ cmd'.step = "load" /\ cmd'.request = cmd.request
        /\ replies' \in Seq(Results) /\ (Held <= MaxQueue)'
    BY <1>1, <1>4, <2>1, Goes DEF BeginStart
  <2>3. CommandInv'
    BY <1>1, <2>2 DEF CommandInv, At
  <2> QED BY <1>2, <2>2, <2>3 DEF BeginStart, WorkerInv, WTypeOK, QemuInv, FlightInv, qemuVars
<1> QED BY <1>3, <1>4 DEF BeginStart

(* What shutting down leaves.                                              *)
LEMMA ShutDown ==
  ASSUME WorkerInv, Shutdown
  PROVE  /\ running' \in BOOLEAN /\ attached' \in BOOLEAN /\ timer' \in BOOLEAN
         /\ module' \in {"none", "loaded", "rejected"} /\ instance' \in Instances \cup {None}
         /\ active' \in Boards \cup {None} /\ active' = active /\ QemuInv'
  BY DEF Shutdown, WorkerInv, WTypeOK, QemuInv

LEMMA BeginStopKeeps ==
  ASSUME WorkerInv, BeginStop
  PROVE  WorkerInv'
<1>1. cmd # None /\ WTypeOK /\ cmd.step = "begin" /\ cmd.request.type = "stop"
  BY DEF BeginStop, At, WorkerInv
<1>2. flight["cmd"] = None
  BY <1>1, NoFlight
<1>3. CASE SaveNeeded
  <2>1. Open("cmd", active, instance.sd) /\ Goto("save") /\ UNCHANGED qemuVars /\ "save" \in Steps
    BY <1>3 DEF BeginStop, Steps
  <2>2. active \in Boards /\ active # None /\ instance.sd \in Images
    BY <1>3 DEF SaveNeeded, GuestCard, WorkerInv, WTypeOK, QemuInv, Instances
  <2>3. /\ cmd' \in Runs /\ cmd' # None /\ cmd'.step = "save" /\ cmd'.request = cmd.request
        /\ replies' \in Seq(Results) /\ (Held <= MaxQueue)'
    BY <1>1, <2>1, Goes DEF BeginStop
  <2>4. Flying(flight') /\ \A r \in Savers \ {"cmd"} : flight'[r] = flight[r]
    <3>1. Flying(flight)
      BY <1>1 DEF WTypeOK, Flying
    <3>2. flight' = Begun(flight, "cmd", active, instance.sd)
      BY <2>1 DEF Open, Begun
    <3>3. "cmd" \in Savers
      BY CmdSaver
    <3> QED BY <2>2, <3>1, <3>2, <3>3, FlightBegun
  <2>5. CommandInv'
    BY <1>1, <2>3 DEF CommandInv, At
  <2>6. FlightInv'
    BY <1>1, <2>1, <2>2, <2>3, <2>4, CmdSaver DEF FlightInv, At, WorkerInv, qemuVars
  <2> QED BY <2>1, <2>3, <2>4, <2>5, <2>6 DEF BeginStop, WorkerInv, WTypeOK, QemuInv, qemuVars, Flying
<1>4. CASE ~ SaveNeeded
  <2>1. Shutdown /\ Settle(TRUE) /\ UNCHANGED flight
    BY <1>4 DEF BeginStop
  <2>2. cmd' = None /\ cmd' \in Runs \cup {None} /\ replies' \in Seq(Results) /\ (Held <= MaxQueue)'
    BY <1>1, <2>1, Settles DEF BeginStop
  <2>3. CommandInv' /\ FlightInv'
    BY <1>2, <2>1, <2>2, StillOff, ShutDown
  <2> QED BY <2>1, <2>2, <2>3, ShutDown DEF BeginStop, WorkerInv, WTypeOK
<1> QED BY <1>3, <1>4

(* A handler that answers and leaves QEMU alone.                           *)
LEMMA SettlesOnly ==
  ASSUME WorkerInv, cmd # None, flight["cmd"] = None, NEW ok \in BOOLEAN, Settle(ok),
         UNCHANGED <<queue, qemuVars, flight, stored>>, editable' \in Cards \cup {None}
  PROVE  WorkerInv'
<1>1. cmd' = None /\ cmd' \in Runs \cup {None} /\ replies' \in Seq(Results) /\ (Held <= MaxQueue)'
  BY Settles DEF WorkerInv
<1>2. CommandInv' /\ FlightInv'
  BY <1>1, StillOff DEF qemuVars
<1> QED BY <1>1, <1>2 DEF WorkerInv, WTypeOK, QemuInv, qemuVars

(* One that goes on without a save.                                        *)
LEMMA GoesOnOnly ==
  ASSUME WorkerInv, cmd # None, flight["cmd"] = None, cmd' \in Runs, cmd' # None, CommandInv',
         UNCHANGED <<queue, replies, qemuVars, flight, stored>>, editable' \in Cards \cup {None}
  PROVE  WorkerInv'
<1>1. replies' \in Seq(Results) /\ (Held <= MaxQueue)'
  BY GoesOn DEF WorkerInv
<1> QED BY <1>1 DEF WorkerInv, WTypeOK, QemuInv, FlightInv, qemuVars

LEMMA FetchedCard ==
  ASSUME WTypeOK, NEW b \in Boards
  PROVE  /\ Fetched(b) \in Cards /\ Fetched(b).board = b
         /\ Fetched(b).conflict \/ Clean(b)
<1>1. stored[b] # None => stored[b] \in StoredCards
  BY DEF WTypeOK
<1>2. TemplateImage \in Images
  BY WorkerAssumption DEF TemplateImage, Images
<1> QED BY <1>1, <1>2 DEF Fetched, Cards, StoredCards, Clean

(* A command has its card.                                                 *)
LEMMA LoadedKeeps ==
  ASSUME WorkerInv, cmd # None, cmd.request.type \in {"start", "edit", "read"}, cmd.step # "save",
         cmd.step # "begin", NEW card \in Cards, card.board = cmd.request.board, Loaded(card),
         UNCHANGED <<queue, qemuVars, flight, stored>>, editable' \in Cards \cup {None}
  PROVE  WorkerInv'
<1>1. flight["cmd"] = None
  BY NoFlight
<1>2. ASSUME NEW ok \in BOOLEAN, Settle(ok) PROVE WorkerInv'
  BY <1>1, <1>2, SettlesOnly
<1> DEFINE step == IF cmd.request.type = "start" THEN "prepare" ELSE "edit"
<1>3. CASE /\ ~ Blocked(card) /\ cmd.request.type # "read"
           /\ cmd' = [cmd EXCEPT !.card = card, !.shared = TRUE, !.step = step]
           /\ UNCHANGED replies
  <2>1. cmd \in Runs
    BY Busy DEF WorkerInv
  <2>2. cmd' = [step |-> step, request |-> cmd.request, card |-> card, shared |-> TRUE]
    BY <1>3, <2>1 DEF Runs
  <2>3. step \in Steps
    BY DEF Steps
  <2>4. cmd' \in Runs /\ cmd' # None /\ cmd'.step = step /\ cmd'.request = cmd.request /\ cmd'.card = card
    <3>1. PICK shared \in BOOLEAN :
            cmd' = [step |-> step, request |-> cmd.request, card |-> card, shared |-> shared]
      BY <2>2
    <3> HIDE DEF step
    <3> QED BY <2>1, <2>3, <3>1, CommandGoesOn
  <2>5. ~ card.conflict
    BY <1>3 DEF Blocked
  <2>8. card # None
    BY NoneAssumption
  <2>6. cmd.request.type = "edit" => ~ running
    BY DEF WorkerInv, CommandInv
  <2>7. CommandInv'
    BY <2>4, <2>5, <2>6, <2>8 DEF CommandInv, At, qemuVars
  <2> QED BY <1>1, <1>3, <2>4, <2>7, GoesOnOnly
<1> QED BY <1>2, <1>3 DEF Loaded

LEMMA LoadKeeps ==
  ASSUME WorkerInv, Load
  PROVE  WorkerInv'
<1>1. cmd # None /\ WTypeOK /\ cmd.step = "load" /\ cmd.request.type \in {"start", "edit", "read"}
  BY DEF Load, At, WorkerInv
<1>2. flight["cmd"] = None
  BY <1>1, NoFlight
<1>3. cmd.request.board \in Boards
  BY <1>1, Busy
<1>4. editable' \in Cards \cup {None}
  BY <1>1 DEF WTypeOK, Load
<1>5. CASE Cached(cmd.request.board)
  <2>1. editable \in Cards /\ editable.board = cmd.request.board /\ Loaded(editable)
    BY <1>1, <1>5 DEF Cached, WTypeOK, Load
  <2> QED BY <1>1, <1>4, <2>1, LoadedKeeps DEF Load
<1>6. CASE Settle(FALSE)
  BY <1>1, <1>2, <1>4, <1>6, SettlesOnly DEF Load
<1> DEFINE card == Fetched(cmd.request.board)
<1>7. CASE cmd' = [cmd EXCEPT !.step = "assign", !.card = card] /\ UNCHANGED replies
  <2>1. cmd \in Runs
    BY <1>1, Busy
  <2>2. card \in Cards /\ card.board = cmd.request.board
    BY <1>1, <1>3, FetchedCard
  <2>3. cmd' = [step |-> "assign", request |-> cmd.request, card |-> card, shared |-> cmd.shared]
    BY <1>7, <2>1 DEF Runs
  <2>4. "assign" \in Steps /\ cmd.shared \in BOOLEAN
    BY <1>1, Busy DEF Steps
  <2>5. cmd' \in Runs /\ cmd' # None /\ cmd'.step = "assign" /\ cmd'.request = cmd.request /\ cmd'.card = card
    BY <2>1, <2>2, <2>3, <2>4, CommandGoesOn
  <2>6. card # None
    BY <2>2, NoneAssumption
  <2>7. cmd.request.type = "edit" => ~ running
    BY <1>1 DEF WorkerInv, CommandInv
  <2> HIDE DEF card
  <2>8. CommandInv'
    BY <2>2, <2>5, <2>6, <2>7 DEF CommandInv, At, qemuVars, Load
  <2> QED BY <1>1, <1>2, <1>4, <1>7, <2>5, <2>8, GoesOnOnly DEF Load
<1> QED BY <1>5, <1>6, <1>7 DEF Load

LEMMA AssignKeeps ==
  ASSUME WorkerInv, Assign
  PROVE  WorkerInv'
<1>1. cmd # None /\ WTypeOK /\ cmd.step = "assign" /\ cmd.request.type \in {"start", "edit", "read"}
  BY DEF Assign, At, WorkerInv
<1>2. cmd.card \in Cards /\ cmd.card.board = cmd.request.board
  BY <1>1, Busy DEF WorkerInv, CommandInv
<1> QED BY <1>1, <1>2, LoadedKeeps DEF Assign

LEMMA PrepareKeeps ==
  ASSUME WorkerInv, Prepare
  PROVE  WorkerInv'
<1>1. cmd # None /\ WTypeOK /\ cmd.step = "prepare" /\ cmd.request.type = "start"
  BY DEF Prepare, At, WorkerInv
<1>2. cmd.card \in Cards /\ cmd.card.board = cmd.request.board /\ flight["cmd"] = None
  BY <1>1, Busy, NoFlight DEF WorkerInv, CommandInv
<1>3. CASE Settle(FALSE) /\ UNCHANGED editable
  BY <1>1, <1>2, <1>3, SettlesOnly DEF Prepare, WTypeOK
<1>4. PICK card : card = Moved(cmd.card)
  OBVIOUS
<1>5. card \in Cards /\ card.board = cmd.card.board /\ card.conflict = cmd.card.conflict /\ card # None
  BY <1>2, <1>4, LocatedCard, NoneAssumption
<1>6. CASE /\ ~ card.conflict
           /\ SetCard(card)
           /\ cmd' = [cmd EXCEPT !.step = "module", !.card = card]
           /\ UNCHANGED replies
  <2>1. cmd \in Runs /\ cmd.shared \in BOOLEAN /\ "module" \in Steps
    BY <1>1, Busy DEF Steps
  <2>2. cmd' = [step |-> "module", request |-> cmd.request, card |-> card, shared |-> cmd.shared]
    BY <1>6, <2>1 DEF Runs
  <2>3. cmd' \in Runs /\ cmd' # None /\ cmd'.step = "module" /\ cmd'.request = cmd.request /\ cmd'.card = card
    BY <1>5, <2>1, <2>2, CommandGoesOn
  <2>4. CommandInv'
    BY <1>1, <1>2, <1>5, <1>6, <2>3 DEF CommandInv, At
  <2>5. editable' \in Cards \cup {None}
    BY <1>1, <1>5, <1>6 DEF SetCard, WTypeOK
  <2> QED BY <1>1, <1>2, <1>6, <2>3, <2>4, <2>5, GoesOnOnly DEF Prepare
<1> QED BY <1>3, <1>4, <1>6 DEF Prepare, Moved

(* Edits and imports: the command's save begins and ends.                  *)
LEMMA EditKeeps ==
  ASSUME WorkerInv, Edit
  PROVE  WorkerInv'
<1>1. cmd # None /\ WTypeOK /\ cmd.step = "edit" /\ cmd.request.type = "edit"
  BY DEF Edit, At, WorkerInv
<1>2. /\ cmd.card \in Cards /\ cmd.card.board = cmd.request.board /\ flight["cmd"] = None
      /\ ~ cmd.card.conflict /\ ~ running /\ cmd.request.board \in Boards
  BY <1>1, Busy, NoFlight DEF WorkerInv, CommandInv
<1>3. PICK f \in Files :
        /\ SetCard(Edited(cmd.card, f))
        /\ \/ /\ f = cmd.request.image.files
              /\ Open("cmd", Edited(cmd.card, f).board, Edited(cmd.card, f).image)
              /\ cmd' = [cmd EXCEPT !.step = "save", !.card = Edited(cmd.card, f)]
              /\ UNCHANGED replies
           \/ Settle(FALSE) /\ UNCHANGED flight
  BY DEF Edit, Edited
<1>4. PICK card : card = Edited(cmd.card, f)
  OBVIOUS
<1>5. /\ card \in Cards /\ card.board = cmd.card.board /\ card.conflict = cmd.card.conflict
      /\ card.image \in Images /\ card.image.files = f /\ card # None
  BY <1>2, <1>4, EditedCard, NoneAssumption
<1>6. editable' \in Cards \cup {None}
  BY <1>1, <1>3, <1>4, <1>5 DEF SetCard, WTypeOK
<1>7. CASE Settle(FALSE) /\ UNCHANGED flight
  BY <1>1, <1>2, <1>6, <1>7, SettlesOnly DEF Edit
<1>8. CASE /\ f = cmd.request.image.files
           /\ Open("cmd", card.board, card.image)
           /\ cmd' = [cmd EXCEPT !.step = "save", !.card = card]
           /\ UNCHANGED replies
  <2>1. cmd \in Runs /\ cmd.shared \in BOOLEAN /\ "save" \in Steps
    BY <1>1, Busy DEF Steps
  <2>2. cmd' = [step |-> "save", request |-> cmd.request, card |-> card, shared |-> cmd.shared]
    BY <1>8, <2>1 DEF Runs
  <2>3. cmd' \in Runs /\ cmd' # None /\ cmd'.step = "save" /\ cmd'.request = cmd.request /\ cmd'.card = card
    BY <1>5, <2>1, <2>2, CommandGoesOn
  <2>4. replies' \in Seq(Results) /\ (Held <= MaxQueue)'
    BY <1>1, <1>8, <2>3, GoesOn DEF Edit
  <2>5. flight' = Begun(flight, "cmd", card.board, card.image)
    BY <1>8 DEF Open, Begun
  <2>6. Flying(flight) /\ "cmd" \in Savers /\ card.board \in Boards
    BY <1>1, <1>2, <1>5, CmdSaver DEF WTypeOK, Flying
  <2>7. /\ Flying(flight') /\ \A r \in Savers \ {"cmd"} : flight'[r] = flight[r]
        /\ flight'["cmd"].board = card.board /\ flight'["cmd"].image = card.image
    BY <1>5, <2>5, <2>6, FlightBegun
  <2>8. f = cmd.request.image.files
    BY <1>8
  <2>9. CommandInv'
    BY <1>1, <1>2, <1>5, <2>3 DEF CommandInv, At, Edit, qemuVars
  <2>10. UNCHANGED <<queue, qemuVars, stored>>
    BY DEF Edit
  <2>11. FlightInv'
    BY <1>1, <1>2, <1>5, <2>3, <2>7, <2>8, <2>10, CmdSaver DEF FlightInv, At, WorkerInv, qemuVars
  <2> QED BY <1>6, <2>3, <2>4, <2>7, <2>9, <2>10, <2>11 DEF WorkerInv, WTypeOK, QemuInv, qemuVars, Flying
<1> QED BY <1>3, <1>4, <1>7, <1>8

(* The command's save is over.                                             *)
LEMMA Closed ==
  ASSUME WTypeOK, Close("cmd")
  PROVE  Flying(flight') /\ flight'["cmd"] = None /\ \A t \in Timers : flight'[t] = flight[t]
<1>1. Flying(flight) /\ flight' = Ended(flight, "cmd")
  BY DEF WTypeOK, Flying, Close, Ended
<1> QED BY <1>1, CmdSaver, FlightOver

LEMMA SavedKeeps ==
  ASSUME WorkerInv, cmd # None, NEW ok \in BOOLEAN, Settle(ok), Close("cmd"),
         UNCHANGED <<queue, qemuVars, stored>>, editable' \in Cards \cup {None}
  PROVE  WorkerInv'
<1>1. cmd' = None /\ cmd' \in Runs \cup {None} /\ replies' \in Seq(Results) /\ (Held <= MaxQueue)'
  BY Settles DEF WorkerInv
<1>2. Flying(flight') /\ flight'["cmd"] = None /\ \A t \in Timers : flight'[t] = flight[t]
  BY Closed DEF WorkerInv
<1> QED BY <1>1, <1>2 DEF WorkerInv, WTypeOK, QemuInv, CommandInv, FlightInv, qemuVars, Flying

LEMMA EditSavedKeeps ==
  ASSUME WorkerInv, EditSaved
  PROVE  WorkerInv'
<1>1. cmd # None /\ WTypeOK /\ cmd.step = "save" /\ cmd.request.type = "edit" /\ At("save", {"edit"})
  BY DEF EditSaved, At, WorkerInv
<1>2. cmd.card \in Cards
  BY <1>1, Busy DEF WorkerInv, CommandInv
<1>3. CASE Is("cmd", "saved") /\ SetCard([cmd.card EXCEPT !.persisted = TRUE]) /\ Settle(TRUE)
  <2>1. PICK card : card = Kept(cmd.card)
    OBVIOUS
  <2>2. card \in Cards /\ SetCard(card)
    BY <1>2, <1>3, <2>1, SavedCard DEF Kept
  <2>3. editable' \in Cards \cup {None}
    BY <1>1, <2>2 DEF SetCard, WTypeOK
  <2> QED BY <1>1, <1>3, <2>3, SavedKeeps DEF EditSaved
<1>4. CASE Is("cmd", "lost") /\ UNCHANGED editable /\ Settle(FALSE)
  BY <1>1, <1>4, SavedKeeps DEF EditSaved, WTypeOK
<1> QED BY <1>3, <1>4 DEF EditSaved

LEMMA ImportKeeps ==
  ASSUME WorkerInv, Import
  PROVE  WorkerInv'
<1>1. cmd # None /\ WTypeOK /\ cmd.step = "begin" /\ cmd.request.type = "import"
  BY DEF Import, At, WorkerInv
<1>2. flight["cmd"] = None /\ cmd.request.board \in Boards /\ cmd.request.image \in Images
  BY <1>1, Busy, NoFlight
<1>3. editable' \in Cards \cup {None}
  BY <1>1 DEF Import, WTypeOK
<1>4. CASE Settle(FALSE) /\ UNCHANGED flight
  BY <1>1, <1>2, <1>3, <1>4, SettlesOnly DEF Import
<1>5. CASE ~ running /\ Open("cmd", cmd.request.board, cmd.request.image) /\ Goto("save")
  <2>1. "save" \in Steps
    BY DEF Steps
  <2>2. /\ cmd' \in Runs /\ cmd' # None /\ cmd'.step = "save" /\ cmd'.request = cmd.request
        /\ cmd'.card = cmd.card /\ replies' \in Seq(Results) /\ (Held <= MaxQueue)'
    BY <1>1, <1>5, <2>1, Goes DEF Import
  <2>3. flight' = Begun(flight, "cmd", cmd.request.board, cmd.request.image)
    BY <1>5 DEF Open, Begun
  <2>4. Flying(flight) /\ "cmd" \in Savers
    BY <1>1, CmdSaver DEF WTypeOK, Flying
  <2>5. /\ Flying(flight') /\ \A r \in Savers \ {"cmd"} : flight'[r] = flight[r]
        /\ flight'["cmd"].board = cmd.request.board /\ flight'["cmd"].image = cmd.request.image
    BY <1>2, <2>3, <2>4, FlightBegun
  <2>6. UNCHANGED <<queue, qemuVars, stored>> /\ ~ running
    BY <1>5 DEF Import
  <2>7. CommandInv'
    BY <1>1, <2>2, <2>6 DEF CommandInv, At, qemuVars
  <2>8. FlightInv'
    BY <1>1, <2>2, <2>5, <2>6, CmdSaver DEF FlightInv, At, WorkerInv, qemuVars
  <2> QED BY <1>3, <2>2, <2>5, <2>6, <2>7, <2>8 DEF WorkerInv, WTypeOK, QemuInv, qemuVars, Flying
<1> QED BY <1>4, <1>5 DEF Import

LEMMA ImportSavedKeeps ==
  ASSUME WorkerInv, ImportSaved
  PROVE  WorkerInv'
<1>1. cmd # None /\ WTypeOK /\ cmd.step = "save" /\ cmd.request.type = "import"
  BY DEF ImportSaved, At, WorkerInv
<1>2. cmd.request.board \in Boards /\ cmd.request.image \in Images
  BY <1>1, Busy
<1> DEFINE card == [board |-> cmd.request.board, image |-> cmd.request.image,
                     persisted |-> TRUE, known |-> TRUE, conflict |-> FALSE]
<1>4. card \in Cards
  BY <1>2 DEF Cards
<1>5. editable' = card \/ UNCHANGED editable
  BY DEF ImportSaved
<1>3. editable' \in Cards \cup {None}
  BY <1>1, <1>4, <1>5 DEF WTypeOK
<1> QED BY <1>1, <1>3, SavedKeeps DEF ImportSaved

(* The stop's save: the guest's card is cached as the store's.             *)
LEMMA GuestCachedCard ==
  ASSUME WorkerInv, NEW s \in Savers, flight[s] # None, active # None
  PROVE  /\ GuestCached(s) \in Cards /\ GuestCached(s).board = active
         /\ ~ GuestCached(s).conflict
<1>1. flight[s] \in Flights /\ active \in Boards
  BY DEF WorkerInv, WTypeOK
<1> QED BY <1>1 DEF GuestCached, Cards, Flights

LEMMA StopSavedKeeps ==
  ASSUME WorkerInv, StopSaved
  PROVE  WorkerInv'
<1>1. cmd # None /\ WTypeOK /\ cmd.step = "save" /\ cmd.request.type = "stop"
  BY DEF StopSaved, At, WorkerInv
<1>2. cmd' = None /\ cmd' \in Runs \cup {None} /\ replies' \in Seq(Results) /\ (Held <= MaxQueue)'
  BY <1>1, Settles DEF StopSaved
<1>3. Flying(flight') /\ flight'["cmd"] = None /\ \A t \in Timers : flight'[t] = flight[t]
  BY <1>1, Closed DEF StopSaved
<1>4. editable' \in Cards \cup {None}
  <2>1. Is("cmd", "saved") => active # None
    BY <1>1 DEF Is, WorkerInv, FlightInv
  <2>2. Is("cmd", "saved") => GuestCached("cmd") \in Cards
    BY <2>1, CmdSaver, GuestCachedCard DEF Is
  <2> QED BY <1>1, <2>2 DEF StopSaved, WTypeOK
<1>5. CommandInv' /\ FlightInv'
  BY <1>2, <1>3, ShutDown DEF CommandInv, FlightInv, WorkerInv, StopSaved
<1> QED BY <1>2, <1>3, <1>4, <1>5, ShutDown DEF StopSaved, WorkerInv, WTypeOK, Flying

(* QEMU: its module, its main and the guest.                               *)
LEMMA LoadModuleKeeps ==
  ASSUME WorkerInv, LoadModule
  PROVE  WorkerInv'
<1>1. cmd # None /\ WTypeOK /\ cmd.step = "module" /\ cmd.request.type = "start"
  BY DEF LoadModule, At, WorkerInv
<1>2. flight["cmd"] = None /\ cmd.request.board \in Boards /\ cmd.card \in Cards
  BY <1>1, Busy, NoFlight DEF WorkerInv, CommandInv
<1>3. UNCHANGED <<queue, running, timer, editable, flight, stored>>
  BY DEF LoadModule
<1>4. CASE /\ module \in {"none", "rejected"}
           /\ module' = "rejected"
           /\ active' \in IF module = "none" THEN {active, cmd.card.board} ELSE {active}
           /\ Settle(FALSE)
           /\ UNCHANGED <<instance, attached>>
  <2>1. cmd' = None /\ cmd' \in Runs \cup {None} /\ replies' \in Seq(Results) /\ (Held <= MaxQueue)'
    BY <1>1, <1>4, Settles DEF LoadModule
  <2>2. active' \in Boards \cup {None} /\ (active # None => active' # None)
    BY <1>1, <1>2, <1>4, NoneAssumption DEF WTypeOK, Cards
  <2>3. QemuInv'
    BY <1>3, <1>4, <2>2 DEF WorkerInv, QemuInv
  <2>4. FlightInv' /\ CommandInv'
    BY <1>2, <1>3, <2>1, <2>2 DEF WorkerInv, FlightInv, CommandInv
  <2> QED BY <1>1, <1>3, <1>4, <2>1, <2>2, <2>3, <2>4 DEF WorkerInv, WTypeOK
<1>5. ASSUME Goto("main"), attached' = TRUE, module' = "loaded", instance' \in Instances, instance' # None,
             active' \in Boards \cup {None}, active # None => active' # None
      PROVE  WorkerInv'
  <2>1. "main" \in Steps
    BY DEF Steps
  <2>2. /\ cmd' \in Runs /\ cmd' # None /\ cmd'.step = "main" /\ cmd'.request = cmd.request
        /\ replies' \in Seq(Results) /\ (Held <= MaxQueue)'
    BY <1>1, <1>3, <1>5, <2>1, Goes
  <2>3. CommandInv'
    BY <1>1, <1>5, <2>2 DEF CommandInv, At
  <2>4. FlightInv' /\ QemuInv'
    BY <1>2, <1>3, <1>5 DEF WorkerInv, FlightInv, QemuInv
  <2> QED BY <1>1, <1>3, <1>5, <2>2, <2>3, <2>4 DEF WorkerInv, WTypeOK
<1>6. CASE module = "loaded" /\ attached' = TRUE /\ Goto("main") /\ UNCHANGED <<module, instance, active>>
  <2>1. instance \in Instances /\ instance # None
    BY <1>1, <1>6 DEF WorkerInv, QemuInv, WTypeOK
  <2> QED BY <1>1, <1>5, <1>6, <2>1 DEF WTypeOK
<1>7. CASE /\ module = "none" /\ module' = "loaded"
           /\ instance' = [board |-> cmd.request.board, sd |-> cmd.card.image]
           /\ attached' = TRUE /\ active' = cmd.card.board /\ Goto("main")
  <2>1. instance' \in Instances /\ active' \in Boards
    BY <1>2, <1>7 DEF Instances, Cards
  <2> QED BY <1>5, <1>7, <2>1, NoneAssumption
<1> QED BY <1>4, <1>6, <1>7 DEF LoadModule

LEMMA StartMainKeeps ==
  ASSUME WorkerInv, StartMain
  PROVE  WorkerInv'
<1>1. cmd # None /\ WTypeOK /\ cmd.step = "main" /\ cmd.request.type = "start" /\ attached
  BY DEF StartMain, At, WorkerInv, CommandInv
<1>2. flight["cmd"] = None
  BY <1>1, NoFlight
<1>3. PICK ok \in BOOLEAN : Settle(ok)
  BY DEF StartMain
<1>4. cmd' = None /\ cmd' \in Runs \cup {None} /\ replies' \in Seq(Results) /\ (Held <= MaxQueue)'
  BY <1>1, <1>3, Settles DEF StartMain
<1>5. CommandInv' /\ FlightInv'
  BY <1>2, <1>4, StillOff DEF StartMain
<1>6. /\ running' \in BOOLEAN /\ timer' \in BOOLEAN
      /\ timer' => running' /\ active # None
  <2>1. (running' = TRUE /\ timer' = (active # None)) \/ UNCHANGED <<running, timer>>
    BY DEF StartMain
  <2>2. CASE running' = TRUE /\ timer' = (active # None)
    BY ONLY <2>2, Zenon
  <2> QED BY <2>1, <2>2 DEF WorkerInv, QemuInv, WTypeOK
<1>7. QemuInv'
  BY <1>1, <1>6 DEF StartMain, WorkerInv, QemuInv
<1> QED BY <1>4, <1>5, <1>6, <1>7 DEF StartMain, WorkerInv, WTypeOK

LEMMA GuestWritesKeeps ==
  ASSUME WorkerInv, GuestWrites
  PROVE  WorkerInv'
<1>1. instance \in Instances
  BY DEF GuestWrites, WorkerInv, QemuInv, WTypeOK
<1>2. instance' \in Instances /\ instance' # None
  BY <1>1, WrittenInstance, NoneAssumption DEF GuestWrites, Written
<1>3. UNCHANGED <<queue, cmd, running, module, attached, active, timer, editable, flight, stored, replies>>
  BY DEF GuestWrites
<1>4. WTypeOK'
  BY <1>2, <1>3 DEF WorkerInv, WTypeOK, Held
<1> QED BY <1>2, <1>3, <1>4 DEF WorkerInv, QemuInv, CommandInv, FlightInv, At

----------------------------------------------------------------------------
(* Saves: they end one way or the other, and the timer begins more.        *)
LEMMA TurnedKeeps ==
  ASSUME WorkerInv, NEW s \in Savers, Is(s, "open"), NEW state \in {"saved", "lost"},
         flight' = Turned(flight, s, state), UNCHANGED <<queue, cmd, qemuVars, editable, replies>>
  PROVE  /\ Flying(flight') /\ FlightInv'
         /\ flight'[s] # None /\ flight'[s].board = flight[s].board /\ flight'[s].image = flight[s].image
         /\ flight'[s].state = state /\ \A r \in Savers \ {s} : flight'[r] = flight[r]
<1>2. Flying(flight) /\ flight[s] # None /\ state \in {"open", "saved", "lost"}
  BY DEF WorkerInv, WTypeOK, Flying, Is
<1>3. /\ Flying(flight') /\ flight'[s] # None
      /\ flight'[s].board = flight[s].board /\ flight'[s].image = flight[s].image /\ flight'[s].state = state
      /\ \A r \in Savers \ {s} : flight'[r] = flight[r]
  BY <1>2, StateChanged
<1>4. UNCHANGED <<active, cmd>>
  BY DEF qemuVars
<1>5. FlightInv'
  BY <1>2, <1>3, <1>4, CmdSaver DEF WorkerInv, FlightInv, At
<1> QED BY <1>3, <1>5

LEMMA CommitKeeps ==
  ASSUME WorkerInv, NEW s \in Savers, Commit(s)
  PROVE  WorkerInv'
<1>1. Flying(flight') /\ FlightInv'
  BY TurnedKeeps DEF Commit, Turned
<1>2. flight[s] \in Flights /\ stored \in [Boards -> StoredCards \cup {None}]
  BY DEF Commit, Is, WorkerInv, WTypeOK
<1>3. [image |-> flight[s].image, conflict |-> FALSE] \in StoredCards
  BY <1>2 DEF Flights, StoredCards
<1>4. stored' \in [Boards -> StoredCards \cup {None}]
  BY <1>2, <1>3 DEF Commit
<1> QED BY <1>1, <1>4 DEF Commit, WorkerInv, WTypeOK, Held, Flying, QemuInv, CommandInv, At, qemuVars

LEMMA LoseKeeps ==
  ASSUME WorkerInv, NEW s \in Savers, Lose(s)
  PROVE  WorkerInv'
<1>1. Flying(flight') /\ FlightInv'
  BY TurnedKeeps DEF Lose, Turned
<1> QED BY <1>1 DEF Lose, WorkerInv, WTypeOK, Held, Flying, QemuInv, CommandInv, At, qemuVars

(* The interval saves the guest's card.                                    *)
LEMMA Fired ==
  ASSUME WorkerInv, NEW t \in Timers, TimerFires(t)
  PROVE  /\ Flying(flight') /\ active \in Boards /\ active # None
         /\ flight'[t] # None /\ flight'[t].board = active /\ flight'[t].state = "open"
         /\ \A r \in Savers \ {t} : flight'[r] = flight[r]
<1>1. active \in Boards /\ active # None /\ instance.sd \in Images
  BY DEF TimerFires, SaveNeeded, GuestCard, WorkerInv, WTypeOK, QemuInv, Instances
<1>2. flight' = Begun(flight, t, active, instance.sd)
  BY DEF TimerFires, Open, Begun
<1>3. Flying(flight) /\ t \in Savers
  BY CmdSaver DEF WorkerInv, WTypeOK, Flying
<1> QED BY <1>1, <1>2, <1>3, FlightBegun

LEMMA TimerFiresKeeps ==
  ASSUME WorkerInv, NEW t \in Timers, TimerFires(t)
  PROVE  WorkerInv'
<1>1. /\ Flying(flight') /\ active # None /\ \A r \in Savers \ {t} : flight'[r] = flight[r]
  BY Fired
<1>2. UNCHANGED <<queue, cmd, qemuVars, editable, stored, replies>>
  BY DEF TimerFires
<1>3. FlightInv'
  BY <1>1, <1>2, CmdSaver DEF WorkerInv, FlightInv, At, qemuVars
<1> QED BY <1>1, <1>2, <1>3 DEF WorkerInv, WTypeOK, Held, Flying, QemuInv, CommandInv, At, qemuVars

LEMMA Returned ==
  ASSUME WorkerInv, NEW t \in Timers, TimerReturns(t)
  PROVE  /\ Flying(flight') /\ flight'[t] = None /\ \A r \in Savers \ {t} : flight'[r] = flight[r]
         /\ active # None /\ active \in Boards
         /\ editable' = editable \/ (editable' = GuestCached(t) /\ GuestCached(t) \in Cards)
         /\ cmd = None => cmd' = None
         /\ cmd # None => /\ cmd' \in Runs /\ cmd' # None /\ cmd'.step = cmd.step
                          /\ cmd'.request = cmd.request /\ cmd'.card = cmd.card
<1>1. Flying(flight) /\ t \in Savers /\ flight[t] # None /\ active # None /\ active \in Boards
  BY CmdSaver DEF TimerReturns, Is, WorkerInv, WTypeOK, Flying, FlightInv
<1>2. flight' = Ended(flight, t)
  BY DEF TimerReturns, Close, Ended
<1>3. Flying(flight') /\ flight'[t] = None /\ \A r \in Savers \ {t} : flight'[r] = flight[r]
  BY <1>1, <1>2, FlightOver
<1>4. editable' = editable \/ (editable' = GuestCached(t) /\ GuestCached(t) \in Cards)
  BY <1>1, GuestCachedCard DEF TimerReturns
<1>5. cmd = None => cmd' = None
  BY DEF TimerReturns
<1>6. ASSUME cmd # None PROVE cmd' = cmd \/ cmd' = [step |-> cmd.step, request |-> cmd.request, card |-> cmd.card, shared |-> FALSE]
  <2>1. cmd \in Runs
    BY <1>6, Busy DEF WorkerInv
  <2> QED BY <1>6, <2>1 DEF TimerReturns, Runs
<1>7. ASSUME cmd # None
      PROVE  /\ cmd' \in Runs /\ cmd' # None /\ cmd'.step = cmd.step
             /\ cmd'.request = cmd.request /\ cmd'.card = cmd.card
  <2>1. cmd \in Runs /\ cmd.step \in Steps /\ cmd.card \in Cards \cup {None} /\ FALSE \in BOOLEAN
    BY <1>7, Busy DEF WorkerInv
  <2>2. CASE cmd' = cmd
    BY <1>7, <2>1, <2>2
  <2>3. CASE cmd' = [step |-> cmd.step, request |-> cmd.request, card |-> cmd.card, shared |-> FALSE]
    <3>1. PICK shared \in BOOLEAN :
            cmd' = [step |-> cmd.step, request |-> cmd.request, card |-> cmd.card, shared |-> shared]
      BY <2>3
    <3> QED BY <2>1, <3>1, CommandGoesOn
  <2> QED BY <1>6, <1>7, <2>2, <2>3
<1> QED BY <1>1, <1>3, <1>4, <1>5, <1>7

LEMMA TimerReturnsKeeps ==
  ASSUME WorkerInv, NEW t \in Timers, TimerReturns(t)
  PROVE  WorkerInv'
<1>1. /\ Flying(flight') /\ flight'[t] = None /\ \A r \in Savers \ {t} : flight'[r] = flight[r]
      /\ editable' = editable \/ (editable' = GuestCached(t) /\ GuestCached(t) \in Cards)
      /\ cmd = None => cmd' = None
      /\ cmd # None => /\ cmd' \in Runs /\ cmd' # None /\ cmd'.step = cmd.step
                       /\ cmd'.request = cmd.request /\ cmd'.card = cmd.card
  BY Returned
<1>2. UNCHANGED <<queue, qemuVars, stored, replies>>
  BY DEF TimerReturns
<1>3. editable' \in Cards \cup {None}
  BY <1>1 DEF WorkerInv, WTypeOK
<1>4. FlightInv'
  BY <1>1, <1>2, CmdSaver DEF WorkerInv, FlightInv, At, qemuVars
<1>5. CommandInv'
  BY <1>1, <1>2 DEF WorkerInv, CommandInv, At, qemuVars
<1>6. (Held <= MaxQueue)' /\ cmd' \in Runs \cup {None}
  BY <1>1, <1>2 DEF WorkerInv, WTypeOK, Held
<1> QED BY <1>1, <1>2, <1>3, <1>4, <1>5, <1>6 DEF WorkerInv, WTypeOK, Flying, QemuInv, qemuVars

LEMMA ReceiveKeeps ==
  ASSUME WorkerInv, NEW c \in Commands, Receive(c)
  PROVE  WorkerInv'
<1>1. c \in [id : Ids, type : Types, board : Boards \cup {None}, image : Images \cup {None}]
  BY DEF Commands
<1>2. CASE Held >= MaxQueue
  <2>1. [id |-> c.id, ok |-> FALSE, type |-> c.type] \in Results
    BY <1>1 DEF Results
  <2>2. replies' \in Seq(Results)
    BY <1>2, <2>1, AppendProperties DEF Receive, Reply, WorkerInv, WTypeOK
  <2>3. UNCHANGED <<queue, cmd, qemuVars, editable, flight, stored>>
    BY <1>2 DEF Receive
  <2> QED BY <2>2, <2>3 DEF WorkerInv, WTypeOK, Held, QemuInv, CommandInv, FlightInv, At, qemuVars
<1>3. CASE ~ (Held >= MaxQueue)
  <2>1. queue' = Append(queue, c) /\ UNCHANGED <<replies, cmd, qemuVars, editable, flight, stored>>
    BY <1>3 DEF Receive
  <2>2. queue' \in Seq(Commands) /\ Len(queue') = Len(queue) + 1 /\ Len(queue) \in Nat
    BY <2>1, AppendProperties, LenProperties DEF WorkerInv, WTypeOK
  <2>3. (Held <= MaxQueue)'
    BY <1>3, <2>1, <2>2, WorkerAssumption DEF Held
  <2> QED BY <2>1, <2>2, <2>3 DEF WorkerInv, WTypeOK, QemuInv, CommandInv, FlightInv, At, qemuVars
<1> QED BY <1>2, <1>3

(* A new worker, and one that was terminated.                              *)
LEMMA TerminatedKeeps ==
  ASSUME Terminated, stored' \in [Boards -> StoredCards \cup {None}]
  PROVE  WorkerInv'
<1>1. queue' \in Seq(Commands) /\ Len(queue') = 0 /\ replies' \in Seq(Results)
  BY EmptySeq DEF Terminated
<1>4. (Held <= MaxQueue)'
  BY <1>1, WorkerAssumption DEF Terminated, Held
<1>5. flight' \in [Savers -> Flights \cup {None}]
  BY DEF Terminated
<1>2. WTypeOK'
  BY <1>1, <1>4, <1>5 DEF Terminated, WTypeOK
<1>3. \A s \in Savers : flight'[s] = None
  BY DEF Terminated
<1> QED BY <1>2, <1>3, CmdSaver DEF Terminated, WorkerInv, QemuInv, CommandInv, FlightInv

LEMMA WorkKeeps ==
  ASSUME WorkerInv, Handle \/ Save \/ Persist \/ GuestWrites
  PROVE  WorkerInv'
<1>1. CASE Handle
  BY <1>1, BeginKeeps, BeginCardKeeps, BeginStartKeeps, BeginStopKeeps, LoadKeeps, AssignKeeps, EditKeeps,
     EditSavedKeeps, ImportKeeps, ImportSavedKeeps, PrepareKeeps, LoadModuleKeeps, StartMainKeeps,
     StopSavedKeeps DEF Handle
<1>2. CASE Save
  BY <1>2, CommitKeeps, LoseKeeps DEF Save
<1>3. CASE Persist
  BY <1>3, TimerFiresKeeps, TimerReturnsKeeps DEF Persist
<1> QED BY <1>1, <1>2, <1>3, GuestWritesKeeps

----------------------------------------------------------------------------
(* No card of another template is touched but by an import.                *)
Fine(card) == card.conflict \/ Clean(card.board)

LEMMA CardsAre == \A card \in Cards : card # None
  BY NoneAssumption

(* A handler that answers.                                                 *)
LEMMA CleanAnswered ==
  ASSUME WorkerInv, CleanInv, cmd' = None, UNCHANGED <<active, stored>>,
         \/ flight' = flight /\ flight["cmd"] = None
         \/ flight'["cmd"] = None /\ \A t \in Timers : flight'[t] = flight[t],
         editable' = editable \/ (editable' # None => Fine(editable'))
  PROVE  CleanInv'
<1>1. \A t \in Timers : flight'[t] = flight[t]
  OBVIOUS
<1>2. flight'["cmd"] = None
  OBVIOUS
<1>3. editable' # None => editable'.conflict \/ (stored'[editable'.board] # None => ~ stored'[editable'.board].conflict)
  BY DEF CleanInv, Fine, Clean
<1>4. \A s \in Savers : flight'[s] # None =>
        (stored'[flight'[s].board] # None => ~ stored'[flight'[s].board].conflict)
  BY <1>1, <1>2, CmdSaver DEF CleanInv, CleanFlights, Clean, Savers
<1> QED BY <1>3, <1>4 DEF CleanInv, CleanFlights, Clean

(* One that goes on with a card.                                           *)
LEMMA CleanGoesOn ==
  ASSUME WorkerInv, CleanInv, cmd # None, cmd' # None, flight["cmd"] = None,
         cmd'.card # None => Fine(cmd'.card), UNCHANGED <<active, flight, stored>>,
         editable' = editable \/ (editable' # None => Fine(editable'))
  PROVE  CleanInv'
<1>3. editable' # None => editable'.conflict \/ (stored'[editable'.board] # None => ~ stored'[editable'.board].conflict)
  BY DEF CleanInv, Fine, Clean
<1>4. \A s \in Savers : flight'[s] # None =>
        (stored'[flight'[s].board] # None => ~ stored'[flight'[s].board].conflict)
  BY CmdSaver DEF CleanInv, CleanFlights, Clean
<1>5. cmd'.card # None => cmd'.card.conflict \/ (stored'[cmd'.card.board] # None => ~ stored'[cmd'.card.board].conflict)
  BY DEF Fine, Clean
<1> QED BY <1>3, <1>4, <1>5 DEF CleanInv, CleanFlights, Clean

(* One that begins a save of a board that is clean, or an import.          *)
LEMMA CleanBegins ==
  ASSUME WorkerInv, CleanInv, cmd # None, cmd' # None, flight'["cmd"] # None,
         Clean(flight'["cmd"].board) \/ (cmd'.request.type = "import" /\ ~ Is("cmd", "saved")'),
         \A t \in Timers : flight'[t] = flight[t],
         cmd'.card # None => Fine(cmd'.card), UNCHANGED <<active, stored>>,
         editable' = editable \/ (editable' # None => Fine(editable'))
  PROVE  CleanInv'
<1>3. editable' # None => editable'.conflict \/ (stored'[editable'.board] # None => ~ stored'[editable'.board].conflict)
  BY DEF CleanInv, Fine, Clean
<1>4. \A t \in Timers : flight'[t] # None =>
        (stored'[flight'[t].board] # None => ~ stored'[flight'[t].board].conflict)
  BY CmdSaver DEF CleanInv, CleanFlights, Clean
<1>5. cmd'.card # None => cmd'.card.conflict \/ (stored'[cmd'.card.board] # None => ~ stored'[cmd'.card.board].conflict)
  BY DEF Fine, Clean
<1>6. \/ (stored'[flight'["cmd"].board] # None => ~ stored'[flight'["cmd"].board].conflict)
      \/ cmd'.request.type = "import" /\ ~ Is("cmd", "saved")'
  BY DEF Clean
<1>7. \A s \in Savers : s \in Timers \/ s = "cmd"
  BY DEF Savers
<1>8. CleanFlights'
  BY <1>4, <1>6, <1>7 DEF CleanFlights, Clean
<1> QED BY <1>3, <1>5, <1>8 DEF CleanInv, Clean

LEMMA BeginClean ==
  ASSUME WorkerInv, CleanInv, Begin
  PROVE  CleanInv'
<1>1. cmd = None /\ cmd'.card = None /\ UNCHANGED <<active, editable, flight, stored>>
  BY DEF Begin, qemuVars
<1>2. flight["cmd"] = None
  BY <1>1, NoFlight
<1> QED BY <1>1, <1>2 DEF CleanInv, CleanFlights, Clean, Is

LEMMA BeginningsClean ==
  ASSUME WorkerInv, CleanInv, BeginCard \/ BeginStart
  PROVE  CleanInv'
<1>1. cmd # None /\ cmd.step = "begin" /\ WTypeOK /\ UNCHANGED <<queue, active, editable, flight, stored>>
  BY DEF BeginCard, BeginStart, At, WorkerInv, qemuVars
<1>2. flight["cmd"] = None
  BY <1>1, NoFlight
<1>3. cmd' = None \/ Goto("load")
  BY DEF BeginCard, BeginStart, Settle
<1>4. CASE cmd' = None
  BY <1>1, <1>2, <1>4, CleanAnswered
<1>5. CASE Goto("load")
  <2>1. "load" \in Steps
    BY DEF Steps
  <2>2. cmd' # None /\ cmd'.card = cmd.card
    BY <1>1, <1>5, <2>1, Goes
  <2> QED BY <1>1, <1>2, <2>2, CleanGoesOn DEF CleanInv, Fine
<1> QED BY <1>3, <1>4, <1>5

LEMMA BeginStopClean ==
  ASSUME WorkerInv, CleanInv, BeginStop
  PROVE  CleanInv'
<1>1. cmd # None /\ cmd.step = "begin" /\ cmd.request.type = "stop" /\ WTypeOK /\ UNCHANGED <<queue, editable, stored>>
  BY DEF BeginStop, At, WorkerInv
<1>2. flight["cmd"] = None
  BY <1>1, NoFlight
<1>3. CASE SaveNeeded
  <2>1. UNCHANGED active /\ Goto("save") /\ "save" \in Steps
    BY <1>3 DEF BeginStop, qemuVars, Steps
  <2>2. cmd' # None /\ cmd'.card = cmd.card
    BY <1>1, <2>1, Goes
  <2>3. active \in Boards /\ active # None /\ instance.sd \in Images
    BY <1>3 DEF SaveNeeded, GuestCard, WorkerInv, WTypeOK, QemuInv, Instances
  <2>4. flight' = Begun(flight, "cmd", active, instance.sd)
    BY <1>3 DEF BeginStop, Open, Begun
  <2>5. Flying(flight) /\ "cmd" \in Savers
    BY <1>1, CmdSaver DEF WTypeOK, Flying
  <2>6. /\ flight'["cmd"] # None /\ flight'["cmd"].board = active
        /\ \A r \in Savers \ {"cmd"} : flight'[r] = flight[r]
    BY <2>3, <2>4, <2>5, FlightBegun
  <2>7. Clean(flight'["cmd"].board)
    BY <2>3, <2>6 DEF CleanInv
  <2>8. \A t \in Timers : flight'[t] = flight[t]
    BY <2>6, CmdSaver
  <2>9. cmd'.card # None => Fine(cmd'.card)
    BY <1>1, <2>2 DEF CleanInv, Fine
  <2> QED BY <1>1, <2>1, <2>2, <2>6, <2>7, <2>8, <2>9, CleanBegins
<1>4. CASE ~ SaveNeeded
  <2>1. cmd' = None /\ UNCHANGED <<active, flight>>
    BY <1>4 DEF BeginStop, Shutdown, Settle
  <2> QED BY <1>1, <1>2, <2>1, CleanAnswered
<1> QED BY <1>3, <1>4

LEMMA LoadedClean ==
  ASSUME WorkerInv, CleanInv, cmd # None, cmd.step # "save", NEW card \in Cards, Fine(card), Loaded(card),
         UNCHANGED <<active, flight, stored>>,
         editable' = editable \/ (editable' # None => Fine(editable'))
  PROVE  CleanInv'
<1>1. flight["cmd"] = None
  BY NoFlight
<1>2. cmd' = None \/ cmd' = [cmd EXCEPT !.card = card, !.shared = TRUE,
                             !.step = IF cmd.request.type = "start" THEN "prepare" ELSE "edit"]
  BY DEF Loaded, Settle
<1>3. CASE cmd' = None
  BY <1>1, <1>3, CleanAnswered
<1>4. CASE cmd' = [cmd EXCEPT !.card = card, !.shared = TRUE,
                             !.step = IF cmd.request.type = "start" THEN "prepare" ELSE "edit"]
  <2>1. cmd \in Runs
    BY Busy DEF WorkerInv
  <2>2. cmd'.card = card /\ cmd' \in Runs
    BY <1>4, <2>1 DEF Runs, Steps
  <2>3. cmd' # None
    BY <2>2, NoneAssumption
  <2> QED BY <1>1, <2>2, <2>3, CleanGoesOn
<1> QED BY <1>2, <1>3, <1>4

LEMMA LoadClean ==
  ASSUME WorkerInv, CleanInv, Load
  PROVE  CleanInv'
<1>1. /\ cmd # None /\ WTypeOK /\ cmd.step = "load" /\ cmd.request.type \in {"start", "edit", "read"}
      /\ UNCHANGED <<active, editable, flight, stored>>
  BY DEF Load, At, WorkerInv, qemuVars
<1>2. flight["cmd"] = None /\ cmd.request.board \in Boards
  BY <1>1, Busy, NoFlight
<1>3. CASE Cached(cmd.request.board)
  <2>1. editable \in Cards /\ Fine(editable) /\ Loaded(editable)
    BY <1>1, <1>3 DEF Cached, WTypeOK, Load, CleanInv, Fine
  <2> QED BY <1>1, <2>1, LoadedClean
<1>4. CASE cmd' = None
  BY <1>1, <1>2, <1>4, CleanAnswered
<1>5. PICK card : card = Fetched(cmd.request.board)
  OBVIOUS
<1>6. CASE cmd' = [cmd EXCEPT !.step = "assign", !.card = card]
  <2>1. card \in Cards /\ Fine(card)
    BY <1>1, <1>2, <1>5, FetchedCard DEF Fine
  <2>2. cmd \in Runs
    BY <1>1, Busy
  <2>3. cmd'.card = card /\ cmd' \in Runs
    BY <1>6, <2>1, <2>2 DEF Runs, Steps
  <2>4. cmd' # None
    BY <2>3, NoneAssumption
  <2> QED BY <1>1, <1>2, <2>1, <2>3, <2>4, CleanGoesOn
<1> QED BY <1>3, <1>4, <1>5, <1>6 DEF Load, Settle

LEMMA AssignClean ==
  ASSUME WorkerInv, CleanInv, Assign
  PROVE  CleanInv'
<1>1. /\ cmd # None /\ WTypeOK /\ cmd.step = "assign" /\ UNCHANGED <<active, flight, stored>>
      /\ editable' = cmd.card /\ Loaded(cmd.card)
  BY DEF Assign, At, WorkerInv, qemuVars
<1>2. cmd.card \in Cards /\ Fine(cmd.card)
  BY <1>1, Busy DEF WorkerInv, CommandInv, CleanInv, Fine
<1> QED BY <1>1, <1>2, LoadedClean

LEMMA PrepareClean ==
  ASSUME WorkerInv, CleanInv, Prepare
  PROVE  CleanInv'
<1>1. cmd # None /\ WTypeOK /\ cmd.step = "prepare" /\ UNCHANGED <<active, flight, stored>>
  BY DEF Prepare, At, WorkerInv, qemuVars
<1>2. cmd.card \in Cards /\ flight["cmd"] = None /\ Fine(cmd.card)
  BY <1>1, Busy, NoFlight DEF WorkerInv, CommandInv, CleanInv, Fine
<1>3. PICK card : card = Moved(cmd.card)
  OBVIOUS
<1>4. card \in Cards /\ Fine(card)
  BY <1>2, <1>3, LocatedCard DEF Fine
<1>5. \/ cmd' = None /\ UNCHANGED editable
      \/ SetCard(card) /\ cmd' = [cmd EXCEPT !.step = "module", !.card = card]
  BY <1>3 DEF Prepare, Settle, Moved
<1>6. CASE cmd' = None /\ UNCHANGED editable
  BY <1>1, <1>2, <1>6, CleanAnswered
<1>7. CASE SetCard(card) /\ cmd' = [cmd EXCEPT !.step = "module", !.card = card]
  <2>1. cmd \in Runs
    BY <1>1, Busy
  <2>2. cmd'.card = card /\ cmd' \in Runs
    BY <1>4, <1>7, <2>1 DEF Runs, Steps
  <2>3. cmd' # None
    BY <2>2, NoneAssumption
  <2>4. editable' = editable \/ Fine(editable')
    BY <1>4, <1>7 DEF SetCard
  <2> QED BY <1>1, <1>2, <1>4, <2>2, <2>3, <2>4, CleanGoesOn
<1> QED BY <1>5, <1>6, <1>7

LEMMA EditClean ==
  ASSUME WorkerInv, CleanInv, Edit
  PROVE  CleanInv'
<1>1. cmd # None /\ WTypeOK /\ cmd.step = "edit" /\ cmd.request.type = "edit" /\ UNCHANGED <<active, stored>>
  BY DEF Edit, At, WorkerInv, qemuVars
<1>2. /\ cmd.card \in Cards /\ flight["cmd"] = None /\ Clean(cmd.card.board)
      /\ cmd.card.board \in Boards
  BY <1>1, Busy, NoFlight DEF WorkerInv, CommandInv, CleanInv
<1>3. PICK f \in Files :
        /\ SetCard(Edited(cmd.card, f))
        /\ \/ /\ Open("cmd", Edited(cmd.card, f).board, Edited(cmd.card, f).image)
              /\ cmd' = [cmd EXCEPT !.step = "save", !.card = Edited(cmd.card, f)]
           \/ cmd' = None /\ UNCHANGED flight
  BY DEF Edit, Edited, Settle
<1>4. PICK card : card = Edited(cmd.card, f)
  OBVIOUS
<1>5. card \in Cards /\ card.board = cmd.card.board /\ card.image \in Images /\ Fine(card)
  BY <1>2, <1>4, EditedCard DEF Fine
<1>6. editable' = editable \/ Fine(editable')
  BY <1>3, <1>4, <1>5 DEF SetCard
<1>7. CASE cmd' = None /\ UNCHANGED flight
  BY <1>1, <1>2, <1>6, <1>7, CleanAnswered
<1>8. CASE Open("cmd", card.board, card.image) /\ cmd' = [cmd EXCEPT !.step = "save", !.card = card]
  <2>1. cmd \in Runs
    BY <1>1, Busy
  <2>2. cmd'.card = card /\ cmd' \in Runs
    BY <1>5, <1>8, <2>1 DEF Runs, Steps
  <2>3. cmd' # None
    BY <2>2, NoneAssumption
  <2>4. flight' = Begun(flight, "cmd", card.board, card.image)
    BY <1>8 DEF Open, Begun
  <2>5. Flying(flight) /\ "cmd" \in Savers
    BY <1>1, CmdSaver DEF WTypeOK, Flying
  <2>6. /\ flight'["cmd"] # None /\ flight'["cmd"].board = card.board
        /\ \A r \in Savers \ {"cmd"} : flight'[r] = flight[r]
    BY <1>2, <1>5, <2>4, <2>5, FlightBegun
  <2>7. Clean(flight'["cmd"].board)
    BY <1>2, <1>5, <2>6
  <2>8. \A t \in Timers : flight'[t] = flight[t]
    BY <2>6, CmdSaver
  <2> QED BY <1>1, <1>5, <1>6, <2>2, <2>3, <2>6, <2>7, <2>8, CleanBegins
<1> QED BY <1>3, <1>4, <1>7, <1>8

LEMMA EditSavedClean ==
  ASSUME WorkerInv, CleanInv, EditSaved
  PROVE  CleanInv'
<1>1. /\ cmd # None /\ WTypeOK /\ cmd.step = "save" /\ cmd.request.type = "edit" /\ At("save", {"edit"})
      /\ UNCHANGED <<active, stored>> /\ cmd' = None
  BY DEF EditSaved, At, WorkerInv, qemuVars, Settle
<1>2. cmd.card \in Cards /\ Fine(cmd.card)
  BY <1>1, Busy DEF WorkerInv, CommandInv, CleanInv, Fine
<1>3. PICK card : card = Kept(cmd.card)
  OBVIOUS
<1>4. card \in Cards /\ Fine(card)
  BY <1>2, <1>3, SavedCard DEF Fine
<1>5. SetCard(card) \/ UNCHANGED editable
  BY <1>3 DEF EditSaved, Kept
<1>6. editable' = editable \/ Fine(editable')
  BY <1>4, <1>5 DEF SetCard
<1>7. flight'["cmd"] = None /\ \A t \in Timers : flight'[t] = flight[t]
  BY <1>1, Closed DEF EditSaved
<1> QED BY <1>1, <1>6, <1>7, CleanAnswered

LEMMA ImportClean ==
  ASSUME WorkerInv, CleanInv, Import
  PROVE  CleanInv'
<1>1. /\ cmd # None /\ WTypeOK /\ cmd.step = "begin" /\ cmd.request.type = "import"
      /\ UNCHANGED <<queue, active, editable, stored>>
  BY DEF Import, At, WorkerInv, qemuVars
<1>2. flight["cmd"] = None /\ cmd.request.board \in Boards /\ cmd.request.image \in Images
  BY <1>1, Busy, NoFlight
<1>3. CASE cmd' = None /\ UNCHANGED flight
  BY <1>1, <1>2, <1>3, CleanAnswered
<1>4. CASE Open("cmd", cmd.request.board, cmd.request.image) /\ Goto("save")
  <2>1. "save" \in Steps
    BY DEF Steps
  <2>2. cmd' # None /\ cmd'.card = cmd.card /\ cmd'.request = cmd.request
    BY <1>1, <1>4, <2>1, Goes
  <2>3. flight' = Begun(flight, "cmd", cmd.request.board, cmd.request.image)
    BY <1>4 DEF Open, Begun
  <2>4. Flying(flight) /\ "cmd" \in Savers
    BY <1>1, CmdSaver DEF WTypeOK, Flying
  <2>5. /\ flight'["cmd"] # None /\ flight'["cmd"].state = "open"
        /\ \A r \in Savers \ {"cmd"} : flight'[r] = flight[r]
    BY <1>2, <2>3, <2>4, FlightBegun
  <2>6. cmd'.request.type = "import" /\ ~ Is("cmd", "saved")'
    BY <1>1, <2>2, <2>5 DEF Is
  <2>7. \A t \in Timers : flight'[t] = flight[t]
    BY <2>5, CmdSaver
  <2>8. cmd'.card # None => Fine(cmd'.card)
    BY <1>1, <2>2 DEF CleanInv, Fine
  <2> QED BY <1>1, <2>2, <2>5, <2>6, <2>7, <2>8, CleanBegins
<1> QED BY <1>3, <1>4 DEF Import, Settle

LEMMA ImportSavedClean ==
  ASSUME WorkerInv, CleanInv, ImportSaved
  PROVE  CleanInv'
<1>1. /\ cmd # None /\ WTypeOK /\ cmd.step = "save" /\ cmd.request.type = "import"
      /\ UNCHANGED <<active, stored>> /\ cmd' = None
  BY DEF ImportSaved, At, WorkerInv, qemuVars, Settle
<1>2. flight'["cmd"] = None /\ \A t \in Timers : flight'[t] = flight[t]
  BY <1>1, Closed DEF ImportSaved
<1>3. editable' = editable \/ Fine(editable')
  <2>1. Is("cmd", "saved") => Clean(cmd.request.board)
    BY <1>1, CmdSaver DEF Is, CleanInv, CleanFlights, WorkerInv, FlightInv
  <2>2. \/ UNCHANGED editable
        \/ /\ Is("cmd", "saved")
           /\ editable' = [board |-> cmd.request.board, image |-> cmd.request.image,
                           persisted |-> TRUE, known |-> TRUE, conflict |-> FALSE]
    BY DEF ImportSaved
  <2>3. UNCHANGED editable \/ (Is("cmd", "saved") /\ editable'.board = cmd.request.board)
    BY <2>2
  <2> QED BY <2>1, <2>3 DEF Fine
<1> QED BY <1>1, <1>2, <1>3, CleanAnswered

LEMMA StopSavedClean ==
  ASSUME WorkerInv, CleanInv, StopSaved
  PROVE  CleanInv'
<1>1. /\ cmd # None /\ WTypeOK /\ cmd.step = "save" /\ cmd.request.type = "stop"
      /\ UNCHANGED <<active, stored>> /\ cmd' = None
  BY DEF StopSaved, At, WorkerInv, Shutdown, Settle
<1>2. flight'["cmd"] = None /\ \A t \in Timers : flight'[t] = flight[t]
  BY <1>1, Closed DEF StopSaved
<1>3. editable' = editable \/ Fine(editable')
  <2>1. flight["cmd"] # None => active # None
    BY <1>1 DEF WorkerInv, FlightInv
  <2>2. UNCHANGED editable \/ (flight["cmd"] # None /\ editable' = GuestCached("cmd"))
    BY DEF StopSaved, Is
  <2> QED BY <2>1, <2>2, CmdSaver, GuestCachedCard DEF Fine, CleanInv
<1> QED BY <1>1, <1>2, <1>3, CleanAnswered

LEMMA LoadModuleClean ==
  ASSUME WorkerInv, CleanInv, LoadModule
  PROVE  CleanInv'
<1>1. cmd # None /\ WTypeOK /\ cmd.step = "module" /\ UNCHANGED <<queue, editable, flight, stored>>
  BY DEF LoadModule, At, WorkerInv
<1>2. flight["cmd"] = None /\ cmd.card \in Cards /\ Clean(cmd.card.board)
  BY <1>1, Busy, NoFlight DEF WorkerInv, CommandInv, CleanInv
<1>3. active' = active \/ active' = cmd.card.board
  BY DEF LoadModule
<1>4. active' # None => Clean(active')
  BY <1>2, <1>3 DEF CleanInv
<1>5. cmd' = None \/ (cmd' # None /\ cmd'.card = cmd.card)
  <2>1. "main" \in Steps /\ (cmd' = None \/ Goto("main"))
    BY DEF LoadModule, Settle, Steps
  <2> QED BY <1>1, <2>1, Goes
<1>6. CleanFlights'
  BY <1>1, <1>2, CmdSaver DEF CleanInv, CleanFlights, Clean
<1> QED BY <1>1, <1>4, <1>5, <1>6 DEF CleanInv, Clean

LEMMA StartMainClean ==
  ASSUME WorkerInv, CleanInv, StartMain
  PROVE  CleanInv'
<1>1. cmd # None /\ cmd.step = "main" /\ UNCHANGED <<active, editable, flight, stored>> /\ cmd' = None
  BY DEF StartMain, At, Settle
<1>2. flight["cmd"] = None
  BY <1>1, NoFlight
<1> QED BY <1>1, <1>2, CleanAnswered

LEMMA GuestWritesClean ==
  ASSUME CleanInv, GuestWrites
  PROVE  CleanInv'
  BY DEF GuestWrites, CleanInv, CleanFlights, Clean, Is

(* A save that commits leaves its board clean, and no other board worse.   *)
LEMMA Committed ==
  ASSUME WorkerInv, NEW s \in Savers, Commit(s)
  PROVE  /\ flight[s] # None /\ flight[s].board \in Boards
         /\ stored'[flight[s].board] # None /\ ~ stored'[flight[s].board].conflict
         /\ stored'[flight[s].board].image = flight[s].image
         /\ \A b \in Boards : b # flight[s].board => stored'[b] = stored[b]
         /\ \A b \in Boards : Clean(b) => Clean(b)'
<1>1. flight[s] # None /\ flight[s] \in Flights /\ stored \in [Boards -> StoredCards \cup {None}]
  BY DEF Commit, Is, WorkerInv, WTypeOK
<1>2. PICK card : card = [image |-> flight[s].image, conflict |-> FALSE]
  OBVIOUS
<1>3. card \in StoredCards /\ card.image = flight[s].image /\ ~ card.conflict /\ flight[s].board \in Boards
  BY <1>1, <1>2 DEF Flights, StoredCards
<1>4. card # None
  BY <1>3, NoneAssumption
<1>5. stored' = [stored EXCEPT ![flight[s].board] = card]
  BY <1>2 DEF Commit
<1>6. \A b \in Boards : b # flight[s].board => stored'[b] = stored[b]
  BY <1>1, <1>5
<1>7. stored'[flight[s].board] = card
  BY <1>1, <1>3, <1>5
<1>8. \A b \in Boards : Clean(b) => Clean(b)'
  BY <1>3, <1>6, <1>7 DEF Clean
<1> QED BY <1>1, <1>3, <1>4, <1>6, <1>7, <1>8


LEMMA CommitClean ==
  ASSUME WorkerInv, CleanInv, NEW s \in Savers, Commit(s)
  PROVE  CleanInv'
<1>1. /\ flight[s] # None /\ flight[s].board \in Boards
      /\ stored'[flight[s].board] # None /\ ~ stored'[flight[s].board].conflict
      /\ \A b \in Boards : Clean(b) => Clean(b)'
  BY Committed
<1>2. UNCHANGED <<active, editable, cmd>>
  BY DEF Commit, qemuVars
<1>3. /\ flight'[s] # None /\ flight'[s].board = flight[s].board /\ flight'[s].state = "saved"
      /\ \A r \in Savers \ {s} : flight'[r] = flight[r]
  BY TurnedKeeps DEF Commit, Turned
<1>4. \A r \in Savers : flight[r] # None => flight[r].board \in Boards
  BY DEF WorkerInv, WTypeOK, Flights
<1>5. CleanFlights'
  <2> SUFFICES ASSUME NEW r \in Savers, flight'[r] # None
               PROVE  \/ stored'[flight'[r].board] # None => ~ stored'[flight'[r].board].conflict
                      \/ r = "cmd" /\ cmd'.request.type = "import" /\ ~ Is("cmd", "saved")'
    BY DEF CleanFlights, Clean
  <2>1. CASE r = s
    BY <1>1, <1>3, <2>1
  <2>2. CASE r # s
    <3>1. flight'[r] = flight[r]
      BY <1>3, <2>2
    <3>2. CASE Clean(flight[r].board)
      BY <1>1, <1>4, <3>1, <3>2 DEF Clean
    <3>3. CASE r = "cmd" /\ cmd.request.type = "import" /\ ~ Is("cmd", "saved")
      BY <1>2, <3>1, <3>3 DEF Is
    <3> QED BY <3>1, <3>2, <3>3 DEF CleanInv, CleanFlights
  <2> QED BY <2>1, <2>2
<1>6. active \in Boards \cup {None} /\ editable \in Cards \cup {None} /\ (cmd # None => cmd.card \in Cards \cup {None})
  BY Busy DEF WorkerInv, WTypeOK
<1>7. (active # None => Clean(active))'
  BY <1>1, <1>2, <1>6 DEF CleanInv, Clean
<1>8. (editable # None => editable.conflict \/ Clean(editable.board))'
  <2>1. editable # None => editable.board \in Boards
    BY <1>6 DEF Cards
  <2> QED BY <1>1, <1>2, <2>1 DEF CleanInv, Clean
<1>9. (cmd # None /\ cmd.card # None => cmd.card.conflict \/ Clean(cmd.card.board))'
  <2>1. cmd # None /\ cmd.card # None => cmd.card.board \in Boards
    BY <1>6 DEF Cards
  <2> QED BY <1>1, <1>2, <2>1 DEF CleanInv, Clean
<1> QED BY <1>5, <1>7, <1>8, <1>9 DEF CleanInv

LEMMA LoseClean ==
  ASSUME WorkerInv, CleanInv, NEW s \in Savers, Lose(s)
  PROVE  CleanInv'
<1>1. UNCHANGED <<active, editable, cmd, stored>> /\ Is(s, "open")
  BY DEF Lose, qemuVars
<1>2. /\ flight'[s] # None /\ flight'[s].board = flight[s].board /\ flight'[s].state = "lost"
      /\ \A r \in Savers \ {s} : flight'[r] = flight[r]
  BY TurnedKeeps DEF Lose, Turned
<1>3. CleanFlights'
  BY <1>1, <1>2 DEF CleanInv, CleanFlights, Clean, Is
<1> QED BY <1>1, <1>3 DEF CleanInv, Clean

LEMMA PersistClean ==
  ASSUME WorkerInv, CleanInv, NEW t \in Timers, TimerFires(t) \/ TimerReturns(t)
  PROVE  CleanInv'
<1>1. UNCHANGED <<active, stored>>
  BY DEF TimerFires, TimerReturns, qemuVars
<1>2. CASE TimerFires(t)
  <2>1. /\ active # None /\ flight'[t].board = active
        /\ \A r \in Savers \ {t} : flight'[r] = flight[r]
    BY <1>2, Fired
  <2>2. UNCHANGED <<editable, cmd>>
    BY <1>2 DEF TimerFires
  <2>3. CleanFlights'
    BY <1>1, <2>1, <2>2, CmdSaver DEF CleanInv, CleanFlights, Clean, Is
  <2> QED BY <1>1, <2>2, <2>3 DEF CleanInv, Clean
<1>3. CASE TimerReturns(t)
  <2>1. /\ flight'[t] = None /\ \A r \in Savers \ {t} : flight'[r] = flight[r]
        /\ active # None /\ t \in Savers /\ flight[t] # None
        /\ editable' = editable \/ editable' = GuestCached(t)
        /\ cmd = None => cmd' = None
        /\ cmd # None => cmd' # None /\ cmd'.request = cmd.request /\ cmd'.card = cmd.card
    BY <1>3, Returned, CmdSaver DEF TimerReturns, Is
  <2>2. GuestCached(t).board = active
    BY <2>1, GuestCachedCard
  <2>3. editable' # None => editable'.conflict \/ Clean(editable'.board)
    BY <2>1, <2>2 DEF CleanInv
  <2>4. flight["cmd"] # None => cmd # None
    BY DEF WorkerInv, FlightInv, At
  <2>5. CleanFlights'
    BY <1>1, <2>1, <2>4, CmdSaver DEF CleanInv, CleanFlights, Clean, Is
  <2> QED BY <1>1, <2>1, <2>3, <2>5 DEF CleanInv, Clean
<1> QED BY <1>2, <1>3

LEMMA WorkClean ==
  ASSUME WorkerInv, CleanInv, Handle \/ Save \/ Persist \/ GuestWrites
  PROVE  CleanInv'
<1>1. CASE Handle
  BY <1>1, BeginClean, BeginningsClean, BeginStopClean, LoadClean, AssignClean, EditClean,
     EditSavedClean, ImportClean, ImportSavedClean, PrepareClean, LoadModuleClean, StartMainClean,
     StopSavedClean DEF Handle
<1>2. CASE Save
  BY <1>2, CommitClean, LoseClean DEF Save
<1>3. CASE Persist
  BY <1>3, PersistClean DEF Persist
<1> QED BY <1>1, <1>2, <1>3, GuestWritesClean

----------------------------------------------------------------------------
(* The host adapter around the worker.                                     *)
AdapterOK == pending \in SUBSET Commands /\ acked \in [Boards -> Acks \cup {None}]

LEMMA AckFields ==
  ASSUME AdapterOK, NEW b \in Boards, acked[b] # None
  PROVE  acked[b] \in Acks /\ acked[b].id \in Ids /\ acked[b].files \in Files /\ acked[b].told \in BOOLEAN
<1>1. acked[b] \in Acks
  BY DEF AdapterOK
<1> QED BY <1>1 DEF Acks

(* What Resolve makes of an acknowledgement.                               *)
Heard(a, i) == IF a # None /\ a.id = i THEN [a EXCEPT !.told = TRUE] ELSE a

LEMMA HeardAck ==
  ASSUME NEW a \in Acks \cup {None}, NEW i
  PROVE  /\ Heard(a, i) \in Acks \cup {None}
         /\ a # None => Heard(a, i) # None /\ Heard(a, i).id = a.id /\ Heard(a, i).files = a.files
         /\ a = None => Heard(a, i) = None
         /\ a # None /\ Heard(a, i).told => a.told \/ a.id = i
<1>1. CASE a # None /\ a.id = i
  <2> DEFINE e == [a EXCEPT !.told = TRUE]
  <2>1. a \in Acks
    BY <1>1
  <2>2. e \in Acks /\ e.id = a.id /\ e.files = a.files
    BY <2>1 DEF Acks
  <2>3. Heard(a, i) = e
    BY <1>1 DEF Heard
  <2>4. e # None
    BY <2>2, AcksAssumption
  <2> HIDE DEF e
  <2> QED BY <1>1, <2>2, <2>3, <2>4
<1>2. CASE ~ (a # None /\ a.id = i)
  <2>1. Heard(a, i) = a
    BY <1>2 DEF Heard
  <2> QED BY <1>2, <2>1
<1> QED BY <1>1, <1>2

LEMMA ResolveSays ==
  ASSUME AdapterOK, NEW r, Resolve(r)
  PROVE  AdapterOK' /\ \A b \in Boards : acked'[b] = Heard(acked[b], r.id)
<1>1. acked' = [b \in Boards |-> Heard(acked[b], r.id)]
  BY DEF Resolve, Heard
<1>2. \A b \in Boards : Heard(acked[b], r.id) \in Acks \cup {None}
  BY HeardAck DEF AdapterOK
<1>3. pending' \in SUBSET Commands
  BY DEF Resolve, AdapterOK
<1> QED BY <1>1, <1>2, <1>3 DEF AdapterOK

LEMMA WorksSays ==
  ASSUME WorkerInv, AdapterOK, Works
  PROVE  AdapterOK'
<1>1. \A b \in Boards : Acknowledged(b) \in Acks \cup {None}
  <2>1. TAKE b \in Boards
  <2>2. CASE Answers(b)
    <3>1. cmd # None /\ cmd.request.type \in {"edit", "import"}
      BY <2>2 DEF Answers, Changing, At
    <3>2. cmd.request.id \in Ids /\ cmd.request.image.files \in Files
      BY <3>1, Busy DEF WorkerInv, Images
    <3> QED BY <2>2, <3>2 DEF Acknowledged, Acks
  <2>3. CASE ~ Answers(b)
    BY <2>3 DEF Acknowledged, AdapterOK
  <2> QED BY <2>2, <2>3
<1>2. acked' = [b \in Boards |-> Acknowledged(b)] /\ UNCHANGED pending
  BY DEF Works
<1> QED BY <1>1, <1>2 DEF AdapterOK

LEMMA TerminateSays ==
  ASSUME AdapterOK, Terminate
  PROVE  AdapterOK'
  BY DEF AdapterOK, Terminate

----------------------------------------------------------------------------
(* Each request is in one place until it is answered.                      *)

(* A step of the worker takes a command up, answers it, or does neither.   *)
TakesUp == /\ cmd = None /\ queue # <<>> /\ cmd' # None /\ cmd'.request = Head(queue)
           /\ queue' = Tail(queue) /\ replies' = replies
AnswersIt == /\ cmd # None /\ cmd' = None /\ queue' = queue
             /\ \E ok \in BOOLEAN : Reply(cmd.request, ok)
Neither == /\ queue' = queue /\ replies' = replies
           /\ cmd = None => cmd' = None
           /\ cmd # None => cmd' # None /\ cmd'.request = cmd.request

LEMMA Settling ==
  ASSUME cmd # None, NEW ok \in BOOLEAN, Settle(ok), UNCHANGED queue
  PROVE  AnswersIt
  BY DEF Settle, AnswersIt

LEMMA GoingOn ==
  ASSUME WorkerInv, cmd # None, NEW step \in Steps, Goto(step), UNCHANGED queue
  PROVE  Neither
<1>1. cmd' # None /\ cmd'.request = cmd.request
  BY Goes DEF WorkerInv
<1> QED BY <1>1 DEF Goto, Neither

LEMMA WithCard ==
  ASSUME WorkerInv, cmd # None, NEW step \in Steps, NEW card \in Cards, UNCHANGED <<queue, replies>>,
         \/ cmd' = [cmd EXCEPT !.step = step, !.card = card]
         \/ cmd' = [cmd EXCEPT !.card = card, !.shared = TRUE, !.step = step]
  PROVE  Neither
<1>1. cmd \in Runs
  BY Busy DEF WorkerInv
<1>2. cmd' \in Runs /\ cmd'.request = cmd.request
  BY <1>1 DEF Runs
<1>3. cmd' # None
  BY <1>2, NoneAssumption
<1> QED BY <1>2, <1>3 DEF Neither

LEMMA LoadedMoves ==
  ASSUME WorkerInv, cmd # None, NEW card \in Cards, Loaded(card), UNCHANGED queue
  PROVE  AnswersIt \/ Neither
<1>1. \/ \E ok \in BOOLEAN : Settle(ok)
      \/ /\ cmd' = [cmd EXCEPT !.card = card, !.shared = TRUE,
                               !.step = IF cmd.request.type = "start" THEN "prepare" ELSE "edit"]
         /\ UNCHANGED replies
  BY DEF Loaded
<1>2. (IF cmd.request.type = "start" THEN "prepare" ELSE "edit") \in Steps
  BY DEF Steps
<1> QED BY <1>1, <1>2, Settling, WithCard

LEMMA HandleMoves ==
  ASSUME WorkerInv, Handle
  PROVE  TakesUp \/ AnswersIt \/ Neither
<1>1. CASE Begin
  <2>1. cmd' # None
    BY <1>1, Taken
  <2>2. cmd'.request = Head(queue)
    BY <1>1, Taken
  <2> QED BY <1>1, <2>1, <2>2 DEF Begin, TakesUp
<1>2. CASE BeginCard \/ BeginStart \/ BeginStop \/ EditSaved \/ Import \/ ImportSaved \/ LoadModule
           \/ StartMain \/ StopSaved
  <2>1. cmd # None /\ UNCHANGED queue
    BY <1>2 DEF BeginCard, BeginStart, BeginStop, EditSaved, Import, ImportSaved, LoadModule, StartMain,
                StopSaved, At
  <2>2. (\E ok \in BOOLEAN : Settle(ok)) \/ (\E step \in Steps : Goto(step))
    BY <1>2 DEF BeginCard, BeginStart, BeginStop, EditSaved, Import, ImportSaved, LoadModule, StartMain,
                StopSaved, Steps
  <2> QED BY <2>1, <2>2, Settling, GoingOn
<1>3. CASE Load
  <2>1. cmd # None /\ UNCHANGED queue /\ cmd.request.type \in {"start", "edit", "read"} /\ WTypeOK
    BY <1>3 DEF Load, At, WorkerInv
  <2>2. cmd.request.board \in Boards
    BY <2>1, Busy
  <2>3. PICK card : card = Fetched(cmd.request.board)
    OBVIOUS
  <2>4. card \in Cards
    BY <2>1, <2>2, <2>3, FetchedCard
  <2>5. CASE Cached(cmd.request.board)
    <3>1. editable \in Cards /\ Loaded(editable)
      BY <1>3, <2>1, <2>5 DEF Load, Cached, WTypeOK
    <3> QED BY <2>1, <3>1, LoadedMoves
  <2>6. CASE Settle(FALSE)
    BY <2>1, <2>6, Settling
  <2>7. CASE cmd' = [cmd EXCEPT !.step = "assign", !.card = card] /\ UNCHANGED replies
    <3>1. "assign" \in Steps
      BY DEF Steps
    <3> QED BY <2>1, <2>4, <2>7, <3>1, WithCard
  <2> QED BY <1>3, <2>3, <2>5, <2>6, <2>7 DEF Load
<1>4. CASE Assign
  <2>1. cmd # None /\ UNCHANGED queue /\ Loaded(cmd.card) /\ cmd.step = "assign" /\ WTypeOK
    BY <1>4 DEF Assign, At, WorkerInv
  <2>2. cmd.card \in Cards
    BY <2>1, Busy DEF WorkerInv, CommandInv
  <2> QED BY <2>1, <2>2, LoadedMoves
<1>5. CASE Prepare
  <2>1. cmd # None /\ UNCHANGED queue /\ cmd.step = "prepare" /\ WTypeOK
    BY <1>5 DEF Prepare, At, WorkerInv
  <2>2. cmd.card \in Cards
    BY <2>1, Busy DEF WorkerInv, CommandInv
  <2>3. PICK card : card = Moved(cmd.card)
    OBVIOUS
  <2>4. card \in Cards /\ "module" \in Steps
    BY <2>2, <2>3, LocatedCard DEF Steps
  <2>5. \/ Settle(FALSE)
        \/ cmd' = [cmd EXCEPT !.step = "module", !.card = card] /\ UNCHANGED replies
    BY <1>5, <2>3 DEF Prepare, Moved
  <2> QED BY <2>1, <2>4, <2>5, Settling, WithCard
<1>6. CASE Edit
  <2>1. cmd # None /\ UNCHANGED queue /\ cmd.step = "edit" /\ WTypeOK
    BY <1>6 DEF Edit, At, WorkerInv
  <2>2. cmd.card \in Cards
    BY <2>1, Busy DEF WorkerInv, CommandInv
  <2>3. PICK f \in Files :
          \/ cmd' = [cmd EXCEPT !.step = "save", !.card = Edited(cmd.card, f)] /\ UNCHANGED replies
          \/ Settle(FALSE)
    BY <1>6 DEF Edit, Edited
  <2>4. PICK card : card = Edited(cmd.card, f)
    OBVIOUS
  <2>5. card \in Cards /\ "save" \in Steps
    BY <2>2, <2>4, EditedCard DEF Steps
  <2> QED BY <2>1, <2>3, <2>4, <2>5, Settling, WithCard
<1> QED BY <1>1, <1>2, <1>3, <1>4, <1>5, <1>6 DEF Handle

LEMMA WorkMoves ==
  ASSUME WorkerInv, Handle \/ Save \/ Persist \/ GuestWrites
  PROVE  TakesUp \/ AnswersIt \/ Neither
<1>1. CASE Save
  BY <1>1 DEF Save, Commit, Lose, Neither
<1>2. CASE Persist
  <2>1. PICK t \in Timers : TimerFires(t) \/ TimerReturns(t)
    BY <1>2 DEF Persist
  <2>2. CASE TimerFires(t)
    BY <2>2 DEF TimerFires, Neither
  <2>3. CASE TimerReturns(t)
    BY <2>3, Returned DEF TimerReturns, Neither
  <2> QED BY <2>1, <2>2, <2>3
<1>3. CASE GuestWrites
  BY <1>3 DEF GuestWrites, Neither
<1> QED BY <1>1, <1>2, <1>3, HandleMoves

(* Sequences of what waits: each id once, and held by nothing else.        *)
LEMMA Appended ==
  ASSUME NEW S, NEW s \in Seq(S), NEW e \in S, NEW u, u = Append(s, e)
  PROVE  /\ Len(s) \in Nat /\ Len(u) = Len(s) + 1 /\ u[Len(s) + 1] = e
         /\ \A k \in 1..Len(s) : u[k] = s[k]
         /\ \A k \in 1..Len(u) : k \in 1..Len(s) \/ k = Len(s) + 1
  BY AppendProperties, LenProperties

LEMMA Shortened ==
  ASSUME NEW S, NEW s \in Seq(S), s # <<>>, NEW u, u = Tail(s)
  PROVE  /\ Len(s) \in Nat /\ Len(s) > 0 /\ Len(u) = Len(s) - 1
         /\ Head(s) = s[1]
         /\ \A k \in 1..Len(u) : u[k] = s[k + 1] /\ k + 1 \in 1..Len(s) /\ k + 1 # 1
  BY HeadTailProperties, LenProperties, EmptySeq

LEMMA TakesUpIds ==
  ASSUME WTypeOK, IdsInv, TakesUp, UNCHANGED pending
  PROVE  IdsInv'
<1>1. /\ Len(queue) \in Nat /\ Len(queue) > 0 /\ Head(queue) = queue[1]
      /\ \A k \in 1..Len(queue') : queue'[k] = queue[k + 1] /\ k + 1 \in 1..Len(queue) /\ k + 1 # 1
  BY Shortened DEF WTypeOK, TakesUp
<1>2. cmd'.request.id = queue[1].id /\ 1 \in 1..Len(queue) /\ replies' = replies /\ Waiters' = Waiters
  BY <1>1 DEF TakesUp, Waiters
<1>3. \A i, j \in 1..Len(queue') : i # j => queue'[i].id # queue'[j].id
  <2>1. TAKE i, j \in 1..Len(queue')
  <2>2. i + 1 \in 1..Len(queue) /\ j + 1 \in 1..Len(queue) /\ queue'[i] = queue[i + 1] /\ queue'[j] = queue[j + 1]
    BY <1>1
  <2>3. i # j => i + 1 # j + 1
    OBVIOUS
  <2> QED BY <2>2, <2>3 DEF IdsInv
<1>4. \A i \in 1..Len(queue') : queue'[i].id # queue[1].id
  BY <1>1, <1>2 DEF IdsInv
<1>5. \A j \in 1..Len(replies) : replies[j].id # queue[1].id
  BY <1>2 DEF IdsInv
<1> QED BY <1>1, <1>2, <1>3, <1>4, <1>5 DEF IdsInv

LEMMA AnswersItIds ==
  ASSUME WTypeOK, IdsInv, AnswersIt, UNCHANGED pending
  PROVE  IdsInv'
<1>1. PICK ok \in BOOLEAN : replies' = Append(replies, [id |-> cmd.request.id, ok |-> ok, type |-> cmd.request.type])
  BY DEF AnswersIt, Reply
<1>2. PICK r : r = [id |-> cmd.request.id, ok |-> ok, type |-> cmd.request.type]
  OBVIOUS
<1>3. r \in Results /\ r.id = cmd.request.id
  BY <1>2, Busy DEF Results, AnswersIt
<1>4. /\ Len(replies) \in Nat /\ Len(replies') = Len(replies) + 1 /\ replies'[Len(replies) + 1] = r
      /\ \A k \in 1..Len(replies) : replies'[k] = replies[k]
      /\ \A k \in 1..Len(replies') : k \in 1..Len(replies) \/ k = Len(replies) + 1
  BY <1>1, <1>2, <1>3, Appended DEF WTypeOK
<1>5. cmd # None /\ cmd' = None /\ queue' = queue /\ Waiters' = Waiters
  BY DEF AnswersIt, Waiters
<1>6. \A i \in 1..Len(replies') : replies'[i].id \in Waiters
  BY <1>3, <1>4, <1>5 DEF IdsInv
<1>7. \A i, j \in 1..Len(replies') : i # j => replies'[i].id # replies'[j].id
  BY <1>3, <1>4, <1>5 DEF IdsInv
<1>8. \A i \in 1..Len(queue), j \in 1..Len(replies') : queue[i].id # replies'[j].id
  BY <1>3, <1>4, <1>5 DEF IdsInv
<1> QED BY <1>5, <1>6, <1>7, <1>8 DEF IdsInv

LEMMA WorksIds ==
  ASSUME WorkerInv, IdsInv, Works
  PROVE  IdsInv'
<1>1. TakesUp \/ AnswersIt \/ Neither
  BY WorkMoves DEF Works
<1>2. UNCHANGED pending /\ WTypeOK
  BY DEF Works, WorkerInv
<1>3. CASE Neither
  BY <1>2, <1>3 DEF Neither, IdsInv, Waiters
<1> QED BY <1>1, <1>2, <1>3, TakesUpIds, AnswersItIds

LEMMA PostIds ==
  ASSUME WorkerInv, AdapterOK, IdsInv, NEW c \in Commands, Post(c)
  PROVE  IdsInv'
<1>1. c.id \in Ids /\ c.type \in Types
  BY DEF Commands
<1>2. c.id \notin Waiters /\ Waiters' = Waiters \cup {c.id} /\ cmd' = cmd /\ WTypeOK
  BY DEF Post, UnusedIds, Waiters, WorkerInv, Receive
<1>3. CASE Held >= MaxQueue
  <2>1. PICK r : r = [id |-> c.id, ok |-> FALSE, type |-> c.type]
    OBVIOUS
  <2>2. r \in Results /\ r.id = c.id
    BY <1>1, <2>1 DEF Results
  <2>3. replies' = Append(replies, r) /\ queue' = queue
    BY <1>3, <2>1 DEF Post, Receive, Reply
  <2>4. /\ Len(replies) \in Nat /\ Len(replies') = Len(replies) + 1 /\ replies'[Len(replies) + 1] = r
        /\ \A k \in 1..Len(replies) : replies'[k] = replies[k]
        /\ \A k \in 1..Len(replies') : k \in 1..Len(replies) \/ k = Len(replies) + 1
    BY <1>2, <2>2, <2>3, Appended DEF WTypeOK
  <2>5. \A i \in 1..Len(replies') : replies'[i].id \in Waiters'
    BY <1>2, <2>2, <2>4 DEF IdsInv
  <2>6. \A i, j \in 1..Len(replies') : i # j => replies'[i].id # replies'[j].id
    BY <1>2, <2>2, <2>4 DEF IdsInv
  <2>7. \A i \in 1..Len(queue), j \in 1..Len(replies') : queue[i].id # replies'[j].id
    BY <1>2, <2>2, <2>4 DEF IdsInv
  <2>8. cmd # None => \A j \in 1..Len(replies') : replies'[j].id # cmd.request.id
    BY <1>2, <2>2, <2>4 DEF IdsInv
  <2> QED BY <1>2, <2>3, <2>5, <2>6, <2>7, <2>8 DEF IdsInv
<1>4. CASE ~ (Held >= MaxQueue)
  <2>1. queue' = Append(queue, c) /\ replies' = replies
    BY <1>4 DEF Post, Receive
  <2>2. /\ Len(queue) \in Nat /\ Len(queue') = Len(queue) + 1 /\ queue'[Len(queue) + 1] = c
        /\ \A k \in 1..Len(queue) : queue'[k] = queue[k]
        /\ \A k \in 1..Len(queue') : k \in 1..Len(queue) \/ k = Len(queue) + 1
    BY <1>2, <2>1, Appended DEF WTypeOK
  <2>3. \A i \in 1..Len(queue') : queue'[i].id \in Waiters'
    BY <1>2, <2>2 DEF IdsInv
  <2>4. \A i, j \in 1..Len(queue') : i # j => queue'[i].id # queue'[j].id
    BY <1>2, <2>2 DEF IdsInv
  <2>5. \A i \in 1..Len(queue'), j \in 1..Len(replies) : queue'[i].id # replies[j].id
    BY <1>2, <2>2 DEF IdsInv
  <2>6. cmd # None => \A i \in 1..Len(queue') : queue'[i].id # cmd.request.id
    BY <1>2, <2>2 DEF IdsInv
  <2> QED BY <1>2, <2>1, <2>3, <2>4, <2>5, <2>6 DEF IdsInv
<1> QED BY <1>3, <1>4

LEMMA ResolveIds ==
  ASSUME WorkerInv, IdsInv, replies # <<>>, Resolve(Head(replies))
  PROVE  IdsInv'
<1>1. /\ Len(replies) \in Nat /\ Len(replies) > 0 /\ Head(replies) = replies[1]
      /\ \A k \in 1..Len(replies') : replies'[k] = replies[k + 1] /\ k + 1 \in 1..Len(replies) /\ k + 1 # 1
  BY Shortened DEF WorkerInv, WTypeOK, Resolve
<1>2. Waiters' = Waiters \ {replies[1].id} /\ cmd' = cmd /\ queue' = queue /\ 1 \in 1..Len(replies)
  BY <1>1 DEF Resolve, Waiters
<1>3. \A i \in 1..Len(replies') : replies'[i].id \in Waiters'
  BY <1>1, <1>2 DEF IdsInv
<1>4. \A i, j \in 1..Len(replies') : i # j => replies'[i].id # replies'[j].id
  <2>1. TAKE i, j \in 1..Len(replies')
  <2>2. i + 1 \in 1..Len(replies) /\ j + 1 \in 1..Len(replies) /\ replies'[i] = replies[i + 1] /\ replies'[j] = replies[j + 1]
    BY <1>1
  <2>3. i # j => i + 1 # j + 1
    OBVIOUS
  <2> QED BY <2>2, <2>3 DEF IdsInv
<1>5. \A i \in 1..Len(queue) : queue[i].id \in Waiters'
  BY <1>2 DEF IdsInv
<1>6. cmd # None => cmd.request.id \in Waiters'
  BY <1>2 DEF IdsInv
<1>7. \A i \in 1..Len(queue), j \in 1..Len(replies') : queue[i].id # replies'[j].id
  BY <1>1 DEF IdsInv
<1>8. cmd # None => \A j \in 1..Len(replies') : replies'[j].id # cmd.request.id
  BY <1>1 DEF IdsInv
<1> QED BY <1>2, <1>3, <1>4, <1>5, <1>6, <1>7, <1>8 DEF IdsInv

LEMMA TerminatedIds ==
  ASSUME Terminated
  PROVE  IdsInv'
<1>1. Len(queue') = 0 /\ Len(replies') = 0 /\ cmd' = None
  BY EmptySeq DEF Terminated
<1> QED BY <1>1 DEF IdsInv

----------------------------------------------------------------------------
(* What was acknowledged.                                                  *)

(* Answers to come keep their order, and more come after them.             *)
LEMMA More ==
  ASSUME WTypeOK, NEW r \in Results, replies' = Append(replies, r)
  PROVE  /\ Stopping => Stopping'
         /\ StopOk(r) => Stopping'
         /\ \A i : Doomed(i) => Doomed(i)'
<1>1. /\ Len(replies) \in Nat /\ Len(replies') = Len(replies) + 1 /\ replies'[Len(replies) + 1] = r
      /\ \A k \in 1..Len(replies) : replies'[k] = replies[k]
  BY Appended DEF WTypeOK
<1>2. \A k \in 1..Len(replies) : k \in 1..Len(replies') /\ \A j \in 1..k : j \in 1..Len(replies)
  BY <1>1
<1>3. Len(replies) + 1 \in 1..Len(replies')
  BY <1>1
<1> QED BY <1>1, <1>2, <1>3 DEF Stopping, Doomed, StopOk

LEMMA Fewer ==
  ASSUME WTypeOK, replies # <<>>, replies' = Tail(replies), ~ StopOk(Head(replies))
  PROVE  /\ Stopping => Stopping'
         /\ \A i : Doomed(i) => Doomed(i)' /\ Head(replies).id # i
<1>1. /\ Len(replies) \in Nat /\ Len(replies) > 0 /\ Head(replies) = replies[1]
      /\ Len(replies') = Len(replies) - 1
      /\ \A k \in 1..Len(replies') : replies'[k] = replies[k + 1] /\ k + 1 \in 1..Len(replies) /\ k + 1 # 1
  BY Shortened DEF WTypeOK
<1>2. ASSUME NEW k \in 1..Len(replies), StopOk(replies[k])
      PROVE  k - 1 \in 1..Len(replies') /\ replies'[k - 1] = replies[k] /\ 1 \in 1..k
  <2>1. k # 1
    BY <1>1, <1>2
  <2>2. k - 1 \in 1..Len(replies') /\ (k - 1) + 1 = k
    BY <1>1, <2>1
  <2> QED BY <1>1, <2>2
<1>3. Stopping => Stopping'
  BY <1>2 DEF Stopping, StopOk
<1>4. ASSUME NEW i, Doomed(i) PROVE Doomed(i)' /\ Head(replies).id # i
  <2>1. PICK k \in 1..Len(replies) : StopOk(replies[k]) /\ \A j \in 1..k : replies[j].id # i
    BY <1>4 DEF Doomed
  <2>2. k - 1 \in 1..Len(replies') /\ replies'[k - 1] = replies[k] /\ 1 \in 1..k
    BY <1>2, <2>1
  <2>3. \A j \in 1..(k - 1) : replies'[j].id # i
    <3>1. TAKE j \in 1..(k - 1)
    <3>2. j + 1 \in 1..k /\ j \in 1..Len(replies')
      BY <1>1
    <3> QED BY <1>1, <2>1, <3>2
  <2>4. Doomed(i)'
    BY <2>1, <2>2, <2>3 DEF Doomed, StopOk
  <2> QED BY <1>1, <2>1, <2>2, <2>4
<1> QED BY <1>3, <1>4

(* A request that is not answered yet is answered after what is to come.   *)
LEMMA Behind ==
  ASSUME WTypeOK, IdsInv, Stopping, cmd # None
  PROVE  Doomed(cmd.request.id)
<1>3. Len(replies) \in Nat
  BY LenProperties DEF WTypeOK
<1>1. PICK k \in 1..Len(replies) : StopOk(replies[k])
  BY DEF Stopping
<1>2. \A j \in 1..k : j \in 1..Len(replies)
  BY <1>3
<1> QED BY <1>1, <1>2 DEF Doomed, IdsInv

(* What no save undoes stays.                                              *)
LEMMA HoldsOn ==
  ASSUME NEW b, NEW f, Holds(b, f), stored'[b] = stored[b],
         \A t \in Timers : Is(t, "open")' => \/ flight'[t] = flight[t]
                                             \/ flight'[t].board # b
  PROVE  Holds(b, f)'
  BY DEF Holds, Is

(* What a step of the worker makes of the acknowledgements.                *)
LEMMA Acked ==
  ASSUME AdapterOK, Works, NEW b \in Boards
  PROVE  /\ acked'[b] = Acknowledged(b)
         /\ ~ Answers(b) => acked'[b] = None \/ acked'[b] = acked[b]
         /\ ~ Answers(b) /\ (GuestSaves(b) \/ Commits(b)) => acked'[b] = None
  BY DEF Works, Acknowledged

LEMMA AnsweredAck ==
  ASSUME WorkerInv, AdapterOK, Works, NEW b \in Boards, Answers(b)
  PROVE  /\ acked'[b] # None /\ acked'[b].id = cmd.request.id /\ acked'[b].told = FALSE
         /\ acked'[b].files = cmd.request.image.files
         /\ cmd # None /\ cmd.request.board = b /\ cmd.request.type \in {"edit", "import"}
<1>1. cmd # None /\ cmd.request.type \in {"edit", "import"} /\ cmd.request.board = b
  BY DEF Answers, Changing, At
<1>2. cmd.request.id \in Ids /\ cmd.request.image.files \in Files
  BY <1>1, Busy DEF WorkerInv, Images
<1>3. acked'[b] = [id |-> cmd.request.id, files |-> cmd.request.image.files, told |-> FALSE]
  BY Acked DEF Acknowledged
<1>4. acked'[b] \in Acks
  BY <1>2, <1>3 DEF Acks
<1>5. acked'[b] # None
  BY <1>4, AcksAssumption
<1> QED BY <1>1, <1>3, <1>5

(* A handler of the worker, as the saves and the answers see it.           *)
HandlerSays ==
  /\ stored' = stored /\ \A t \in Timers : flight'[t] = flight[t]
  /\ replies' = replies \/ \E r \in Results : replies' = Append(replies, r)
  /\ running => running' \/ \E r \in Results : StopOk(r) /\ replies' = Append(replies, r)
  /\ flight'["cmd"] # None =>
       /\ flight["cmd"] = None /\ cmd # None /\ cmd'.request = cmd.request
       /\ flight'["cmd"].state = "open"
       /\ flight'["cmd"].board \in Boards
       /\ cmd.request.type # "stop" \/ At("begin", {"stop"})

LEMMA AnswersAre ==
  ASSUME WorkerInv, TakesUp \/ AnswersIt \/ Neither
  PROVE  replies' = replies \/ \E r \in Results : replies' = Append(replies, r)
<1>1. CASE AnswersIt
  <2>1. PICK ok \in BOOLEAN : replies' = Append(replies, [id |-> cmd.request.id, ok |-> ok, type |-> cmd.request.type])
    BY <1>1 DEF AnswersIt, Reply
  <2>2. [id |-> cmd.request.id, ok |-> ok, type |-> cmd.request.type] \in Results
    BY <1>1, Busy DEF Results, AnswersIt, WorkerInv
  <2> QED BY <2>1, <2>2
<1> QED BY <1>1 DEF TakesUp, Neither

LEMMA StopAnswered ==
  ASSUME WorkerInv, cmd # None, cmd.request.type = "stop", Settle(TRUE)
  PROVE  \E r \in Results : StopOk(r) /\ replies' = Append(replies, r)
<1>1. PICK r : r = [id |-> cmd.request.id, ok |-> TRUE, type |-> "stop"]
  OBVIOUS
<1>2. r \in Results
  BY <1>1, Busy DEF Results, WorkerInv, Types
<1>3. StopOk(r)
  BY <1>1 DEF StopOk
<1> QED BY <1>1, <1>2, <1>3 DEF Settle, Reply

LEMMA HandleSays ==
  ASSUME WorkerInv, Handle
  PROVE  HandlerSays
<1>1. replies' = replies \/ \E r \in Results : replies' = Append(replies, r)
  BY HandleMoves, AnswersAre
<1>2. CASE Begin \/ BeginCard \/ BeginStart \/ Load \/ Assign \/ Prepare \/ LoadModule \/ StartMain
  <2>1. cmd = None \/ cmd.step # "save"
    BY <1>2 DEF Begin, BeginCard, BeginStart, Load, Assign, Prepare, LoadModule, StartMain, At
  <2>3. flight' = flight /\ stored' = stored
    BY <1>2 DEF Begin, BeginCard, BeginStart, Load, Assign, Prepare, LoadModule, StartMain
  <2>4. running' = running \/ running' = TRUE
    BY <1>2 DEF Begin, BeginCard, BeginStart, Load, Assign, Prepare, LoadModule, StartMain, qemuVars
  <2>2. flight' = flight /\ stored' = stored /\ (running => running')
    BY <2>3, <2>4
  <2> QED BY <1>1, <2>1, <2>2, NoFlight DEF HandlerSays
<1>3. CASE EditSaved \/ ImportSaved
  <2>1. Close("cmd") /\ stored' = stored /\ running' = running
    BY <1>3 DEF EditSaved, ImportSaved, qemuVars
  <2> QED BY <1>1, <2>1, Closed DEF HandlerSays, WorkerInv
<1>4. CASE StopSaved
  <2>1. Close("cmd") /\ stored' = stored /\ Settle(TRUE) /\ cmd # None /\ cmd.request.type = "stop"
    BY <1>4 DEF StopSaved, At
  <2> QED BY <1>1, <2>1, Closed, StopAnswered DEF HandlerSays, WorkerInv
<1>5. CASE BeginStop
  <2>1. cmd # None /\ cmd.step = "begin" /\ cmd.request.type = "stop" /\ stored' = stored /\ At("begin", {"stop"})
    BY <1>5 DEF BeginStop, At
  <2>2. flight["cmd"] = None
    BY <2>1, NoFlight
  <2>3. CASE ~ SaveNeeded
    <3>1. Settle(TRUE) /\ flight' = flight
      BY <1>5, <2>3 DEF BeginStop
    <3> QED BY <1>1, <2>1, <2>2, <3>1, StopAnswered DEF HandlerSays
  <2>4. CASE SaveNeeded
    <3>1. Goto("save") /\ running' = running /\ "save" \in Steps /\ queue' = queue
      BY <1>5, <2>4 DEF BeginStop, qemuVars, Steps
    <3>2. active \in Boards /\ instance.sd \in Images
      BY <2>4 DEF SaveNeeded, GuestCard, WorkerInv, WTypeOK, QemuInv, Instances
    <3>3. flight' = Begun(flight, "cmd", active, instance.sd)
      BY <1>5, <2>4 DEF BeginStop, Open, Begun
    <3>4. Flying(flight) /\ "cmd" \in Savers
      BY CmdSaver DEF WorkerInv, WTypeOK, Flying
    <3>5. /\ flight'["cmd"].board = active /\ flight'["cmd"].state = "open"
          /\ \A r \in Savers \ {"cmd"} : flight'[r] = flight[r]
      BY <3>2, <3>3, <3>4, FlightBegun
    <3>6. cmd'.request = cmd.request
      BY <2>1, <3>1, Goes DEF WorkerInv
    <3> QED BY <1>1, <2>1, <2>2, <3>1, <3>2, <3>5, <3>6, CmdSaver DEF HandlerSays
  <2> QED BY <2>3, <2>4
<1>6. CASE Edit
  <2>1. /\ cmd # None /\ cmd.step = "edit" /\ cmd.request.type = "edit" /\ stored' = stored /\ running' = running
        /\ WTypeOK
    BY <1>6 DEF Edit, At, WorkerInv, qemuVars
  <2>2. /\ cmd.card \in Cards /\ flight["cmd"] = None /\ cmd.card.board \in Boards
    BY <2>1, Busy, NoFlight DEF WorkerInv, CommandInv
  <2>3. PICK f \in Files :
          \/ /\ Open("cmd", Edited(cmd.card, f).board, Edited(cmd.card, f).image)
             /\ cmd' = [cmd EXCEPT !.step = "save", !.card = Edited(cmd.card, f)]
          \/ flight' = flight
    BY <1>6 DEF Edit, Edited
  <2>4. PICK card : card = Edited(cmd.card, f)
    OBVIOUS
  <2>5. card \in Cards /\ card.board = cmd.card.board /\ card.image \in Images
    BY <2>2, <2>4, EditedCard
  <2>6. CASE flight' = flight
    BY <1>1, <2>1, <2>2, <2>6 DEF HandlerSays
  <2>7. CASE Open("cmd", card.board, card.image) /\ cmd' = [cmd EXCEPT !.step = "save", !.card = card]
    <3>1. cmd \in Runs
      BY <2>1, Busy
    <3>2. cmd'.request = cmd.request
      BY <2>7, <3>1 DEF Runs
    <3>3. flight' = Begun(flight, "cmd", card.board, card.image)
      BY <2>7 DEF Open, Begun
    <3>4. Flying(flight) /\ "cmd" \in Savers
      BY CmdSaver DEF WorkerInv, WTypeOK, Flying
    <3>5. /\ flight'["cmd"].board = card.board /\ flight'["cmd"].state = "open"
          /\ \A r \in Savers \ {"cmd"} : flight'[r] = flight[r]
      BY <2>2, <2>5, <3>3, <3>4, FlightBegun
    <3> QED BY <1>1, <2>1, <2>2, <2>5, <3>2, <3>5, CmdSaver DEF HandlerSays
  <2> QED BY <2>3, <2>4, <2>6, <2>7
<1>7. CASE Import
  <2>1. /\ cmd # None /\ cmd.step = "begin" /\ cmd.request.type = "import" /\ stored' = stored /\ running' = running
        /\ WTypeOK /\ queue' = queue
    BY <1>7 DEF Import, At, WorkerInv, qemuVars
  <2>2. /\ flight["cmd"] = None /\ cmd.request.board \in Boards /\ cmd.request.image \in Images
    BY <2>1, Busy, NoFlight
  <2>3. CASE flight' = flight
    BY <1>1, <2>1, <2>2, <2>3 DEF HandlerSays
  <2>4. CASE Open("cmd", cmd.request.board, cmd.request.image) /\ Goto("save")
    <3>1. "save" \in Steps
      BY DEF Steps
    <3>2. cmd'.request = cmd.request
      BY <2>1, <2>4, <3>1, Goes
    <3>3. flight' = Begun(flight, "cmd", cmd.request.board, cmd.request.image)
      BY <2>4 DEF Open, Begun
    <3>4. Flying(flight) /\ "cmd" \in Savers
      BY CmdSaver DEF WorkerInv, WTypeOK, Flying
    <3>5. /\ flight'["cmd"].board = cmd.request.board /\ flight'["cmd"].state = "open"
          /\ \A r \in Savers \ {"cmd"} : flight'[r] = flight[r]
      BY <2>2, <3>3, <3>4, FlightBegun
    <3> QED BY <1>1, <2>1, <2>2, <3>2, <3>5, CmdSaver DEF HandlerSays
  <2> QED BY <1>7, <2>3, <2>4 DEF Import
<1> QED BY <1>2, <1>3, <1>4, <1>5, <1>6, <1>7 DEF Handle


(* An acknowledgement is safe after a step.                                *)
LEMMA StaysSafe ==
  ASSUME NEW b, NEW i, NEW f, i = acked'[b].id, f = acked'[b].files,
         (~ acked'[b].told /\ Doomed(i)') \/ Holds(b, f)'
  PROVE  SafeAck(b)'
  BY DEF SafeAck, Doomed, Holds, StopOk, Is

AllInv == WorkerInv /\ AdapterOK /\ IdsInv /\ AckInv

(* A handler opens no save of the timer and commits none.                  *)
LEMMA HandleAcks ==
  ASSUME AllInv, Works, Handle
  PROVE  AckInv'
<1>1. HandlerSays /\ WTypeOK
  BY HandleSays DEF AllInv, WorkerInv
<1>2. /\ stored' = stored /\ \A t \in Timers : flight'[t] = flight[t]
      /\ replies' = replies \/ \E r \in Results : replies' = Append(replies, r)
  BY <1>1 DEF HandlerSays
<1>3. (Stopping => Stopping') /\ \A i : Doomed(i) => Doomed(i)'
  <2>1. CASE replies' = replies
    BY <2>1 DEF Stopping, Doomed
  <2> QED BY <1>1, <1>2, <2>1, More
<1>4. \A b, f : Holds(b, f) => Holds(b, f)'
  BY <1>2, HoldsOn
<1>5. \A t \in Timers : Is(t, "open")' => running' \/ Stopping'
  <2> SUFFICES ASSUME NEW t \in Timers, Is(t, "open")' PROVE running' \/ Stopping'
    OBVIOUS
  <2>1. Is(t, "open")
    BY <1>2 DEF Is
  <2>2. running \/ Stopping
    BY <2>1 DEF AllInv, AckInv
  <2>3. running => running' \/ Stopping'
    BY <1>1, More DEF HandlerSays
  <2> QED BY <1>3, <2>2, <2>3
<1>6. (flight["cmd"] # None /\ cmd.request.type = "stop" => acked[flight["cmd"].board] = None)'
  <2> SUFFICES ASSUME flight'["cmd"] # None, cmd'.request.type = "stop"
               PROVE  acked'[flight'["cmd"].board] = None
    OBVIOUS
  <2>1. /\ flight["cmd"] = None /\ flight'["cmd"].board \in Boards /\ cmd # None
        /\ cmd'.request = cmd.request /\ At("begin", {"stop"})
    BY <1>1 DEF HandlerSays
  <2>2. GuestSaves(flight'["cmd"].board) /\ ~ Answers(flight'["cmd"].board)
    BY <2>1, CmdSaver DEF GuestSaves, Answers, Is
  <2> QED BY <2>1, <2>2, Acked DEF AllInv
<1>7. ~ Is("cmd", "saved")'
  BY <1>1 DEF HandlerSays, Is
<1>8. ASSUME NEW b \in Boards, acked'[b] # None PROVE SafeAck(b)'
  <2>1. CASE Answers(b)
    <3>1. /\ acked'[b].id = cmd.request.id /\ acked'[b].told = FALSE
          /\ acked'[b].files = cmd.request.image.files
          /\ cmd # None /\ cmd.request.board = b /\ cmd.request.type \in {"edit", "import"}
      BY <2>1, AnsweredAck DEF AllInv
    <3>2. Is("cmd", "saved")
      BY <2>1 DEF Answers
    <3>3. Stopping \/ Holds(b, cmd.request.image.files)
      BY <3>1, <3>2 DEF AllInv, AckInv
    <3>4. Stopping => Doomed(cmd.request.id)
      BY <1>1, <3>1, Behind DEF AllInv
    <3>5. PICK i : i = cmd.request.id
      OBVIOUS
    <3>6. PICK f : f = cmd.request.image.files
      OBVIOUS
    <3>7. Doomed(i)' \/ Holds(b, f)'
      BY <1>3, <1>4, <3>3, <3>4, <3>5, <3>6
    <3> QED BY <3>1, <3>5, <3>6, <3>7, StaysSafe
  <2>2. CASE ~ Answers(b)
    <3>1. acked'[b] = acked[b]
      BY <1>8, <2>2, Acked DEF AllInv
    <3>2. PICK a : a = acked[b]
      OBVIOUS
    <3>3. PICK i : i = a.id
      OBVIOUS
    <3>4. PICK f : f = a.files
      OBVIOUS
    <3>5. (~ a.told /\ Doomed(i)) \/ Holds(b, f)
      BY <1>8, <3>1, <3>2, <3>3, <3>4 DEF AllInv, AckInv, SafeAck
    <3>6. (~ a.told /\ Doomed(i)') \/ Holds(b, f)'
      BY <1>3, <1>4, <3>5
    <3> QED BY <3>1, <3>2, <3>3, <3>4, <3>6, StaysSafe
  <2> QED BY <2>1, <2>2
<1>9. \A b \in Boards : SafeAck(b)'
  BY <1>8 DEF SafeAck
<1> QED BY <1>5, <1>6, <1>7, <1>9 DEF AckInv

(* A save commits: of the timer, only when the worker runs or is stopped,  *)
(* of the command, over an acknowledgement it withdraws.                   *)
LEMMA CommitAcks ==
  ASSUME AllInv, Works, NEW s \in Savers, Commit(s)
  PROVE  AckInv'
<1>1. UNCHANGED <<cmd, running, replies>> /\ Is(s, "open")
  BY DEF Commit, qemuVars
<1>2. /\ flight[s] # None /\ flight[s].board \in Boards
      /\ stored'[flight[s].board] # None /\ stored'[flight[s].board].image = flight[s].image
      /\ \A b \in Boards : b # flight[s].board => stored'[b] = stored[b]
  BY Committed DEF AllInv
<1>3. /\ flight'[s] # None /\ flight'[s].board = flight[s].board /\ flight'[s].image = flight[s].image
      /\ flight'[s].state = "saved" /\ \A r \in Savers \ {s} : flight'[r] = flight[r]
  BY TurnedKeeps DEF Commit, Turned, AllInv
<1>4. (Stopping <=> Stopping') /\ \A i : Doomed(i) => Doomed(i)'
  BY <1>1 DEF Stopping, Doomed
<1>5. \A t \in Timers : Is(t, "open")' => Is(t, "open") /\ flight'[t] = flight[t]
  BY <1>1, <1>3, CmdSaver DEF Is
<1>6. \A t \in Timers : Is(t, "open")' => running' \/ Stopping'
  BY <1>1, <1>4, <1>5 DEF AllInv, AckInv
<1>7. \A b \in Boards : ~ Answers(b)
  BY <1>1, <1>3, CmdSaver DEF Answers, Is
<1>8. \A b \in Boards : acked'[b] = None \/ acked'[b] = acked[b]
  BY <1>7, Acked DEF AllInv
<1>9. (flight["cmd"] # None /\ cmd.request.type = "stop" => acked[flight["cmd"].board] = None)'
  <2>1. flight["cmd"] # None => flight["cmd"].board \in Boards
    BY CmdSaver DEF AllInv, WorkerInv, WTypeOK, Flights
  <2>2. flight'["cmd"] # None => flight["cmd"] # None /\ flight'["cmd"].board = flight["cmd"].board
    BY <1>2, <1>3, CmdSaver
  <2> QED BY <1>1, <1>8, <2>1, <2>2 DEF AllInv, AckInv
<1>10. ASSUME flight["cmd"] # None, cmd.request.type # "stop"
       PROVE  /\ cmd # None /\ cmd.request.type \in {"edit", "import"} /\ At("save", {"edit", "import"})
              /\ ~ running /\ flight["cmd"].board = cmd.request.board /\ cmd.request.board \in Boards
              /\ flight["cmd"].image.files = cmd.request.image.files
  <2>1. cmd # None /\ cmd.request.type \in {"edit", "import"} /\ At("save", {"edit", "import"})
    BY <1>10 DEF AllInv, WorkerInv, FlightInv, At
  <2>2. ~ running
    BY <2>1 DEF AllInv, WorkerInv, CommandInv, At
  <2> QED BY <1>10, <2>1, <2>2, Busy DEF AllInv, WorkerInv, FlightInv
<1>11. (Is("cmd", "saved") /\ cmd.request.type # "stop"
           => Stopping \/ Holds(cmd.request.board, cmd.request.image.files))'
  <2> SUFFICES ASSUME Is("cmd", "saved")', cmd.request.type # "stop", ~ Stopping
               PROVE  Holds(cmd.request.board, cmd.request.image.files)'
    BY <1>1, <1>4
  <2>1. flight["cmd"] # None
    BY <1>2, <1>3, CmdSaver DEF Is
  <2>2. \A t \in Timers : ~ Is(t, "open")
    BY <1>10, <2>1 DEF AllInv, AckInv
  <2>3. s = "cmd"
    BY <1>1, <2>2 DEF Savers
  <2>4. stored'[cmd.request.board] # None /\ stored'[cmd.request.board].image.files = cmd.request.image.files
    BY <1>2, <1>10, <2>1, <2>3
  <2> QED BY <1>1, <1>5, <2>2, <2>4 DEF Holds
<1>12. ASSUME NEW b \in Boards, acked'[b] # None PROVE SafeAck(b)'
  <2>1. acked'[b] = acked[b]
    BY <1>8, <1>12
  <2>2. PICK a : a = acked[b]
    OBVIOUS
  <2>3. PICK i : i = a.id
    OBVIOUS
  <2>4. PICK f : f = a.files
    OBVIOUS
  <2>5. (~ a.told /\ Doomed(i)) \/ Holds(b, f)
    BY <1>12, <2>1, <2>2, <2>3, <2>4 DEF AllInv, AckInv, SafeAck
  <2>6. CASE ~ a.told /\ Doomed(i)
    BY <1>4, <2>1, <2>2, <2>3, <2>4, <2>6, StaysSafe
  <2>7. CASE Holds(b, f)
    <3>1. b # flight[s].board
      <4>1. CASE s \in Timers
        BY <1>1, <2>7, <4>1 DEF Holds
      <4>2. CASE s = "cmd" /\ cmd.request.type = "stop"
        BY <1>2, <1>12, <2>1, <4>2 DEF AllInv, AckInv
      <4>3. CASE s = "cmd" /\ cmd.request.type # "stop"
        <5>1. flight[s].board = b => Commits(b)
          BY <1>1, <1>2, <1>3, <1>10, <4>3 DEF Commits, Changing
        <5> QED BY <1>7, <1>12, <5>1, Acked DEF AllInv
      <4> QED BY <4>1, <4>2, <4>3 DEF Savers
    <3>2. stored'[b] = stored[b]
      BY <1>2, <3>1
    <3>3. Holds(b, f)'
      BY <1>5, <2>7, <3>2, HoldsOn
    <3> QED BY <2>1, <2>2, <2>3, <2>4, <3>3, StaysSafe
  <2> QED BY <2>5, <2>6, <2>7
<1>13. \A b \in Boards : SafeAck(b)'
  BY <1>12 DEF SafeAck
<1> QED BY <1>6, <1>9, <1>11, <1>13 DEF AckInv

(* Any other step of the worker, which commits nothing and opens nothing   *)
(* but what the timer saves while the worker runs.                         *)
LEMMA OtherAcks ==
  ASSUME AllInv, Works, UNCHANGED <<running, replies, stored>>,
         cmd # None => cmd'.request = cmd.request,
         flight'["cmd"] # None => /\ flight["cmd"] # None /\ flight'["cmd"].board = flight["cmd"].board
                                  /\ Is("cmd", "saved")' => Is("cmd", "saved"),
         flight["cmd"] # None => flight'["cmd"] # None,
         \A t \in Timers : Is(t, "open")' =>
            \/ Is(t, "open") /\ flight'[t] = flight[t]
            \/ running /\ \A b \in Boards : flight'[t].board = b => GuestSaves(b)
  PROVE  AckInv'
<1>1. (Stopping <=> Stopping') /\ \A i : Doomed(i) => Doomed(i)'
  BY DEF Stopping, Doomed
<1>2. \A b \in Boards : ~ Answers(b)
  BY DEF Answers, Is
<1>3. \A b \in Boards : acked'[b] = None \/ (acked'[b] = acked[b] /\ ~ GuestSaves(b))
  <2>1. TAKE b \in Boards
  <2>2. CASE GuestSaves(b)
    BY <1>2, <2>2, Acked DEF AllInv
  <2>3. CASE ~ GuestSaves(b)
    BY <1>2, <2>3, Acked DEF AllInv
  <2> QED BY <2>2, <2>3
<1>4. flight["cmd"] # None => flight["cmd"].board \in Boards /\ cmd # None
  BY CmdSaver DEF AllInv, WorkerInv, WTypeOK, Flights, FlightInv, At
<1>5. \A t \in Timers : Is(t, "open")' => running' \/ Stopping'
  BY <1>1 DEF AllInv, AckInv
<1>6. (flight["cmd"] # None /\ cmd.request.type = "stop" => acked[flight["cmd"].board] = None)'
  BY <1>3, <1>4 DEF AllInv, AckInv
<1>7. (Is("cmd", "saved") /\ cmd.request.type # "stop"
           => Stopping \/ Holds(cmd.request.board, cmd.request.image.files))'
  <2> SUFFICES ASSUME Is("cmd", "saved")', cmd'.request.type # "stop", ~ Stopping
               PROVE  Holds(cmd.request.board, cmd.request.image.files)'
    BY <1>1
  <2>1. flight["cmd"] # None /\ Is("cmd", "saved") /\ cmd # None /\ cmd'.request = cmd.request
    BY <1>4 DEF Is
  <2>2. cmd.request.type \in {"edit", "import"} /\ cmd.step = "save"
    BY <2>1 DEF AllInv, WorkerInv, FlightInv, At
  <2>3. ~ running
    BY <2>1, <2>2 DEF AllInv, WorkerInv, CommandInv, At
  <2>4. PICK b : b = cmd.request.board
    OBVIOUS
  <2>5. PICK f : f = cmd.request.image.files
    OBVIOUS
  <2>6. Holds(b, f)
    BY <2>1, <2>2, <2>4, <2>5 DEF AllInv, AckInv
  <2>7. Holds(b, f)'
    BY <2>3, <2>6, HoldsOn
  <2> QED BY <2>1, <2>4, <2>5, <2>7 DEF Holds, Is
<1>8. ASSUME NEW b \in Boards, acked'[b] # None PROVE SafeAck(b)'
  <2>1. acked'[b] = acked[b] /\ ~ GuestSaves(b)
    BY <1>3, <1>8
  <2>2. PICK a : a = acked[b]
    OBVIOUS
  <2>3. PICK i : i = a.id
    OBVIOUS
  <2>4. PICK f : f = a.files
    OBVIOUS
  <2>5. (~ a.told /\ Doomed(i)) \/ Holds(b, f)
    BY <1>8, <2>1, <2>2, <2>3, <2>4 DEF AllInv, AckInv, SafeAck
  <2>6. Holds(b, f) => Holds(b, f)'
    BY <2>1, HoldsOn
  <2> QED BY <1>1, <2>1, <2>2, <2>3, <2>4, <2>5, <2>6, StaysSafe
<1>9. \A b \in Boards : SafeAck(b)'
  BY <1>8 DEF SafeAck
<1> QED BY <1>5, <1>6, <1>7, <1>9 DEF AckInv

LEMMA WorksAcks ==
  ASSUME AllInv, Works
  PROVE  AckInv'
<1>1. CASE \E s \in Savers : Lose(s)
  <2>1. PICK s \in Savers : Lose(s)
    BY <1>1
  <2>2. /\ flight[s] # None /\ flight'[s] # None /\ flight'[s].board = flight[s].board
        /\ flight'[s].state = "lost" /\ \A r \in Savers \ {s} : flight'[r] = flight[r]
    BY <2>1, TurnedKeeps DEF Lose, Turned, AllInv, Is
  <2>3. UNCHANGED <<running, replies, stored, cmd>>
    BY <2>1 DEF Lose, qemuVars
  <2>4. flight'["cmd"] # None => /\ flight["cmd"] # None /\ flight'["cmd"].board = flight["cmd"].board
                                 /\ Is("cmd", "saved")' => Is("cmd", "saved")
    BY <2>2, CmdSaver DEF Is
  <2>5. flight["cmd"] # None => flight'["cmd"] # None
    BY <2>2, CmdSaver
  <2>6. \A t \in Timers : Is(t, "open")' => Is(t, "open") /\ flight'[t] = flight[t]
    BY <2>2, CmdSaver DEF Is
  <2> QED BY <2>3, <2>4, <2>5, <2>6, OtherAcks
<1>2. CASE \E t \in Timers : TimerFires(t)
  <2>1. PICK t \in Timers : TimerFires(t)
    BY <1>2
  <2>2. /\ flight'[t] # None /\ flight'[t].board = active
        /\ \A r \in Savers \ {t} : flight'[r] = flight[r]
    BY <2>1, Fired DEF AllInv
  <2>3. UNCHANGED <<running, replies, stored, cmd>> /\ flight[t] = None /\ running
    BY <2>1 DEF TimerFires, qemuVars, AllInv, WorkerInv, QemuInv
  <2>4. \A b \in Boards : flight'[t].board = b => GuestSaves(b)
    BY <2>2, <2>3, CmdSaver DEF GuestSaves
  <2>5. flight'["cmd"] = flight["cmd"]
    BY <2>2, CmdSaver
  <2>6. \A r \in Timers : Is(r, "open")' =>
            \/ Is(r, "open") /\ flight'[r] = flight[r]
            \/ running /\ \A b \in Boards : flight'[r].board = b => GuestSaves(b)
    BY <2>2, <2>3, <2>4, CmdSaver DEF Is
  <2>7. Is("cmd", "saved")' => Is("cmd", "saved")
    BY <2>5 DEF Is
  <2> QED BY <2>3, <2>5, <2>6, <2>7, OtherAcks
<1>3. CASE \E t \in Timers : TimerReturns(t)
  <2>1. PICK t \in Timers : TimerReturns(t)
    BY <1>3
  <2>2. /\ flight'[t] = None /\ \A r \in Savers \ {t} : flight'[r] = flight[r]
        /\ cmd # None => cmd'.request = cmd.request
    BY <2>1, Returned DEF AllInv
  <2>3. UNCHANGED <<running, replies, stored>>
    BY <2>1 DEF TimerReturns, qemuVars
  <2>4. flight'["cmd"] = flight["cmd"]
    BY <2>2, CmdSaver
  <2>5. \A r \in Timers : Is(r, "open")' => Is(r, "open") /\ flight'[r] = flight[r]
    BY <2>2, CmdSaver DEF Is
  <2>6. Is("cmd", "saved")' => Is("cmd", "saved")
    BY <2>4 DEF Is
  <2> QED BY <2>2, <2>3, <2>4, <2>5, <2>6, OtherAcks
<1>4. CASE GuestWrites
  <2>1. UNCHANGED <<running, replies, stored, cmd, flight>>
    BY <1>4 DEF GuestWrites
  <2>2. (\A t \in Timers : Is(t, "open")' => Is(t, "open")) /\ (Is("cmd", "saved")' => Is("cmd", "saved"))
    BY <2>1 DEF Is
  <2> QED BY <2>1, <2>2, OtherAcks
<1> QED BY <1>1, <1>2, <1>3, <1>4, HandleAcks, CommitAcks DEF Works, Save, Persist

----------------------------------------------------------------------------
(* The host adapter's own steps.                                           *)

(* A step of the adapter that moves nothing of the worker but its answers  *)
(* keeps the acknowledgements, when those answers only come nearer.        *)
LEMMA AdapterAcks ==
  ASSUME AllInv, UNCHANGED <<cmd, running, flight, stored>>,
         Stopping => Stopping', \A i : Doomed(i) => Doomed(i)',
         \A b \in Boards : acked[b] = None => acked'[b] = None,
         \A b \in Boards : acked'[b] # None =>
           /\ acked[b] # None /\ acked'[b].id = acked[b].id /\ acked'[b].files = acked[b].files
           /\ acked'[b].told => acked[b].told \/ ~ Doomed(acked[b].id)
  PROVE  AckInv'
<1>1. \A b, f : Holds(b, f) => Holds(b, f)'
  BY HoldsOn
<1>2. (\A t \in Timers : Is(t, "open") => running \/ Stopping)'
  BY DEF AllInv, AckInv, Is
<1>3. (flight["cmd"] # None /\ cmd.request.type = "stop" => acked[flight["cmd"].board] = None)'
  <2>1. flight["cmd"] # None => flight["cmd"].board \in Boards
    BY CmdSaver DEF AllInv, WorkerInv, WTypeOK, Flights
  <2> QED BY <2>1 DEF AllInv, AckInv
<1>4. (Is("cmd", "saved") /\ cmd.request.type # "stop"
           => Stopping \/ Holds(cmd.request.board, cmd.request.image.files))'
  <2> SUFFICES ASSUME Is("cmd", "saved")', cmd'.request.type # "stop", ~ Stopping
               PROVE  Holds(cmd.request.board, cmd.request.image.files)'
    OBVIOUS
  <2>1. PICK b : b = cmd.request.board
    OBVIOUS
  <2>2. PICK f : f = cmd.request.image.files
    OBVIOUS
  <2>3. Holds(b, f)
    BY <2>1, <2>2 DEF AllInv, AckInv, Is
  <2>4. Holds(b, f)'
    BY <1>1, <2>3
  <2> QED BY <2>1, <2>2, <2>4 DEF Holds, Is
<1>5. ASSUME NEW b \in Boards, acked'[b] # None PROVE SafeAck(b)'
  <2>1. PICK a : a = acked[b]
    OBVIOUS
  <2>2. PICK i : i = a.id
    OBVIOUS
  <2>3. PICK f : f = a.files
    OBVIOUS
  <2>4. acked'[b].id = i /\ acked'[b].files = f /\ (acked'[b].told => a.told \/ ~ Doomed(i))
    BY <1>5, <2>1, <2>2, <2>3
  <2>5. (~ a.told /\ Doomed(i)) \/ Holds(b, f)
    BY <1>5, <2>1, <2>2, <2>3 DEF AllInv, AckInv, SafeAck
  <2>6. (~ acked'[b].told /\ Doomed(i)') \/ Holds(b, f)'
    BY <1>1, <2>4, <2>5
  <2> QED BY <2>4, <2>6, StaysSafe
<1>6. \A b \in Boards : SafeAck(b)'
  BY <1>5 DEF SafeAck
<1> QED BY <1>2, <1>3, <1>4, <1>6 DEF AckInv

LEMMA PostKeeps ==
  ASSUME AllInv, CleanInv, NEW c \in Commands, Post(c)
  PROVE  AllInv' /\ CleanInv'
<1>1. Receive(c) /\ UNCHANGED acked /\ UNCHANGED <<cmd, qemuVars, editable, flight, stored>>
  BY DEF Post, Receive
<1>2. WorkerInv'
  BY <1>1, ReceiveKeeps DEF AllInv
<1>3. AdapterOK'
  BY DEF Post, AllInv, AdapterOK
<1>4. IdsInv'
  BY PostIds DEF AllInv
<1>5. (Stopping => Stopping') /\ \A i : Doomed(i) => Doomed(i)'
  <2>1. CASE replies' = replies
    BY <2>1 DEF Stopping, Doomed
  <2>2. CASE Reply(c, FALSE)
    <3>1. PICK r : r = [id |-> c.id, ok |-> FALSE, type |-> c.type]
      OBVIOUS
    <3>2. r \in Results
      BY <3>1 DEF Results, Commands
    <3>3. replies' = Append(replies, r)
      BY <2>2, <3>1 DEF Reply
    <3>4. WTypeOK
      BY DEF AllInv, WorkerInv
    <3> QED BY <3>2, <3>3, <3>4, More
  <2> QED BY <1>1, <2>1, <2>2 DEF Receive
<1>6. AckInv'
  BY <1>1, <1>5, AdapterAcks DEF qemuVars
<1>7. CleanInv'
  BY <1>1 DEF CleanInv, CleanFlights, Clean, Is, qemuVars
<1> QED BY <1>2, <1>3, <1>4, <1>6, <1>7 DEF AllInv

LEMMA ResolveKeeps ==
  ASSUME AllInv, CleanInv, replies # <<>>, Resolve(Head(replies)), ~ StopOk(Head(replies)),
         UNCHANGED stored
  PROVE  AllInv' /\ CleanInv'
<1>1. WTypeOK /\ AdapterOK
  BY DEF AllInv, WorkerInv
<1>2. UNCHANGED <<queue, cmd, qemuVars, editable, flight>> /\ replies' = Tail(replies)
  BY DEF Resolve
<1>3. WorkerInv'
  <2>1. replies' \in Seq(Results)
    BY <1>1, <1>2, HeadTailProperties DEF WTypeOK
  <2> QED BY <1>2, <2>1 DEF AllInv, WorkerInv, WTypeOK, Held, QemuInv, CommandInv, FlightInv, At, qemuVars
<1>4. AdapterOK' /\ \A b \in Boards : acked'[b] = Heard(acked[b], Head(replies).id)
  BY <1>1, ResolveSays
<1>5. IdsInv'
  BY ResolveIds DEF AllInv
<1>6. (Stopping => Stopping') /\ \A i : Doomed(i) => Doomed(i)' /\ Head(replies).id # i
  BY <1>1, <1>2, Fewer
<1>7. PICK i : i = Head(replies).id
  OBVIOUS
<1>8. ~ Doomed(i)
  BY <1>6, <1>7
<1>9. \A b \in Boards :
        /\ acked[b] = None => acked'[b] = None
        /\ acked'[b] # None =>
             /\ acked[b] # None /\ acked'[b].id = acked[b].id /\ acked'[b].files = acked[b].files
             /\ acked'[b].told => acked[b].told \/ ~ Doomed(acked[b].id)
  <2>1. TAKE b \in Boards
  <2>2. PICK a : a = acked[b]
    OBVIOUS
  <2>3. a \in Acks \cup {None} /\ acked'[b] = Heard(a, i)
    BY <1>1, <1>4, <1>7, <2>2 DEF AdapterOK
  <2>4. /\ a # None => Heard(a, i) # None /\ Heard(a, i).id = a.id /\ Heard(a, i).files = a.files
        /\ a = None => Heard(a, i) = None
        /\ a # None /\ Heard(a, i).told => a.told \/ a.id = i
    BY <2>3, HeardAck
  <2> QED BY <1>8, <2>2, <2>3, <2>4
<1>10. AckInv'
  BY <1>2, <1>6, <1>9, AdapterAcks DEF qemuVars
<1>11. CleanInv'
  BY <1>2 DEF CleanInv, CleanFlights, Clean, Is, qemuVars
<1> QED BY <1>3, <1>4, <1>5, <1>10, <1>11 DEF AllInv

(* What a termination leaves: the store, and what callers were told.       *)
LEMMA TerminateKeeps ==
  ASSUME AllInv, Terminate, UNCHANGED stored
  PROVE  AllInv' /\ CleanInv'
<1>1. Terminated
  BY DEF Terminate
<1>2. WorkerInv'
  BY <1>1, TerminatedKeeps DEF AllInv, WorkerInv, WTypeOK
<1>3. AdapterOK'
  BY TerminateSays DEF AllInv
<1>4. IdsInv'
  BY <1>1, TerminatedIds
<1>5. /\ \A s \in Savers : flight'[s] = None
      /\ cmd' = None /\ active' = None /\ editable' = None
  BY <1>1 DEF Terminated
<1>6. CleanInv'
  BY <1>5 DEF CleanInv, CleanFlights
<1>7. ASSUME NEW b \in Boards, acked'[b] # None PROVE SafeAck(b)'
  <2>1. acked[b] # None /\ acked[b].told /\ acked'[b] = acked[b]
    BY <1>7 DEF Terminate, Told
  <2>2. PICK f : f = acked[b].files
    OBVIOUS
  <2>3. Holds(b, f)
    BY <2>1, <2>2 DEF AllInv, AckInv, SafeAck
  <2>4. Holds(b, f)'
    BY <1>5, <2>3, CmdSaver DEF Holds, Is
  <2>5. PICK i : i = acked[b].id
    OBVIOUS
  <2> QED BY <2>1, <2>2, <2>4, <2>5, StaysSafe
<1>8. \A b \in Boards : SafeAck(b)'
  BY <1>7 DEF SafeAck
<1>9. AckInv'
  BY <1>5, <1>8, CmdSaver DEF AckInv, Is
<1> QED BY <1>2, <1>3, <1>4, <1>6, <1>9 DEF AllInv

LEMMA DeliverKeeps ==
  ASSUME AllInv, CleanInv, Deliver
  PROVE  AllInv' /\ CleanInv'
<1>1. replies # <<>> /\ UNCHANGED stored
  BY DEF Deliver
<1>2. Waiting(Head(replies))
  <2>1. replies \in Seq(Results)
    BY DEF AllInv, WorkerInv, WTypeOK
  <2>2. Len(replies) \in Nat /\ Len(replies) > 0 /\ Head(replies) = replies[1]
    BY <1>1, <2>1, Shortened
  <2>3. Head(replies).id \in Waiters
    BY <2>2 DEF AllInv, IdsInv
  <2> QED BY <2>3 DEF Waiters, Waiting
<1>3. CASE StopOk(Head(replies))
  <2>1. Terminate
    BY <1>2, <1>3 DEF Deliver, StopOk, StopResolves
  <2> QED BY <1>1, <2>1, TerminateKeeps
<1>4. CASE ~ StopOk(Head(replies))
  <2>1. Resolve(Head(replies))
    BY <1>2, <1>4 DEF Deliver, StopOk
  <2> QED BY <1>1, <1>4, <2>1, ResolveKeeps
<1> QED BY <1>3, <1>4

----------------------------------------------------------------------------
RuntimeInv == AllInv /\ CleanInv

LEMMA InitHolds ==
  ASSUME Init
  PROVE  RuntimeInv
<1>1. Fresh /\ pending = {} /\ acked = [b \in Boards |-> None]
  BY DEF Init
<1>2. stored \in [Boards -> StoredCards \cup {None}]
  <2>1. TemplateImage \in Images
    BY WorkerAssumption DEF TemplateImage, Images
  <2>2. \A x \in BOOLEAN : [image |-> TemplateImage, conflict |-> x] \in StoredCards
    BY <2>1 DEF StoredCards
  <2> QED BY <2>2 DEF Init
<1>3. \A s \in Savers : flight[s] = None
  BY <1>1 DEF Fresh
<1>4. WorkerInv
  <2>1. queue \in Seq(Commands) /\ replies \in Seq(Results) /\ Len(queue) = 0 /\ cmd = None
    BY <1>1, EmptySeq DEF Fresh
  <2>2. flight \in [Savers -> Flights \cup {None}]
    BY <1>1 DEF Fresh
  <2>3. Held <= MaxQueue
    BY <2>1, WorkerAssumption DEF Held
  <2>4. WTypeOK
    BY <1>1, <1>2, <2>1, <2>2, <2>3 DEF Fresh, WTypeOK
  <2>5. FlightInv
    BY <1>3, CmdSaver DEF FlightInv
  <2> QED BY <1>1, <2>4, <2>5 DEF Fresh, WorkerInv, QemuInv, CommandInv
<1>5. AdapterOK
  BY <1>1 DEF AdapterOK
<1>6. IdsInv
  <2>1. Len(queue) = 0 /\ Len(replies) = 0 /\ cmd = None /\ 1..0 = {}
    BY <1>1, EmptySeq DEF Fresh
  <2> QED BY <2>1 DEF IdsInv
<1>7. AckInv
  BY <1>1, <1>3, CmdSaver DEF AckInv, SafeAck, Is
<1>8. CleanInv
  BY <1>1, <1>3 DEF CleanInv, CleanFlights, Fresh
<1> QED BY <1>4, <1>5, <1>6, <1>7, <1>8 DEF RuntimeInv, AllInv

LEMMA NextKeeps ==
  ASSUME RuntimeInv, Next
  PROVE  RuntimeInv'
<1>1. AllInv /\ CleanInv /\ WorkerInv
  BY DEF RuntimeInv, AllInv
<1>2. CASE Works
  <2>1. Handle \/ Save \/ Persist \/ GuestWrites
    BY <1>2 DEF Works
  <2>2. WorkerInv' /\ CleanInv'
    BY <1>1, <2>1, WorkKeeps, WorkClean
  <2>3. AdapterOK' /\ IdsInv'
    BY <1>1, <1>2, WorksSays, WorksIds DEF AllInv
  <2>4. AckInv'
    BY <1>1, <1>2, WorksAcks
  <2> QED BY <2>2, <2>3, <2>4 DEF RuntimeInv, AllInv
<1>3. CASE Deliver
  BY <1>1, <1>3, DeliverKeeps DEF RuntimeInv
<1>4. CASE WorkerFails
  BY <1>1, <1>4, TerminateKeeps DEF RuntimeInv, WorkerFails
<1>5. CASE \E c \in Commands : Post(c)
  BY <1>1, <1>5, PostKeeps DEF RuntimeInv
<1> QED BY <1>2, <1>3, <1>4, <1>5 DEF Next

LEMMA StutterKeeps ==
  ASSUME RuntimeInv, UNCHANGED vars
  PROVE  RuntimeInv'
<1> USE DEF vars, wvars, qemuVars
<1>1. WorkerInv'
  BY DEF RuntimeInv, AllInv, WorkerInv, WTypeOK, Held, QemuInv, CommandInv, FlightInv, At
<1>2. AdapterOK' /\ IdsInv'
  BY DEF RuntimeInv, AllInv, AdapterOK, IdsInv, Waiters
<1>3. AckInv'
  BY DEF RuntimeInv, AllInv, AckInv, SafeAck, Doomed, Holds, Stopping, StopOk, Is
<1>4. CleanInv'
  BY DEF RuntimeInv, CleanInv, CleanFlights, Clean, Is
<1> QED BY <1>1, <1>2, <1>3, <1>4 DEF RuntimeInv, AllInv

LEMMA RuntimeHolds == Spec => []RuntimeInv
<1>1. RuntimeInv /\ [Next]_vars => RuntimeInv'
  BY NextKeeps, StutterKeeps
<1> QED BY <1>1, InitHolds, PTL DEF Spec

----------------------------------------------------------------------------
(* Every variable has its type, and the queue its bound: no handler of     *)
(* the worker or of the adapter reads a card, a module or a command that   *)
(* is not there.                                                           *)
THEOREM VariablesHaveTypes == Spec => []TypeOK
<1>1. RuntimeInv => TypeOK
  BY DEF RuntimeInv, AllInv, WorkerInv, AdapterOK, TypeOK
<1> QED BY <1>1, RuntimeHolds, PTL

(* An edit or import whose caller was told of it is in the store: no       *)
(* interval's save of the guest's card begun before it, of this worker or  *)
(* of one terminated by a stop or a failure, undoes it                     *)
(* (src/browserSimulatorRuntimeWorker.js).                                 *)
THEOREM AckedIsStored == Spec => []AckedStored
<1>1. RuntimeInv => AckedStored
  BY DEF RuntimeInv, AllInv, AckInv, SafeAck, AckedStored, Told, Holds
<1> QED BY <1>1, RuntimeHolds, PTL

(* A step that changes the stored card of another template commits the     *)
(* import of that board.                                                   *)
LEMMA OnlyImportsReplace ==
  ASSUME RuntimeInv, Next, NEW b \in Boards,
         stored[b] # None, stored[b].conflict, stored'[b] # stored[b]
  PROVE  At("save", {"import"}) /\ cmd.request.board = b
<1>1. AllInv /\ CleanInv /\ WorkerInv
  BY DEF RuntimeInv, AllInv
<1>2. Works
  BY DEF Next, Deliver, WorkerFails, Post, Receive
<1>3. PICK s \in Savers : Commit(s)
  <2>1. CASE Handle
    BY <1>1, <2>1, HandleSays DEF HandlerSays
  <2>2. CASE Save
    BY <2>2 DEF Save, Lose
  <2>3. CASE Persist \/ GuestWrites
    BY <2>3 DEF Persist, TimerFires, TimerReturns, GuestWrites
  <2> QED BY <1>2, <2>1, <2>2, <2>3 DEF Works
<1>4. flight[s] # None /\ flight[s].board = b /\ Is(s, "open")
  BY <1>1, <1>3, Committed DEF Commit
<1>5. s = "cmd" /\ cmd.request.type = "import"
  BY <1>1, <1>4 DEF CleanInv, CleanFlights, Clean
<1> QED BY <1>1, <1>4, <1>5 DEF WorkerInv, FlightInv, At

(* A stored card of another template is replaced by an import alone        *)
(* (docs/sd-transfer-contract.md:52): a start, an edit, the interval and a *)
(* stop write back only cards of boards without the conflict.              *)
THEOREM ConflictIsKept == Spec => ConflictKept
<1>1. RuntimeInv /\ [Next]_vars
      => [\A b \in Boards : stored[b] # None /\ stored[b].conflict /\ stored'[b] # stored[b]
                            => At("save", {"import"}) /\ cmd.request.board = b]_vars
  BY OnlyImportsReplace
<1> QED BY <1>1, RuntimeHolds, PTL DEF Spec, ConflictKept
=============================================================================
