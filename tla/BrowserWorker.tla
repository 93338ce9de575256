--------------------------- MODULE BrowserWorker ---------------------------
(***************************************************************************)
(* The browser runtime worker (src/browserSimulatorRuntimeWorker.js): its  *)
(* command queue, the lifecycle of the QEMU module, the cached SD card and *)
(* the interval that persists the guest's card.                            *)
(*                                                                         *)
(* Commands run one at a time, each as the steps between its awaits.  The  *)
(* interval is not a command: its persists overlap commands and each       *)
(* other.  A save of the SD card is the atomic slot of SdSnapshot: begun,  *)
(* then committed or lost, then returned to its caller.                    *)
(***************************************************************************)
EXTENDS Naturals, Sequences, FiniteSets

CONSTANTS Boards,
          Files,      \* contents of the SD card's file system
          Ids,        \* request ids
          Timers,     \* interval persists that may be in flight together
          MaxQueue,   \* commands the worker holds, the running one included
          Template,   \* the seed card of a package
          None

ASSUME WorkerAssumption == MaxQueue \in Nat \ {0} /\ Template \in Files

(* An SD image: its files, and whether it holds the simulated location.    *)
Images == [files : Files, located : BOOLEAN]
Located(img) == [img EXCEPT !.located = TRUE]
TemplateImage == [files |-> Template, located |-> FALSE]

VARIABLES queue,     \* commands accepted and not yet begun
          cmd,       \* the command that owns the worker
          running,   \* running
          module,    \* qemuModulePromise: "none", "loaded" or "rejected"
          instance,  \* the module it resolved to: its board and SD file in FS
          attached,  \* qemuInstance is that module
          active,    \* board of activeSdCard, or None
          editable,  \* editableSdCard
          timer,     \* sdCardPersistTimer is set
          flight,    \* saves in flight, of the timer and of the command
          stored,    \* the stored card of each board
          replies    \* result messages posted and not yet delivered

qemuVars == <<running, module, instance, attached, active, timer>>
wvars == <<queue, cmd, qemuVars, editable, flight, stored, replies>>

Savers == Timers \cup {"cmd"}

(* editableSdCard.  known: templateArtifactIdentity is the package's, which *)
(* persistActiveSdCard's own record lacks; conflict: the stored template   *)
(* fingerprint is another package's.                                       *)
Cards == [board : Boards, image : Images, persisted : BOOLEAN, known : BOOLEAN,
          conflict : BOOLEAN]
StoredCards == [image : Images, conflict : BOOLEAN]
Instances == [board : Boards, sd : Images]
Types == {"start", "stop", "edit", "import", "read"}
(* A command carries what its type needs: a stop no board, an edit the     *)
(* files it leaves, an import an image.                                    *)
Commands ==
  {c \in [id : Ids, type : Types, board : Boards \cup {None}, image : Images \cup {None}] :
     /\ (c.type = "stop") <=> (c.board = None)
     /\ (c.type \in {"edit", "import"}) <=> (c.image # None)
     /\ c.type = "edit" => ~ c.image.located}
Steps == {"begin", "load", "assign", "prepare", "module", "main", "edit", "save"}
Flights == [board : Boards, image : Images, state : {"open", "saved", "lost"}]
Results == [id : Ids, ok : BOOLEAN, type : Types]
Runs == [step : Steps, request : Commands, card : Cards \cup {None}, shared : BOOLEAN]
ASSUME NoneAssumption ==
  /\ None \notin Boards /\ None \notin Images /\ None \notin Runs /\ None \notin Cards
  /\ None \notin StoredCards /\ None \notin Instances /\ None \notin Flights
ASSUME TimersAssumption == "cmd" \notin Timers

(* A new worker; the store outlives it.                                    *)
Fresh == /\ queue = <<>>
         /\ cmd = None
         /\ running = FALSE
         /\ module = "none"
         /\ instance = None
         /\ attached = FALSE
         /\ active = None
         /\ editable = None
         /\ timer = FALSE
         /\ flight = [s \in Savers |-> None]
         /\ replies = <<>>

Terminated == /\ queue' = <<>>
              /\ cmd' = None
              /\ running' = FALSE
              /\ module' = "none"
              /\ instance' = None
              /\ attached' = FALSE
              /\ active' = None
              /\ editable' = None
              /\ timer' = FALSE
              /\ flight' = [s \in Savers |-> None]
              /\ replies' = <<>>

----------------------------------------------------------------------------
(* Seeded faults: a full queue drops a command unanswered, a template      *)
(* conflict blocks nothing.                                                *)
Held == Len(queue) + (IF cmd = None THEN 0 ELSE 1)

Reply(c, ok) == replies' = Append(replies, [id |-> c.id, ok |-> ok, type |-> c.type])

ReceiveDrops(c) ==
  /\ queue' = IF Held >= MaxQueue THEN queue ELSE Append(queue, c)
  /\ UNCHANGED <<cmd, qemuVars, editable, flight, stored, replies>>
BlockedNever(card) == FALSE

----------------------------------------------------------------------------
(* The command queue.                                                      *)

(* The message listener accepts a command or answers that the queue is     *)
(* full.                                                                   *)
Receive(c) ==
  /\ IF Held >= MaxQueue THEN Reply(c, FALSE) /\ UNCHANGED queue
                         ELSE queue' = Append(queue, c) /\ UNCHANGED replies
  /\ UNCHANGED <<cmd, qemuVars, editable, flight, stored>>

(* shared: the command's card is still the cached object.                  *)
Begin ==
  /\ cmd = None
  /\ queue # <<>>
  /\ cmd' = [step |-> "begin", request |-> Head(queue), card |-> None, shared |-> FALSE]
  /\ queue' = Tail(queue)
  /\ UNCHANGED <<qemuVars, editable, flight, stored, replies>>

At(step, types) == cmd # None /\ cmd.step = step /\ cmd.request.type \in types
Goto(step) == cmd' = [cmd EXCEPT !.step = step] /\ UNCHANGED replies
Settle(ok) == cmd' = None /\ Reply(cmd.request, ok)

----------------------------------------------------------------------------
(* Saves of the SD card.                                                   *)

Open(s, b, img) == flight' = [flight EXCEPT ![s] = [board |-> b, image |-> img, state |-> "open"]]
Is(s, state) == flight[s] # None /\ flight[s].state = state
Close(s) == flight' = [flight EXCEPT ![s] = None]

Commit(s) ==
  /\ Is(s, "open")
  /\ stored' = [stored EXCEPT ![flight[s].board] = [image |-> flight[s].image, conflict |-> FALSE]]
  /\ flight' = [flight EXCEPT ![s].state = "saved"]
  /\ UNCHANGED <<queue, cmd, qemuVars, editable, replies>>

Lose(s) ==
  /\ Is(s, "open")
  /\ flight' = [flight EXCEPT ![s].state = "lost"]
  /\ UNCHANGED <<queue, cmd, qemuVars, editable, stored, replies>>

(* persistActiveSdCard skips a card the cache says is stored already.      *)
GuestCard == active # None /\ attached
Unchanged == /\ editable # None
             /\ editable.persisted
             /\ editable.board = active
             /\ editable.image = instance.sd
SaveNeeded == GuestCard /\ ~ Unchanged

(* The cache after a guest save: activeSdCard is read again after the wait. *)
GuestCached(s) == [board |-> active, image |-> flight[s].image, persisted |-> TRUE,
                   known |-> FALSE, conflict |-> FALSE]

TimerFires(t) ==
  /\ timer
  /\ flight[t] = None
  /\ SaveNeeded
  /\ Open(t, active, instance.sd)
  /\ UNCHANGED <<queue, cmd, qemuVars, editable, stored, replies>>

TimerReturns(t) ==
  /\ \/ /\ Is(t, "saved")
        /\ editable' = GuestCached(t)
        /\ cmd' = IF cmd = None THEN None ELSE [cmd EXCEPT !.shared = FALSE]
     \/ Is(t, "lost") /\ UNCHANGED <<editable, cmd>>
  /\ Close(t)
  /\ UNCHANGED <<queue, qemuVars, stored, replies>>

----------------------------------------------------------------------------
(* The cached card: loadEditableSdCard and fetchSdImage.                   *)

Fetched(b) ==
  [board |-> b,
   image |-> IF stored[b] = None THEN TemplateImage ELSE stored[b].image,
   persisted |-> stored[b] # None,
   known |-> TRUE,
   conflict |-> stored[b] # None /\ stored[b].conflict]

Cached(b) == editable # None /\ editable.board = b /\ editable.known

(* A template conflict blocks a start and an edit, not an export.          *)
Blocked(card) == card.conflict /\ cmd.request.type \in {"start", "edit"}

Loaded(card) ==
  IF Blocked(card) THEN Settle(FALSE)
  ELSE IF cmd.request.type = "read" THEN Settle(TRUE) \/ Settle(FALSE)
  ELSE /\ cmd' = [cmd EXCEPT !.card = card, !.shared = TRUE,
                             !.step = IF cmd.request.type = "start" THEN "prepare" ELSE "edit"]
       /\ UNCHANGED replies

(* The template fetch or the stored read may fail; what was read is cached *)
(* a step later.                                                           *)
Load ==
  /\ At("load", {"start", "edit", "read"})
  /\ IF Cached(cmd.request.board) THEN Loaded(editable)
     ELSE \/ cmd' = [cmd EXCEPT !.step = "assign", !.card = Fetched(cmd.request.board)] /\ UNCHANGED replies
          \/ Settle(FALSE)
  /\ UNCHANGED <<queue, qemuVars, editable, flight, stored>>

Assign ==
  /\ At("assign", {"start", "edit", "read"})
  /\ editable' = cmd.card
  /\ Loaded(cmd.card)
  /\ UNCHANGED <<queue, qemuVars, flight, stored>>

(* The command changes its card object; the cache shows it while shared.   *)
SetCard(card) == editable' = IF cmd.shared THEN card ELSE editable

----------------------------------------------------------------------------
(* SD commands while stopped.                                              *)

BeginCard ==
  /\ At("begin", {"edit", "read"})
  /\ IF running THEN Settle(FALSE) ELSE Goto("load")
  /\ UNCHANGED <<queue, qemuVars, editable, flight, stored>>

(* The FAT edit works on the cached bytes in place: one that fails half    *)
(* way may have changed them, and no failure undoes it.                    *)
Edit ==
  /\ At("edit", {"edit"})
  /\ \E f \in Files :
       LET card == [cmd.card EXCEPT !.image.files = f] IN
       /\ SetCard(card)
       /\ \/ /\ f = cmd.request.image.files
             /\ Open("cmd", card.board, card.image)
             /\ cmd' = [cmd EXCEPT !.step = "save", !.card = card]
             /\ UNCHANGED replies
          \/ Settle(FALSE) /\ UNCHANGED flight
  /\ UNCHANGED <<queue, qemuVars, stored>>

EditSaved ==
  /\ At("save", {"edit"})
  /\ \/ Is("cmd", "saved") /\ SetCard([cmd.card EXCEPT !.persisted = TRUE]) /\ Settle(TRUE)
     \/ Is("cmd", "lost") /\ UNCHANGED editable /\ Settle(FALSE)
  /\ Close("cmd")
  /\ UNCHANGED <<queue, qemuVars, stored>>

(* An import is refused, or fails its validation, before the store is      *)
(* touched.                                                                *)
Import ==
  /\ At("begin", {"import"})
  /\ \/ /\ ~ running
        /\ Open("cmd", cmd.request.board, cmd.request.image)
        /\ Goto("save")
     \/ Settle(FALSE) /\ UNCHANGED flight
  /\ UNCHANGED <<queue, qemuVars, editable, stored>>

ImportSaved ==
  /\ At("save", {"import"})
  /\ \/ /\ Is("cmd", "saved")
        /\ editable' = [board |-> cmd.request.board, image |-> cmd.request.image,
                        persisted |-> TRUE, known |-> TRUE, conflict |-> FALSE]
        /\ Settle(TRUE)
     \/ Is("cmd", "lost") /\ UNCHANGED editable /\ Settle(FALSE)
  /\ Close("cmd")
  /\ UNCHANGED <<queue, qemuVars, stored>>

----------------------------------------------------------------------------
(* start, fullReboot and stop.                                             *)

(* A missing artifact fails the start before any state changes.            *)
BeginStart ==
  /\ At("begin", {"start"})
  /\ IF running THEN Settle(TRUE) ELSE Goto("load") \/ Settle(FALSE)
  /\ UNCHANGED <<queue, qemuVars, editable, flight, stored>>

(* prepareSimulatedLocationImage swaps an edited copy into the card; it    *)
(* refuses a template conflict once more.                                  *)
Prepare ==
  /\ At("prepare", {"start"})
  /\ LET card == [cmd.card EXCEPT !.image = Located(@)] IN
     \/ /\ ~ card.conflict
        /\ SetCard(card)
        /\ cmd' = [cmd EXCEPT !.step = "module", !.card = card]
        /\ UNCHANGED replies
     \/ Settle(FALSE) /\ UNCHANGED editable
  /\ UNCHANGED <<queue, qemuVars, flight, stored>>

(* loadQemuModule: the promise of an earlier start is used as it is, a     *)
(* rejected one too; a new module gets the card in its file system.        *)
LoadModule ==
  /\ At("module", {"start"})
  /\ \/ /\ module = "loaded"
        /\ attached' = TRUE
        /\ Goto("main")
        /\ UNCHANGED <<module, instance, active>>
     \/ /\ module = "none"
        /\ module' = "loaded"
        /\ instance' = [board |-> cmd.request.board, sd |-> cmd.card.image]
        /\ attached' = TRUE
        /\ active' = cmd.card.board
        /\ Goto("main")
     \/ /\ module \in {"none", "rejected"}
        /\ module' = "rejected"
        /\ active' \in IF module = "none" THEN {active, cmd.card.board} ELSE {active}
        /\ Settle(FALSE)
        /\ UNCHANGED <<instance, attached>>
  /\ UNCHANGED <<queue, running, timer, editable, flight, stored>>

(* startQemuMain: when it throws, the module stays attached.               *)
StartMain ==
  /\ At("main", {"start"})
  /\ \/ running' = TRUE /\ timer' = (active # None) /\ Settle(TRUE)
     \/ UNCHANGED <<running, timer>> /\ Settle(FALSE)
  /\ UNCHANGED <<queue, module, instance, attached, active, editable, flight, stored>>

Shutdown ==
  /\ running' = FALSE
  /\ timer' = FALSE
  /\ attached' = FALSE
  /\ instance' = None
  /\ module' = "none"
  /\ UNCHANGED active

BeginStop ==
  /\ At("begin", {"stop"})
  /\ IF SaveNeeded
     THEN Open("cmd", active, instance.sd) /\ Goto("save") /\ UNCHANGED qemuVars
     ELSE Shutdown /\ Settle(TRUE) /\ UNCHANGED flight
  /\ UNCHANGED <<queue, editable, stored>>

(* A save that failed is reported as an error event; the stop succeeds.    *)
StopSaved ==
  /\ At("save", {"stop"})
  /\ \/ Is("cmd", "saved") /\ editable' = GuestCached("cmd")
     \/ Is("cmd", "lost") /\ UNCHANGED editable
  /\ Close("cmd")
  /\ Shutdown
  /\ Settle(TRUE)
  /\ UNCHANGED <<queue, stored>>

(* The guest writes its SD file.                                           *)
GuestWrites ==
  /\ running
  /\ \E f \in Files \ {instance.sd.files} : instance' = [instance EXCEPT !.sd.files = f]
  /\ UNCHANGED <<queue, cmd, running, module, attached, active, timer, editable, flight, stored, replies>>

Handle == \/ Begin
          \/ BeginCard
          \/ BeginStart
          \/ BeginStop
          \/ Load
          \/ Assign
          \/ Edit
          \/ EditSaved
          \/ Import
          \/ ImportSaved
          \/ Prepare
          \/ LoadModule
          \/ StartMain
          \/ StopSaved

Save == \E s \in Savers : Commit(s) \/ Lose(s)
Persist == \E t \in Timers : TimerFires(t) \/ TimerReturns(t)

WTypeOK ==
  /\ queue \in Seq(Commands) /\ Held <= MaxQueue
  /\ cmd \in Runs \cup {None}
  /\ running \in BOOLEAN /\ attached \in BOOLEAN /\ timer \in BOOLEAN
  /\ module \in {"none", "loaded", "rejected"}
  /\ instance \in Instances \cup {None}
  /\ active \in Boards \cup {None}
  /\ editable \in Cards \cup {None}
  /\ flight \in [Savers -> Flights \cup {None}]
  /\ stored \in [Boards -> StoredCards \cup {None}]
  /\ replies \in Seq(Results)
=============================================================================
