--------------------------- MODULE BrowserRuntime ---------------------------
(***************************************************************************)
(* The browser host adapter (WorkerBrowserSimulatorRuntimeAdapter in       *)
(* src/browserSimulatorRuntime.ts) and its worker.  The adapter posts      *)
(* commands without waiting for one another, resolves them by request id,  *)
(* and terminates the worker when a stop succeeds or the worker fails: the *)
(* worker's queue, its saves in flight and its answers die with it.        *)
(***************************************************************************)
EXTENDS BrowserWorker

VARIABLES pending,  \* pendingRequests: the commands whose caller waits
          acked     \* history: the last edit or import of a board the worker
                    \* answered with ok, and whether its caller was told

vars == <<wvars, pending, acked>>

Acks == [id : Ids, files : Files, told : BOOLEAN]
ASSUME AcksAssumption == None \notin Acks

Init ==
  /\ Fresh
  /\ stored \in [Boards -> {None} \cup {[image |-> TemplateImage, conflict |-> x] : x \in BOOLEAN}]
  /\ pending = {}
  /\ acked = [b \in Boards |-> None]

----------------------------------------------------------------------------
Told(b) == acked[b] # None /\ acked[b].told

(* Seeded fault: a stop leaves the worker alive.                           *)
TerminateNever(r) == pending' = {c \in pending : c.id # r.id}
                     /\ replies' = Tail(replies)
                     /\ UNCHANGED <<queue, cmd, qemuVars, editable, flight, acked>>

----------------------------------------------------------------------------
(* terminateWorker: every waiting caller is refused.  A save that has not  *)
(* committed never will.                                                   *)
Terminate == /\ Terminated
             /\ pending' = {}
             /\ acked' = [b \in Boards |-> IF Told(b) THEN acked[b] ELSE None]

(* allocateRequestId counts up without bound; here an id is free again     *)
(* once nobody waits for it.                                               *)
UnusedIds == Ids \ {c.id : c \in pending}

(* sendCommand.                                                            *)
Post(c) ==
  /\ c.id \in UnusedIds
  /\ Receive(c)
  /\ pending' = pending \cup {c}
  /\ UNCHANGED acked

(* handleWorkerMessage, resolvePendingResult and statusOrThrow.            *)
Waiting(r) == \E c \in pending : c.id = r.id

Resolve(r) ==
  /\ pending' = {c \in pending : c.id # r.id}
  /\ replies' = Tail(replies)
  /\ acked' = [b \in Boards |-> IF acked[b] # None /\ acked[b].id = r.id
                               THEN [acked[b] EXCEPT !.told = TRUE]
                               ELSE acked[b]]
  /\ UNCHANGED <<queue, cmd, qemuVars, editable, flight>>

StopResolves(r) == Terminate

Deliver ==
  /\ replies # <<>>
  /\ LET r == Head(replies) IN
     IF r.ok /\ r.type = "stop" /\ Waiting(r) THEN StopResolves(r) ELSE Resolve(r)
  /\ UNCHANGED stored

(* handleWorkerError.                                                      *)
WorkerFails ==
  /\ ~ Fresh
  /\ Terminate
  /\ UNCHANGED stored

----------------------------------------------------------------------------
(* What is acknowledged of a board: until a save of the guest's card       *)
(* begins, or the save of a later edit or import commits.                  *)
GuestSaves(b) ==
  \E s \in Savers : /\ flight[s] = None
                    /\ flight'[s] # None
                    /\ flight'[s].board = b
                    /\ s = "cmd" => At("begin", {"stop"})

Changing(b) == At("save", {"edit", "import"}) /\ cmd.request.board = b
Commits(b) == Changing(b) /\ Is("cmd", "open") /\ flight'["cmd"].state = "saved"
Answers(b) == Changing(b) /\ Is("cmd", "saved") /\ flight'["cmd"] = None

Acknowledged(b) ==
  IF Answers(b)
  THEN [id |-> cmd.request.id, files |-> cmd.request.image.files, told |-> FALSE]
  ELSE IF GuestSaves(b) \/ Commits(b) THEN None ELSE acked[b]

Works ==
  /\ Handle \/ Save \/ Persist \/ GuestWrites
  /\ acked' = [b \in Boards |-> Acknowledged(b)]
  /\ UNCHANGED pending

Next == Works \/ Deliver \/ WorkerFails \/ \E c \in Commands : Post(c)

(* The worker's handlers run until they answer; a fetch, a module load and *)
(* an IndexedDB transaction end; a message posted is delivered.            *)
Fairness ==
  /\ WF_vars(Works /\ Handle)
  /\ \A s \in Savers : WF_vars(Works /\ (Commit(s) \/ Lose(s)))
  /\ WF_vars(Deliver)

Spec == Init /\ [][Next]_vars
FairSpec == Spec /\ Fairness

----------------------------------------------------------------------------
(* Every variable has its type.                                            *)
TypeOK ==
  /\ WTypeOK
  /\ pending \in SUBSET Commands
  /\ acked \in [Boards -> Acks \cup {None}]

(* An edit or import the caller was told of is in the store, and stays the *)
(* board's card until another commits or a save of the guest's card begins *)
(* after it: no save begun earlier, of this worker or of one terminated,   *)
(* undoes it.                                                              *)
AckedStored ==
  \A b \in Boards : Told(b) => stored[b] # None /\ stored[b].image.files = acked[b].files

(* A stored card of another template is replaced by an import alone; no    *)
(* start, edit or persist writes over the user's old image                 *)
(* (docs/sd-transfer-contract.md:52).                                      *)
ConflictKept ==
  [][\A b \in Boards : stored[b] # None /\ stored[b].conflict /\ stored'[b] # stored[b]
                       => At("save", {"import"}) /\ cmd.request.board = b]_vars

(* Every request is answered or refused, however starts, stops, saves and  *)
(* worker failures fall.                                                   *)
EveryRequestSettles ==
  \A id \in Ids : (\E c \in pending : c.id = id) ~> ~ (\E c \in pending : c.id = id)

=============================================================================
