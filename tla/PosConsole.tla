----------------------------- MODULE PosConsole -----------------------------
(***************************************************************************)
(* One call of the POS console client (createPosConsoleClient in           *)
(* src/posDevBridge.ts): it writes command lines to the guest's console    *)
(* and reads the guest's answers from the serial log, polling by request   *)
(* id until an answer settles the operation.                               *)
(*                                                                         *)
(* The guest's firmware is external.  It admits one operation at a time,   *)
(* refuses others as busy without keeping them, answers a known request    *)
(* with the state of its job and an unknown one with request_not_found.    *)
(* Answers may be late by any time; with Lossy the console loses lines in  *)
(* both directions, with Restarts the guest restarts and forgets its jobs. *)
(***************************************************************************)
EXTENDS Naturals, Sequences, FiniteSets

CONSTANTS MaxIds,     \* request ids the call may draw
          MaxLines,   \* command lines waiting in the console
          MaxAnswers, \* answers waiting in the serial log
          Lossy,      \* the console may lose lines
          Restarts,   \* the guest may restart
          NoAnswer

ASSUME ConsoleAssumption == MaxIds \in Nat \ {0} /\ Lossy \in BOOLEAN /\ Restarts \in BOOLEAN

Ids == 1..MaxIds

VARIABLES operation, \* "install", or the read-only "capabilities"
          pc,        \* "send", "await", "refused", "done" or "failed"
          id,        \* requestId
          sent,
          latest,
          terminal,  \* terminalResult
          heard,     \* generation differs from the one before the line
          input,     \* command lines the guest has not read
          output,    \* answers the client has not read
          jobs,      \* the guest's jobs
          admitted,  \* history: ids the guest admitted
          completed, \* history: ids whose operation the guest completed
          disturbed  \* history: a line or answer was lost, or the guest restarted

clientVars == <<operation, pc, id, sent, latest, terminal, heard>>
guest == <<jobs, admitted, completed>>
posVars == <<clientVars, input, output, guest, disturbed>>

Lines == [id : Ids, kind : {"operation", "status"}]
(* An answer names the operation it is about; error is set when it failed. *)
Answers == [id : Ids, about : {"operation", "status"},
            state : {"queued", "completed", "failed"},
            error : {"none", "busy", "request_not_found", "other"}]
ASSUME NoneAssumption == NoAnswer \notin Answers

PosInit ==
  /\ operation \in {"install", "capabilities"}
  /\ pc = "send"
  /\ id = 1
  /\ sent = FALSE
  /\ latest = NoAnswer
  /\ terminal = NoAnswer
  /\ heard = FALSE
  /\ input = <<>>
  /\ output = <<>>
  /\ jobs = [i \in Ids |-> "none"]
  /\ admitted = {}
  /\ completed = {}
  /\ disturbed = FALSE

----------------------------------------------------------------------------
(* Seeded faults: an accepted operation counts as completed; a missing     *)
(* answer is a refusal.                                                    *)
Result == IF terminal # NoAnswer THEN terminal ELSE latest
Ok(r) == r.state # "failed"

CompletesWhenOk(r) == r.about = "operation" /\ Ok(r)
RefusedOrSilent(r) == r = NoAnswer \/ r.error = "busy"

----------------------------------------------------------------------------
(* The client.                                                             *)

Line == [id |-> id,
         kind |-> IF sent /\ operation # "capabilities" THEN "status" ELSE "operation"]

(* A host that refuses the line (no guest runs yet) leaves sent alone.     *)
SendLine ==
  /\ pc = "send"
  /\ \/ /\ Len(input) < MaxLines
        /\ input' = Append(input, Line)
        /\ sent' = TRUE
     \/ UNCHANGED <<input, sent>>
  /\ pc' = "await"
  /\ heard' = FALSE
  /\ UNCHANGED <<operation, id, latest, terminal, output, guest, disturbed>>

(* The serial log handler: only an answer to the current id counts, and    *)
(* the first terminal one about the operation is kept.                     *)
Settling(r) == r.about = "operation" /\ r.state \in {"completed", "failed"}

Hear ==
  /\ output # <<>>
  /\ output' = Tail(output)
  /\ LET r == Head(output) IN
     IF r.id = id /\ pc \in {"send", "await", "refused"}
     THEN /\ terminal' = IF terminal = NoAnswer /\ Settling(r) THEN r ELSE terminal
          /\ latest' = r
          /\ heard' = TRUE
     ELSE UNCHANGED <<terminal, latest, heard>>
  /\ UNCHANGED <<operation, pc, id, sent, input, guest, disturbed>>

Completes(r) == Settling(r) /\ Ok(r)
Refused(r) == r # NoAnswer /\ Settling(r) /\ r.error = "busy"
Unknown(r) == r # NoAnswer /\ r.error = "request_not_found"

(* An answer was heard, or a second went by without one.                   *)
Decide ==
  /\ pc = "await"
  /\ CASE Refused(Result) -> pc' = "refused" /\ UNCHANGED <<sent, latest>>
       [] Result = NoAnswer -> pc' = "send" /\ UNCHANGED <<sent, latest>>
       [] Unknown(Result) -> pc' = "send" /\ sent' = FALSE /\ latest' = NoAnswer
       [] OTHER ->
            /\ pc' = IF ~ Ok(Result) THEN "failed"
                     ELSE IF Completes(Result) THEN "done" ELSE "send"
            /\ UNCHANGED <<sent, latest>>
  /\ UNCHANGED <<operation, id, terminal, heard, input, output, guest, disturbed>>

(* The back-off of a refused operation is over.                            *)
Retry ==
  /\ pc = "refused"
  /\ id < MaxIds
  /\ id' = id + 1
  /\ latest' = NoAnswer
  /\ terminal' = NoAnswer
  /\ sent' = FALSE
  /\ pc' = "send"
  /\ UNCHANGED <<operation, heard, input, output, guest, disturbed>>

(* The deadline passed, or the signal aborted the call.                    *)
Abandon ==
  /\ pc \in {"send", "await", "refused"}
  /\ pc' = "failed"
  /\ UNCHANGED <<operation, id, sent, latest, terminal, heard, input, output, guest, disturbed>>

----------------------------------------------------------------------------
(* The guest.                                                              *)

Answer(i, about, state, error) ==
  output' = Append(output, [id |-> i, about |-> about, state |-> state, error |-> error])
JobAnswer(i) == Answer(i, "operation", jobs[i], IF jobs[i] = "failed" THEN "other" ELSE "none")

Working == \E i \in Ids : jobs[i] = "queued"

ReadOperation(i) ==
  \/ /\ operation = "capabilities"
     /\ Answer(i, "operation", "completed", "none")
     /\ UNCHANGED guest
  \/ /\ operation = "install" /\ jobs[i] # "none"
     /\ JobAnswer(i)
     /\ UNCHANGED guest
  \/ /\ operation = "install" /\ jobs[i] = "none" /\ ~ Working
     /\ jobs' = [jobs EXCEPT ![i] = "queued"]
     /\ admitted' = admitted \cup {i}
     /\ Answer(i, "operation", "queued", "none")
     /\ UNCHANGED completed
  \/ /\ operation = "install" /\ jobs[i] = "none"   \* another job of the guest, or of this call
     /\ Answer(i, "operation", "failed", "busy")
     /\ UNCHANGED guest

ReadStatus(i) ==
  /\ IF jobs[i] = "none" THEN Answer(i, "status", "failed", "request_not_found")
                         ELSE JobAnswer(i)
  /\ UNCHANGED guest

ReadLine ==
  /\ input # <<>>
  /\ Len(output) < MaxAnswers
  /\ input' = Tail(input)
  /\ LET line == Head(input) IN
     IF line.kind = "operation" THEN ReadOperation(line.id) ELSE ReadStatus(line.id)
  /\ UNCHANGED <<clientVars, disturbed>>

Finish(i) ==
  /\ jobs[i] = "queued"
  /\ \/ jobs' = [jobs EXCEPT ![i] = "completed"] /\ completed' = completed \cup {i}
     \/ jobs' = [jobs EXCEPT ![i] = "failed"] /\ UNCHANGED completed
  /\ UNCHANGED <<clientVars, input, output, admitted, disturbed>>

LoseLine ==
  /\ Lossy
  /\ input # <<>>
  /\ input' = Tail(input)
  /\ disturbed' = TRUE
  /\ UNCHANGED <<clientVars, output, guest>>

LoseAnswer ==
  /\ Lossy
  /\ output # <<>>
  /\ output' = Tail(output)
  /\ disturbed' = TRUE
  /\ UNCHANGED <<clientVars, input, guest>>

Restart ==
  /\ Restarts
  /\ \E i \in Ids : jobs[i] # "none"
  /\ jobs' = [i \in Ids |-> "none"]
  /\ input' = <<>>
  /\ disturbed' = TRUE
  /\ UNCHANGED <<clientVars, output, admitted, completed>>

----------------------------------------------------------------------------
PosNext == \/ SendLine
           \/ Hear
           \/ Decide
           \/ Retry
           \/ Abandon
           \/ ReadLine
           \/ \E i \in Ids : Finish(i)
           \/ LoseLine
           \/ LoseAnswer
           \/ Restart

PosSpec == PosInit /\ [][PosNext]_posVars

----------------------------------------------------------------------------
(* "A request is complete only when the firmware has returned an actual    *)
(* response of the same requestId; a line sent is not an installation"     *)
(* (posDevBridge.ts:41): an install that is reported done was completed by *)
(* the guest, whatever was lost, late, asked again or restarted.           *)
CompletionIsReal == pc = "done" /\ operation = "install" => id \in completed

(* "Only an explicit refusal to enqueue is retried under a new request id; *)
(* an operation whose ACK is unknown only asks for its original id"        *)
(* (posDevBridge.ts:97), and "an admitted install keeps its ID"            *)
(* (tests/pos-dev-bridge.test.mjs): the guest admits the operation of one  *)
(* call under one id at most.                                              *)
AdmittedOnce == Cardinality(admitted) <= 1

(* That holds of a console that is slow but loses nothing.                 *)
AdmittedOnceUnlessLost == disturbed \/ AdmittedOnce
=============================================================================
