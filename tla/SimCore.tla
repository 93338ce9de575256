------------------------------ MODULE SimCore ------------------------------
(***************************************************************************)
(* The core and the services together: the firmware's task asks for a      *)
(* service by a call that is answered before its ENTRY, an interrupt       *)
(* handler may ask for one in between, and a reset takes the core back     *)
(* while the simulator's tables stay.                                      *)
(***************************************************************************)
EXTENDS XtensaCpu, GuestServices

vars == <<cpuVars, services>>

Init == CpuInit /\ InitServices

CoreSteps == Idle /\ CpuNext /\ UNCHANGED services
Restart   == Reset /\ ServicesRestart

\* The task's call leaves its answer in the caller's window; a handler's own
\* registers are not followed.
Asks(who) ==
    /\ Idle
    /\ IF who = "task" THEN Answered(2, "helper")
       ELSE SavedHandler /\ run = "running" /\ UNCHANGED cpuVars

Locks ==
    /\ Does("locks") /\ Asks("task")
    /\ \/ \E kind \in {"plain", "recursive", "other"} : CreateQueue(kind)
       \/ \E q \in Mine, recursive \in BOOLEAN : TakeMutex(q, recursive) \/ GiveMutex(q, recursive)
Words(who) ==
    /\ Does("words") /\ Asks(who)
    /\ FetchAdd \/ ReadWord(who) \/ CompareExchange(who) \/ TestAndSet(who) \/ Clear(who)
Setup ==
    /\ Does("setup") /\ Asks("task")
    /\ CreateKey \/ (\E k \in MyKeys : SetSpecific(k)) \/ GuardRelease
Inside(start, len) == Span(start, len) \subseteq Cells
MemorySet    == \E dest \in Cells, len \in 1..2 : Inside(dest, len) /\ SetMemory(dest, len)
MemoryCopied == \E dest, src \in Cells, len \in 1..2 :
                    Inside(dest, len) /\ Inside(src, len) /\ CopyMemory(dest, src, len)
StringDuplicated == \E dest, src \in Cells :
                    LET len == StringLength(src) + 1
                    IN /\ Inside(dest, len) /\ Span(dest, len) \intersect Span(src, len) = {}
                       /\ DuplicateString(dest, src)
Copies ==
    /\ Does("copies") /\ Asks("task")
    /\ MemorySet \/ MemoryCopied \/ StringDuplicated

\* A wait begins with the call, a receive at the RETW of the patched function; the
\* rest of either holds the core.
Events ==
    /\ Does("events")
    /\ \/ Asks("task") /\ (StartCommand \/ LookAtStatus)
       \/ Idle /\ AtStub /\ UNCHANGED cpuVars /\ (LookAtStatus \/ ReceiveI2c)
       \/ /\ UNCHANGED cpuVars
          /\ \/ LookAtDma \/ \E waits \in BOOLEAN : Answer(waits)
             \/ \E bit \in SdBits \union DmaBits : RaiseStatus(bit)
             \/ \E outcome \in {"done", "fault"} : FinishTransfer(outcome)

Next == CoreSteps \/ Restart \/ Locks \/ (\E who \in Callers : Words(who))
        \/ Setup \/ Copies \/ Events

Spec == Init /\ [][Next]_vars
=============================================================================
