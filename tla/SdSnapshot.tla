----------------------------- MODULE SdSnapshot -----------------------------
(***************************************************************************)
(* What the browser SD-card store promises its callers: one slot that      *)
(* always holds a complete snapshot.  A save replaces the whole snapshot   *)
(* in one step or not at all, a rejected save changes nothing, and a       *)
(* worker that dies in the middle of a save leaves either the old or the   *)
(* new snapshot behind.                                                    *)
(***************************************************************************)
CONSTANTS Writers,  \* concurrent callers of writeSdImage
          Images,   \* SD card images a caller may save
          NoImage   \* the slot has never been written

VARIABLES image,    \* what a reader of the slot obtains
          phase,    \* where each writer's save stands
          want,     \* the image each writer is saving
          outcome   \* how each writer's last save settled

vars == <<image, phase, want, outcome>>

Init == /\ image \in Images \cup {NoImage}
        /\ phase = [w \in Writers |-> "idle"]
        /\ want = [w \in Writers |-> NoImage]
        /\ outcome = [w \in Writers |-> "none"]

Request(w, v) == /\ phase[w] = "idle"
                 /\ phase' = [phase EXCEPT ![w] = "pending"]
                 /\ want' = [want EXCEPT ![w] = v]
                 /\ outcome' = [outcome EXCEPT ![w] = "none"]
                 /\ UNCHANGED image

Commit(w) == /\ phase[w] = "pending"
             /\ image' = want[w]
             /\ phase' = [phase EXCEPT ![w] = "committed"]
             /\ UNCHANGED <<want, outcome>>

Settle(w, from, how) == /\ phase[w] = from
                        /\ phase' = [phase EXCEPT ![w] = "idle"]
                        /\ want' = [want EXCEPT ![w] = NoImage]
                        /\ outcome' = [outcome EXCEPT ![w] = how]
                        /\ UNCHANGED image

Resolve(w) == Settle(w, "committed", "resolved")
Reject(w)  == Settle(w, "pending", "rejected")
Crash(w)   == \E from \in {"pending", "committed"} : Settle(w, from, "none")

Next == \E w \in Writers : \/ \E v \in Images : Request(w, v)
                           \/ Commit(w)
                           \/ Resolve(w)
                           \/ Reject(w)
                           \/ Crash(w)

Spec == Init /\ [][Next]_vars
=============================================================================
