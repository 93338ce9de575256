----------------------------- MODULE TouchInput -----------------------------
(***************************************************************************)
(* Input as the simulator keeps it for the firmware: the FT6336U and the   *)
(* CHSC6440 touch controllers as operators on a record (ft6336u.c,         *)
(* chsc6440.c), and the two input queues of target_xtensa_exc_helper.c,    *)
(* which drop their oldest entry when they are full.  A position is a      *)
(* model value: clamping and scaling it changes no decision.  Registers    *)
(* other than the touch frame are left out.                                *)
(***************************************************************************)
EXTENDS Integers, Sequences, SequencesExt

CONSTANTS
  Positions,
  QueueCap  \* MOFEI_TOUCH_QUEUE_CAP and MOFEI_BUTTON_QUEUE_CAP

ASSUME InputAssumption == QueueCap \in Nat \ {0}

Fingers == {0, 1}  \* MAX_POINTS
TouchActions == {"down", "move", "up"}
Touches == [action : TouchActions, finger : Fingers \cup {2}, at : Positions]
Lifted == "lifted"

NewTouchController(kind) ==
  [kind |-> kind, active |-> [f \in Fingers |-> Lifted], frame |-> << >>, intLow |-> FALSE, register |-> "none"]

----------------------------------------------------------------------------
\* The touches of a payload that are of a finger the controllers know.
OfFingers(batch) == FlattenSeq([i \in DOMAIN batch |-> IF batch[i].finger \in Fingers THEN <<batch[i]>> ELSE << >>])

\* The events of one payload, finger by finger: the last one counts.
LastOf(batch, f) == SelectLastInSeq(batch, LAMBDA t : t.finger = f)
Touched(batch, f) == LastOf(batch, f) # 0
After(active, batch) ==
  [f \in Fingers |-> IF ~ Touched(batch, f) THEN active[f]
                     ELSE LET t == batch[LastOf(batch, f)] IN IF t.action = "up" THEN Lifted ELSE t.at]

FingersInOrder(S) == SelectSeq(<<0, 1>>, LAMBDA f : f \in S)

\* The FT6336U reports every finger that is down, under its own number.
FrameOfActive(active, batch) ==
  LET down == FingersInOrder({f \in Fingers : active[f] # Lifted})
  IN [i \in DOMAIN down |->
        [id |-> down[i], at |-> active[down[i]],
         event |-> IF Touched(batch, down[i]) THEN batch[LastOf(batch, down[i])].action ELSE "move"]]

\* The CHSC6440 reports the fingers of this payload, lifted ones too, and
\* numbers them from 0.
FrameOfBatch(batch) ==
  LET touched == FingersInOrder({f \in Fingers : Touched(batch, f)})
  IN [i \in DOMAIN touched |->
        [id |-> i - 1, at |-> batch[LastOf(batch, touched[i])].at,
         event |-> batch[LastOf(batch, touched[i])].action]]

InjectTouch(c, batch) ==
  IF c.kind = "ft6336u"
  THEN LET active == After(c.active, batch)
       IN [c EXCEPT !.active = active, !.frame = FrameOfActive(active, batch), !.intLow = TRUE]
  ELSE [c EXCEPT !.frame = FrameOfBatch(batch), !.intLow = TRUE]

----------------------------------------------------------------------------
(* The I2C side.  A stop condition releases INT if the register pointer is *)
(* at TD_STATUS, which it is after the pointer was written and is no more  *)
(* after the frame was read.                                               *)

Finish(c) == IF c.register = "td_status" THEN [c EXCEPT !.intLow = FALSE] ELSE c
WritePointer(c, register) == Finish([c EXCEPT !.register = register])
BeginRead(c) == [c EXCEPT !.register = "td_status_past"]  \* it moves on with every byte
EndReadReleases(c) == [c EXCEPT !.intLow = FALSE]  \* Mutant: "delivered, release INT".
EndRead(c) == Finish(c)

----------------------------------------------------------------------------
\* mofeiSimulatorTouchQueue, mofeiSimulatorButtonQueue.
Queued(q, e) == Append(IF Len(q) = QueueCap THEN Tail(q) ELSE q, e)
QueuedAll(q, es) == FoldLeft(Queued, q, es)
=============================================================================
