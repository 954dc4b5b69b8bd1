---------------------------- MODULE BufferCycle ----------------------------
(***************************************************************************)
(* What the preview promises of its buffers, without threads: each goes    *)
(* round from the pool to the camera, from the camera, filled, to the end  *)
(* of a line of frames, from the head of the line to the screen, and back  *)
(* to the pool when the next frame is shown.  Frames are shown in the      *)
(* order they were filled and none is skipped; only once the preview is    *)
(* stopped may buffers leave the line unseen or leave the round for good.  *)
(***************************************************************************)
EXTENDS Sequences, FiniteSets

CONSTANTS Buffers, None

VARIABLES free, camera, line, shown, lost, stopped

vars == <<free, camera, line, shown, lost, stopped>>

Init == /\ free = Buffers /\ camera = {} /\ line = <<>>
        /\ shown = None /\ lost = {} /\ stopped = FALSE

Offer(b) == /\ b \in free
            /\ free' = free \ {b} /\ camera' = camera \cup {b}
            /\ UNCHANGED <<line, shown, lost, stopped>>

Fill(b) == /\ b \in camera
           /\ camera' = camera \ {b} /\ line' = Append(line, b)
           /\ UNCHANGED <<free, shown, lost, stopped>>

\* The camera hands a buffer back without a frame.
Discard(b) == /\ b \in camera
              /\ camera' = camera \ {b} /\ free' = free \cup {b}
              /\ UNCHANGED <<line, shown, lost, stopped>>

Show == /\ line # <<>>
        /\ shown' = Head(line) /\ line' = Tail(line)
        /\ free' = free \cup ({shown} \ {None})
        /\ UNCHANGED <<camera, lost, stopped>>

Stop == stopped' = TRUE /\ UNCHANGED <<free, camera, line, shown, lost>>

\* After the stop: a frame leaves the line unseen, for the pool or for good.
Skip == /\ stopped /\ line # <<>>
        /\ line' = Tail(line)
        /\ \/ free' = free \cup {Head(line)} /\ UNCHANGED lost
           \/ lost' = lost \cup {Head(line)} /\ UNCHANGED free
        /\ UNCHANGED <<camera, shown, stopped>>

\* After the stop: a buffer on its way to or from the camera is lost.
Lose(b) == /\ stopped /\ b \in free \cup camera
           /\ free' = free \ {b} /\ camera' = camera \ {b}
           /\ lost' = lost \cup {b}
           /\ UNCHANGED <<line, shown, stopped>>

\* After the stop: the frame shown before has no pool to go back to.
ShowLast == /\ stopped /\ line # <<>>
            /\ shown' = Head(line) /\ line' = Tail(line)
            /\ lost' = lost \cup ({shown} \ {None})
            /\ UNCHANGED <<free, camera, stopped>>

Next == \/ \E b \in Buffers : Offer(b) \/ Fill(b) \/ Discard(b) \/ Lose(b)
        \/ Show \/ Stop \/ Skip \/ ShowLast

Spec == Init /\ [][Next]_vars
=============================================================================
