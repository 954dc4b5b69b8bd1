--------------------------- MODULE HeartbeatWatch ---------------------------
(***************************************************************************)
(* TrackerControl watched by a clock: `silence` counts the rounds of the   *)
(* heartbeat thread since the tracker the handle is about was started or   *)
(* since a heartbeat was heard, whichever came last.                       *)
(***************************************************************************)
EXTENDS TrackerControl

VARIABLE silence    \* history: rounds, up to Past

watchVars == <<controlVars, silence>>

Init == TCInit /\ silence = 0

\* Every round counts; a new handle and a heartbeat begin the count anew.
Rounds ==
    silence' = IF camprocess' # camprocess \/ heartbeatTimer' = 0 THEN 0
               ELSE IF HeartBeats /\ silence < Past THEN silence + 1
               ELSE silence

Next == TCNext /\ Rounds

Spec == Init /\ [][Next]_watchVars

\* What a comment of the code says, checked as it stands: HeartbeatThread stops
\* the tracker on "No heartbeats for 5 seconds".  A tracker that has gone more
\* rounds than that without one is on its way to be stopped.
NoHeartbeatNoTracker ==
    silence = Past /\ (\A t \in Threads : ~Busy(t))
        => camprocess \in {None} \cup term \/ ~Alive(camprocess)
=============================================================================
