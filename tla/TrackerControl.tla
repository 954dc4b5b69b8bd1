--------------------------- MODULE TrackerControl ---------------------------
(***************************************************************************)
(* Who starts and stops the tracker (balltrack_websocket.py): every client *)
(* by its messages and, when it leaves, by leaving; the heartbeat thread   *)
(* when no client has sent a heartbeat for five of its rounds.  Each of    *)
(* these runs in a thread of its own, and all go through startTracking and *)
(* stopTracking, which test and set the one handle camprocess without a    *)
(* lock.  A tracker begins as the script run-camera.sh, which kills every  *)
(* tracker there is and then becomes one.  (TC begins the names that this  *)
(* module would share with SegmentReplay: ServerProofs is about both.)     *)
(***************************************************************************)
EXTENDS Naturals, FiniteSets

CONSTANTS
    Clients,
    Heart,      \* the heartbeat thread
    Procs,      \* bound: processes that may be there at a time
    None        \* no process

ASSUME ControlAssumption == Heart \notin Clients /\ None \notin Procs

Threads == Clients \cup {Heart}
Limit == 5              \* rounds without a heartbeat
Past  == Limit + 1      \* stands for every higher count, the first one too

VARIABLES
    camprocess,     \* the global handle
    heartbeatTimer,
    place,          \* where each thread is
    own,            \* the process a thread has started and not yet stored
    leaving,        \* clients whose thread cleans up after them
    proc,           \* what each process is doing
    term,           \* processes sent a SIGTERM
    raced           \* history: two threads were in start or stop at a time

controlVars == <<camprocess, heartbeatTimer, place, own, leaving, proc, term, raced>>

processes == <<proc, term>>

TCInit ==
    /\ camprocess = None /\ heartbeatTimer = Past
    /\ place = [t \in Threads |-> IF t = Heart THEN "beat" ELSE "out"]
    /\ own = [t \in Threads |-> None] /\ leaving = {}
    /\ proc = [p \in Procs |-> "none"] /\ term = {} /\ raced = FALSE

Starting(t) == place[t] \in {"startTest", "popen", "store"}
Stopping(t) == place[t] \in {"stopTest", "terminate", "clear"}
Busy(t) == Starting(t) \/ Stopping(t)
Observe == raced' = (raced \/ \E t, u \in Threads : t # u /\ Busy(t)' /\ Busy(u)')

At(t, from, goto) == place[t] = from /\ place' = [place EXCEPT ![t] = goto]

\* Where a thread goes on after startTracking or stopTracking.
After(t) == IF t = Heart THEN "beat" ELSE IF t \in leaving THEN "remove" ELSE "serve"

---------------------------------------------------------------------------
(* startTracking and stopTracking, one access of camprocess at a time.     *)

\* Mutant: a tracker is started whether there is one or not.
StartAlways(t) ==
    /\ At(t, "startTest", "popen")
    /\ UNCHANGED <<camprocess, heartbeatTimer, own, leaving, processes>>

StartTests(t) ==
    /\ At(t, "startTest", IF camprocess = None THEN "popen" ELSE After(t))
    /\ UNCHANGED <<camprocess, heartbeatTimer, own, leaving, processes>>

\* Popen returns once the script has been started.
StartPopens(t) ==
    /\ At(t, "popen", "store")
    /\ \E p \in Procs :
        /\ proc[p] \in {"none", "gone"} /\ p # camprocess
        /\ \A u \in Threads : own[u] # p
        /\ proc' = [proc EXCEPT ![p] = "script"] /\ term' = term \ {p}
        /\ own' = [own EXCEPT ![t] = p]
    /\ UNCHANGED <<camprocess, heartbeatTimer, leaving>>

StartStores(t) ==
    /\ At(t, "store", After(t))
    /\ camprocess' = own[t] /\ own' = [own EXCEPT ![t] = None]
    /\ UNCHANGED <<heartbeatTimer, leaving, processes>>

\* Mutant: the handle is not tested.
StopAlways(t) ==
    /\ At(t, "stopTest", "terminate")
    /\ UNCHANGED <<camprocess, heartbeatTimer, own, leaving, processes>>

StopTests(t) ==
    /\ At(t, "stopTest", IF camprocess # None THEN "terminate" ELSE "clear")
    /\ UNCHANGED <<camprocess, heartbeatTimer, own, leaving, processes>>

\* Mutant: the handle is dropped, its process left alone.
StopSpares(t) ==
    /\ At(t, "terminate", "clear")
    /\ UNCHANGED <<camprocess, heartbeatTimer, own, leaving, processes>>

\* A process that is already gone gets no signal.
StopTerminates(t) ==
    /\ camprocess # None /\ At(t, "terminate", "clear")
    /\ term' = term \cup {p \in {camprocess} : proc[p] # "gone"}
    /\ UNCHANGED <<camprocess, heartbeatTimer, own, leaving, proc>>

\* With the handle set to None since the test there is nothing to call: the
\* exception ends the heartbeat thread; it ends what a client's thread does, so
\* that this one cleans up; and it ends a clean-up before the list is changed.
StopFails(t) ==
    /\ camprocess = None
    /\ At(t, "terminate", IF t = Heart THEN "dead"
                          ELSE IF t \in leaving THEN "left" ELSE "search")
    /\ leaving' = leaving \cup ({t} \ {Heart})
    /\ UNCHANGED <<camprocess, heartbeatTimer, own, processes>>

StopClears(t) ==
    /\ At(t, "clear", After(t)) /\ camprocess' = None
    /\ UNCHANGED <<heartbeatTimer, own, leaving, processes>>

StartOrStop(t) == /\ \/ StartTests(t) \/ StartPopens(t) \/ StartStores(t)
                     \/ StopTests(t) \/ StopTerminates(t) \/ StopFails(t)
                     \/ StopClears(t)
                  /\ Observe

---------------------------------------------------------------------------
(* Clients and heartbeats.                                                 *)

ClientComes(c) ==
    /\ At(c, "out", "serve") \/ At(c, "left", "serve") \/ At(c, "unseen", "serve")
    /\ leaving' = leaving \ {c}
    /\ UNCHANGED <<camprocess, heartbeatTimer, own, processes>>

\* message_received: "start", "stop" or "heartbeat".
ClientAsks(c) ==
    /\ \/ At(c, "serve", "startTest") /\ UNCHANGED heartbeatTimer
       \/ At(c, "serve", "stopTest") /\ UNCHANGED heartbeatTimer
       \/ At(c, "serve", "serve") /\ heartbeatTimer' = 0
    /\ UNCHANGED <<camprocess, own, leaving, processes>>

\* Mutant: a client that leaves stops nothing.
ClientSlipsOut(c) ==
    /\ At(c, "serve", "left") /\ leaving' = leaving \cup {c}
    /\ UNCHANGED <<camprocess, heartbeatTimer, own, processes>>

\* The thread of a client that is gone cleans up, and first walks the list of
\* clients for its own.
ClientLeaves(c) ==
    /\ At(c, "serve", "search") /\ leaving' = leaving \cup {c}
    /\ UNCHANGED <<camprocess, heartbeatTimer, own, processes>>

\* client_left stops the tracker, whoever else is still there.  A walk during
\* which the list was cut may miss the client: client_left then raises on None
\* before it comes to the stop.
ClientSearches(c) ==
    /\ \/ At(c, "search", "stopTest") \/ At(c, "jolted", "stopTest")
       \/ At(c, "jolted", "unseen")
    /\ UNCHANGED <<camprocess, heartbeatTimer, own, leaving, processes>>

\* The client is taken off the list, under the walks of others.
ClientRemoves(c) ==
    /\ place[c] = "remove"
    /\ place' = [t \in Threads |-> IF t = c THEN "left"
                                   ELSE IF place[t] = "search" THEN "jolted"
                                   ELSE place[t]]
    /\ UNCHANGED <<camprocess, heartbeatTimer, own, leaving, processes>>

Client(c)   == (ClientComes(c) \/ ClientAsks(c) \/ ClientLeaves(c)) /\ Observe
CleansUp(c) == (ClientSearches(c) \/ ClientRemoves(c)) /\ Observe

\* Mutant: the count is kept and nothing follows from it.
HeartCounts ==
    /\ At(Heart, "beat", "beat")
    /\ heartbeatTimer' = IF heartbeatTimer < Past THEN heartbeatTimer + 1 ELSE Past
    /\ UNCHANGED <<camprocess, own, leaving, processes>>

\* A round of the heartbeat thread, under its lock.
HeartTicks ==
    /\ heartbeatTimer' = IF heartbeatTimer < Past THEN heartbeatTimer + 1 ELSE Past
    /\ At(Heart, "beat",
          IF heartbeatTimer < Past /\ heartbeatTimer' = Limit THEN "stopTest" ELSE "beat")
    /\ UNCHANGED <<camprocess, own, leaving, processes>>

HeartBeats == HeartTicks /\ Observe

---------------------------------------------------------------------------
(* The processes: run-camera.sh, and the tracker it becomes.               *)

threads == <<camprocess, heartbeatTimer, place, own, leaving, raced>>

\* pkill: every process that is a tracker by now.
ScriptKills(p) ==
    /\ proc[p] = "script" /\ proc' = [proc EXCEPT ![p] = "exec"]
    /\ term' = term \cup {q \in Procs : proc[q] = "tracker"}
    /\ UNCHANGED threads

ScriptExecs(p) ==
    /\ proc[p] = "exec" /\ proc' = [proc EXCEPT ![p] = "tracker"]
    /\ UNCHANGED <<threads, term>>

\* A signal kills script and tracker alike.
ProcessDies(p) ==
    /\ proc[p] \in {"script", "exec", "tracker"} /\ p \in term
    /\ proc' = [proc EXCEPT ![p] = "gone"] /\ term' = term \ {p}
    /\ UNCHANGED threads

\* A tracker may end by itself, for want of the camera for one.
TrackerExits(p) ==
    /\ proc[p] = "tracker"
    /\ proc' = [proc EXCEPT ![p] = "gone"] /\ term' = term \ {p}
    /\ UNCHANGED threads

Process(p) == ScriptKills(p) \/ ScriptExecs(p) \/ ProcessDies(p)

TCNext == \/ \E t \in Threads : StartOrStop(t)
          \/ \E c \in Clients : Client(c) \/ CleansUp(c)
          \/ HeartBeats
          \/ \E p \in Procs : Process(p) \/ TrackerExits(p)

TCSpec == TCInit /\ [][TCNext]_controlVars

\* Threads and processes are scheduled; what clients do is up to them.
Fairness == /\ \A t \in Threads : WF_controlVars(StartOrStop(t))
            /\ \A c \in Clients : WF_controlVars(CleansUp(c))
            /\ WF_controlVars(HeartBeats)
            /\ \A p \in Procs : WF_controlVars(Process(p))

FairSpec == TCSpec /\ Fairness

---------------------------------------------------------------------------
(* Properties.                                                             *)

\* Every variable keeps its type; in particular only processes are signalled.
TCTypeOK ==
    /\ camprocess \in Procs \cup {None} /\ heartbeatTimer \in 0 .. Past
    /\ place \in [Threads -> {"out", "serve", "search", "jolted", "unseen", "remove",
                              "left", "beat", "dead", "startTest", "popen", "store",
                              "stopTest", "terminate", "clear"}]
    /\ own \in [Threads -> Procs \cup {None}] /\ leaving \subseteq Clients
    /\ proc \in [Procs -> {"none", "script", "exec", "tracker", "gone"}]
    /\ term \subseteq Procs /\ raced \in BOOLEAN

Alive(p) == proc[p] \in {"script", "exec", "tracker"}

\* A tracker nobody has a handle of, and that nothing is about to end.
Orphan(p) == /\ Alive(p) /\ p \notin term
             /\ camprocess # p /\ \A t \in Threads : own[t] # p

\* As long as start and stop do not overlap, every tracker that is to stay has
\* its handle, so that a stop by anyone reaches it; there are no two that are to
\* stay, since the script of the second comes after the first was terminated;
\* and the heartbeat thread, which nothing restarts, goes on.
SoundWithoutRace ==
    ~raced => /\ \A p \in Procs : ~Orphan(p)
              /\ \A p, q \in Procs : Alive(p) /\ Alive(q) /\ p # q
                                        => {p, q} \cap term # {}
              /\ place[Heart] # "dead"

Present == \E c \in Clients : place[c] \notin {"out", "left", "unseen"}

\* When the last client is gone no tracker stays behind, not even one whose
\* script was still on its way, unless starts and stops overlapped or a client
\* was not found when it left.
AllGoneStops ==
    ~Present ~> \/ Present \/ raced \/ \A p \in Procs : ~Alive(p)
                \/ \E c \in Clients : place[c] = "unseen"

\* Once heartbeats have been heard, a tracker started before they end does not
\* outlive them.
HeartbeatLossStops ==
    \A p \in Procs : (camprocess = p /\ heartbeatTimer < Limit)
                        ~> (heartbeatTimer = 0 \/ raced \/ ~Alive(p))
=============================================================================
