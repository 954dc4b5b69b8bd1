---------------------------- MODULE ServerProofs ----------------------------
(***************************************************************************)
(* What the server starts, and what it replays.                            *)
(*                                                                         *)
(* TrackerControl, for any number of clients and processes: while no two   *)
(* threads are in startTracking or stopTracking at a time, every tracker   *)
(* that is to stay can be stopped, there is at most one, and the heartbeat *)
(* goes on.                                                                *)
(*                                                                         *)
(* SegmentReplay, for any number of files, of chunks and of replays: a     *)
(* listing at a settled moment takes the latest complete chunks, and what  *)
(* is copied is what was listed until the recording comes round.           *)
(***************************************************************************)
EXTENDS TrackerControl, SegmentReplay, FiniteSetTheorems, SequenceTheorems, TLAPS

---------------------------------------------------------------------------
(* The server's inductive invariant: what the handle is at each step of    *)
(* the one thread that is in startTracking or stopTracking.                *)

\* At most one thread is in either of them.
OneBusy == \A t, u \in Threads : Busy(t) /\ Busy(u) => t = u

\* A started process that is not stored yet belongs to the thread at "store".
OwnAtStore == \A t \in Threads : own[t] # None => place[t] = "store"

\* The start has seen that there is no handle, and that stays so until it
\* stores its own.
StartSawNone == \A t \in Threads : place[t] \in {"popen", "store"} => camprocess = None

\* What the stop terminates is there, and what it drops has been terminated.
StopHasHandle ==
    \A t \in Threads :
        /\ place[t] = "terminate" => camprocess # None
        /\ place[t] = "clear" /\ camprocess # None
              => camprocess \in term \/ ~Alive(camprocess)

NoOrphan == \A p \in Procs : ~Orphan(p)

OneStays == \A p, q \in Procs : Alive(p) /\ Alive(q) /\ p # q => {p, q} \cap term # {}

Sound == /\ OneBusy /\ StartSawNone /\ StopHasHandle
         /\ NoOrphan /\ OneStays /\ place[Heart] # "dead"

ControlInv == /\ TCTypeOK /\ OwnAtStore
              /\ ~raced => Sound

\* One access of the handle by a thread in startTracking or stopTracking.
Access(t) == \/ StartTests(t) \/ StartPopens(t) \/ StartStores(t)
             \/ StopTests(t) \/ StopTerminates(t) \/ StopFails(t) \/ StopClears(t)

\* A step that brings no thread further within them.
Elsewhere == /\ UNCHANGED <<camprocess, own, processes>>
             /\ \A t \in Threads :
                    place'[t] \in {"popen", "store", "terminate", "clear", "dead"}
                        => place[t] = place'[t]

---------------------------------------------------------------------------
(* The types.                                                              *)

\* The places a thread may be in.
Places == {"out", "serve", "search", "jolted", "unseen", "remove", "left", "beat",
           "dead", "startTest", "popen", "store", "stopTest", "terminate", "clear"}

\* At first nothing is started and nobody is there.
LEMMA ControlInit == TCInit => ControlInv
<1> SUFFICES ASSUME TCInit PROVE ControlInv
  OBVIOUS
<1>1. TCTypeOK
  <2>1. heartbeatTimer \in 0 .. Past
    BY DEF TCInit, Past, Limit
  <2>2. place \in [Threads -> Places] /\ own \in [Threads -> Procs \cup {None}]
    BY DEF TCInit, Places
  <2> QED BY <2>1, <2>2 DEF TCInit, TCTypeOK, Places
<1>2. /\ \A t \in Threads : place[t] \in {"beat", "out"} /\ own[t] = None
      /\ \A p \in Procs : ~Alive(p)
      /\ place[Heart] # "dead"
  BY DEF TCInit, Threads, Alive
<1>3. \A t \in Threads : ~Busy(t)
  BY <1>2 DEF Busy, Starting, Stopping
<1> QED
  BY <1>1, <1>2, <1>3 DEF ControlInv, Sound, OwnAtStore, OneBusy, StartSawNone, StopHasHandle,
     NoOrphan, Orphan, OneStays

\* Where a thread goes on it is in neither of the two functions.
LEMMA AfterPlace == \A t : After(t) \in {"beat", "remove", "serve"}
  BY DEF After

\* Every access of the handle keeps the types.
LEMMA AccessTypes ==
    ASSUME NEW t \in Threads, TCTypeOK, Access(t), raced' \in BOOLEAN PROVE TCTypeOK'
<1> USE AfterPlace DEF TCTypeOK, processes
<1>1. CASE StartTests(t)
  BY <1>1 DEF StartTests, At
<1>2. CASE StartPopens(t)
  <2>1. PICK p \in Procs : /\ proc' = [proc EXCEPT ![p] = "script"]
                           /\ term' = term \ {p}
                           /\ own' = [own EXCEPT ![t] = p]
    BY <1>2 DEF StartPopens
  <2>2. At(t, "popen", "store") /\ UNCHANGED <<camprocess, heartbeatTimer, leaving>>
    BY <1>2 DEF StartPopens
  <2> QED BY <2>1, <2>2 DEF At
<1>3. CASE StartStores(t)
  BY <1>3 DEF StartStores, At
<1>4. CASE StopTests(t)
  BY <1>4 DEF StopTests, At
<1>5. CASE StopTerminates(t)
  <2>1. camprocess \in Procs /\ term' \subseteq term \cup {camprocess}
    BY <1>5 DEF StopTerminates
  <2> QED BY <1>5, <2>1 DEF StopTerminates, At
<1>6. CASE StopFails(t)
  <2>1. leaving' \subseteq Clients
    BY <1>6 DEF StopFails, Threads
  <2> QED BY <1>6, <2>1 DEF StopFails, At
<1>7. CASE StopClears(t)
  BY <1>7 DEF StopClears, At
<1> QED BY <1>1, <1>2, <1>3, <1>4, <1>5, <1>6, <1>7 DEF Access

\* Every step keeps the types.
LEMMA TypeStep == TCTypeOK /\ [TCNext]_controlVars => TCTypeOK'
<1> SUFFICES ASSUME TCTypeOK, [TCNext]_controlVars PROVE TCTypeOK'
  OBVIOUS
<1> USE ControlAssumption DEF ControlAssumption, Threads, processes, threads
<1>1. ASSUME NEW t \in Threads, StartOrStop(t) PROVE TCTypeOK'
  <2>1. raced' \in BOOLEAN /\ Access(t)
    BY <1>1 DEF StartOrStop, Observe, Access, TCTypeOK
  <2> QED BY <2>1, AccessTypes
<1>2. ASSUME NEW c \in Clients, Client(c) PROVE TCTypeOK'
  <2>1. raced' \in BOOLEAN
    BY <1>2 DEF Client, Observe, TCTypeOK
  <2>2. CASE ClientComes(c)
    BY <2>1, <2>2 DEF ClientComes, At, TCTypeOK
  <2>3. CASE ClientAsks(c)
    <3>1. heartbeatTimer' \in 0 .. Past
      BY <2>3 DEF ClientAsks, TCTypeOK, Past, Limit
    <3>2. /\ \/ At(c, "serve", "startTest") \/ At(c, "serve", "stopTest")
             \/ At(c, "serve", "serve")
          /\ UNCHANGED <<camprocess, own, leaving, proc, term>>
      BY <2>3 DEF ClientAsks
    <3> QED BY <2>1, <3>1, <3>2 DEF At, TCTypeOK
  <2>4. CASE ClientLeaves(c)
    BY <2>1, <2>4 DEF ClientLeaves, At, TCTypeOK
  <2> QED BY <1>2, <2>2, <2>3, <2>4 DEF Client
<1>a. ASSUME NEW c \in Clients, CleansUp(c) PROVE TCTypeOK'
  <2>1. raced' \in BOOLEAN
    BY <1>a DEF CleansUp, Observe, TCTypeOK
  <2>2. CASE ClientSearches(c)
    BY <2>1, <2>2 DEF ClientSearches, At, TCTypeOK
  <2>3. CASE ClientRemoves(c)
    <3>1. \A t \in Threads : place'[t] \in {"left", "jolted", place[t]}
      BY <2>3 DEF ClientRemoves
    <3>2. place' \in [Threads -> Places]
      BY <2>3, <3>1 DEF ClientRemoves, TCTypeOK, Places
    <3> QED BY <2>1, <2>3, <3>2 DEF ClientRemoves, TCTypeOK, Places
  <2> QED BY <1>a, <2>2, <2>3 DEF CleansUp
<1>3. CASE HeartBeats
  <2>1. raced' \in BOOLEAN /\ HeartTicks
    BY <1>3 DEF HeartBeats, Observe, TCTypeOK
  <2>2. heartbeatTimer' \in 0 .. Past
    BY <2>1 DEF HeartTicks, TCTypeOK, Past, Limit
  <2>3. At(Heart, "beat", "stopTest") \/ At(Heart, "beat", "beat")
    BY <2>1 DEF HeartTicks, At
  <2> QED BY <2>1, <2>2, <2>3 DEF HeartTicks, At, TCTypeOK
<1>4. ASSUME NEW p \in Procs, Process(p) \/ TrackerExits(p) PROVE TCTypeOK'
  BY <1>4 DEF Process, ScriptKills, ScriptExecs, ProcessDies,
     TrackerExits, TCTypeOK
<1>5. CASE UNCHANGED controlVars
  BY <1>5 DEF controlVars, TCTypeOK
<1> QED BY <1>1, <1>2, <1>3, <1>4, <1>5, <1>a DEF TCNext

---------------------------------------------------------------------------
(* While start and stop do not overlap.                                    *)

BusyPlaces == {"startTest", "popen", "store", "stopTest", "terminate", "clear"}

\* The history variable sees every overlap.
LEMMA Observed ==
    ASSUME Observe, TCTypeOK, TCTypeOK', ~raced' PROVE ~raced /\ OneBusy'
<1>1. raced \in BOOLEAN /\ raced' \in BOOLEAN
  BY DEF TCTypeOK
<1> QED BY <1>1 DEF Observe, OneBusy

\* A step of one thread of its own leaves the others where they are; when that
\* thread is in start or stop they are in neither.
LEMMA Alone ==
    ASSUME NEW t \in Threads, NEW goto \in Places, TCTypeOK, OneBusy,
           At(t, place[t], goto)
    PROVE  /\ place'[t] = goto /\ \A u \in Threads \ {t} : place'[u] = place[u]
           /\ place[t] \in BusyPlaces => \A u \in Threads \ {t} : place[u] \notin BusyPlaces
<1>1. place'[t] = goto /\ \A u \in Threads \ {t} : place'[u] = place[u]
  BY DEF TCTypeOK, At
<1>2. \A u \in Threads : Busy(u) <=> place[u] \in BusyPlaces
  BY DEF Busy, Starting, Stopping, BusyPlaces
<1> QED BY <1>1, <1>2 DEF OneBusy

\* A thread that comes, goes, asks or counts leaves the handle alone.
LEMMA ElsewhereSound ==
    ASSUME TCTypeOK, OneBusy', Sound, Elsewhere PROVE Sound'
<1>1. UNCHANGED <<camprocess, own, proc, term>>
  BY DEF Elsewhere, processes
<1>2. StartSawNone' /\ StopHasHandle'
  BY <1>1 DEF Elsewhere, Sound, StartSawNone, StopHasHandle, Alive
<1>3. NoOrphan' /\ OneStays'
  BY <1>1 DEF Sound, NoOrphan, OneStays, Orphan, Alive
<1>4. place'[Heart] # "dead"
  BY DEF Elsewhere, Sound, Threads
<1> QED BY <1>2, <1>3, <1>4 DEF Sound

\* Every access of the handle by the one thread that is in start or stop.
LEMMA AccessSound ==
    ASSUME NEW t \in Threads, TCTypeOK, OwnAtStore, OneBusy', Sound, Access(t)
    PROVE  Sound'
<1> DEFINE Rest == \A u \in Threads \ {t} :
                      place'[u] = place[u] /\ place[u] \notin BusyPlaces
<1> USE ControlAssumption DEF ControlAssumption
<1>1. Heart \in Threads /\ place[Heart] # "dead"
  BY DEF Threads, Sound
<1>2. \A goto \in Places : At(t, place[t], goto) /\ place[t] \in BusyPlaces
                              => place'[t] = goto /\ Rest
  BY Alone DEF Sound
<1>3. After(t) \in Places /\ After(t) \notin BusyPlaces \cup {"dead"}
  <2>1. After(t) \in {"beat", "remove", "serve"}
    BY AfterPlace
  <2> QED BY <2>1 DEF Places, BusyPlaces
<1>4. CASE StartTests(t)
  <2>1. /\ place'[t] \in {"popen", "beat", "remove", "serve"} /\ Rest
        /\ place'[t] = "popen" => camprocess = None
    BY <1>2, <1>4, AfterPlace DEF StartTests, At, BusyPlaces, Places
  <2>2. UNCHANGED <<camprocess, own, proc, term>>
    BY <1>4 DEF StartTests, processes
  <2>3. StartSawNone' /\ StopHasHandle'
    BY <2>1, <2>2 DEF StartSawNone, StopHasHandle, BusyPlaces
  <2>4. NoOrphan' /\ OneStays'
    BY <2>2 DEF Sound, NoOrphan, OneStays, Orphan, Alive
  <2> QED BY <1>1, <2>1, <2>3, <2>4 DEF Sound
<1>5. CASE StartPopens(t)
  <2>1. PICK p \in Procs :
           /\ proc[p] \in {"none", "gone"} /\ p # camprocess
           /\ \A u \in Threads : own[u] # p
           /\ proc' = [proc EXCEPT ![p] = "script"] /\ term' = term \ {p}
           /\ own' = [own EXCEPT ![t] = p]
    BY <1>5 DEF StartPopens
  <2>2. place[t] = "popen" /\ place'[t] = "store" /\ Rest /\ camprocess' = camprocess
    BY <1>2, <1>5 DEF StartPopens, At, BusyPlaces, Places
  <2>3. camprocess = None /\ camprocess' = None
    BY <2>2 DEF Sound, StartSawNone
  <2>4. StartSawNone' /\ StopHasHandle'
    BY <2>2, <2>3 DEF StartSawNone, StopHasHandle, BusyPlaces
  <2>5. \A u \in Threads : own[u] = None
    BY <2>2 DEF OwnAtStore, BusyPlaces
  <2>6. own'[t] = p
    BY <2>1 DEF TCTypeOK
  <2>7. \A q \in Procs \ {p} : /\ Alive(q)' <=> Alive(q)
                               /\ q \in term' <=> q \in term
    BY <2>1 DEF TCTypeOK, Alive
  <2>8. \A q \in Procs \ {p} : Alive(q) => q \in term
    BY <2>3, <2>5 DEF Sound, NoOrphan, Orphan
  <2>9. NoOrphan'
    BY <2>6, <2>7, <2>8 DEF NoOrphan, Orphan
  <2>10. OneStays'
    BY <2>7, <2>8 DEF OneStays
  <2> QED BY <1>1, <2>2, <2>4, <2>9, <2>10 DEF Sound
<1>6. CASE StartStores(t)
  <2>1. /\ place[t] = "store" /\ place'[t] = After(t) /\ Rest
        /\ camprocess' = own[t] /\ own' = [own EXCEPT ![t] = None]
        /\ UNCHANGED <<proc, term>>
    BY <1>2, <1>6, <1>3 DEF StartStores, At, processes, BusyPlaces, Places
  <2>2. StartSawNone' /\ StopHasHandle'
    BY <1>3, <2>1 DEF StartSawNone, StopHasHandle, BusyPlaces
  <2>3. camprocess = None
    BY <2>1 DEF Sound, StartSawNone
  <2>4. \A u \in Threads \ {t} : own'[u] = own[u]
    BY <2>1 DEF TCTypeOK
  <2>5. NoOrphan'
    BY <2>1, <2>3, <2>4 DEF Sound, NoOrphan, Orphan, Alive
  <2>6. OneStays'
    BY <2>1 DEF Sound, OneStays, Alive
  <2> QED BY <1>1, <1>3, <2>1, <2>2, <2>5, <2>6 DEF Sound
<1>7. CASE StopTests(t)
  <2>1. /\ place'[t] \in {"terminate", "clear"} /\ Rest
        /\ place'[t] = "terminate" <=> camprocess # None
    BY <1>2, <1>7 DEF StopTests, At, BusyPlaces, Places
  <2>2. UNCHANGED <<camprocess, own, proc, term>>
    BY <1>7 DEF StopTests, processes
  <2>3. StartSawNone' /\ StopHasHandle'
    BY <2>1, <2>2 DEF StartSawNone, StopHasHandle, BusyPlaces
  <2>4. NoOrphan' /\ OneStays'
    BY <2>2 DEF Sound, NoOrphan, OneStays, Orphan, Alive
  <2> QED BY <1>1, <2>1, <2>3, <2>4 DEF Sound
<1>8. CASE StopTerminates(t)
  <2>1. place[t] = "terminate" /\ place'[t] = "clear" /\ Rest
    BY <1>2, <1>8 DEF StopTerminates, At, BusyPlaces, Places
  <2>2. /\ UNCHANGED <<camprocess, own, proc>> /\ term \subseteq term'
        /\ camprocess \in term' \/ proc[camprocess] = "gone"
    BY <1>8 DEF StopTerminates
  <2>3. StartSawNone' /\ StopHasHandle'
    BY <2>1, <2>2 DEF StartSawNone, StopHasHandle, BusyPlaces, Alive
  <2>4. NoOrphan' /\ OneStays'
    BY <2>2 DEF Sound, NoOrphan, OneStays, Orphan, Alive
  <2> QED BY <1>1, <2>1, <2>3, <2>4 DEF Sound
<1>9. CASE StopFails(t)
  BY <1>9 DEF StopFails, At, Sound, StopHasHandle
<1>10. CASE StopClears(t)
  <2>1. /\ place[t] = "clear" /\ place'[t] = After(t) /\ Rest /\ camprocess' = None
        /\ UNCHANGED <<own, proc, term>>
    BY <1>2, <1>3, <1>10 DEF StopClears, At, processes, BusyPlaces, Places
  <2>2. StartSawNone' /\ StopHasHandle'
    BY <1>3, <2>1 DEF StartSawNone, StopHasHandle, BusyPlaces
  <2>3. camprocess # None => camprocess \in term \/ ~Alive(camprocess)
    BY <2>1 DEF Sound, StopHasHandle
  <2>4. NoOrphan'
    BY <2>1, <2>3 DEF Sound, NoOrphan, Orphan, Alive
  <2>5. OneStays'
    BY <2>1 DEF Sound, OneStays, Alive
  <2> QED BY <1>1, <1>3, <2>1, <2>2, <2>4, <2>5 DEF Sound
<1> QED BY <1>4, <1>5, <1>6, <1>7, <1>8, <1>9, <1>10 DEF Access

\* The processes change nothing of the threads'.
LEMMA ProcessSound ==
    ASSUME NEW p \in Procs, TCTypeOK, Sound, Process(p) \/ TrackerExits(p)
    PROVE  Sound' /\ UNCHANGED <<place, own, raced>>
<1>1. UNCHANGED <<camprocess, place, own, raced>>
  BY DEF Process, ScriptKills, ScriptExecs, ProcessDies,
     TrackerExits, threads
<1>2. \/ /\ proc' = [proc EXCEPT ![p] = "gone"] /\ term' = term \ {p}
      \/ /\ Alive(p) /\ term \subseteq term'
         /\ proc' = [proc EXCEPT ![p] = "exec"] \/ proc' = [proc EXCEPT ![p] = "tracker"]
  BY DEF Process, ScriptKills, ScriptExecs, ProcessDies, TrackerExits,
     Alive
<1>3. \A q \in Procs : /\ Alive(q)' => Alive(q)
                       /\ q \in term /\ Alive(q)' => q \in term'
  BY <1>2 DEF Alive, TCTypeOK
<1>4. OneBusy' /\ StartSawNone'
  BY <1>1 DEF Sound, OneBusy, Busy, Starting, Stopping, StartSawNone
<1>5. StopHasHandle'
  BY <1>1, <1>3 DEF Sound, StopHasHandle, TCTypeOK
<1>6. NoOrphan' /\ OneStays'
  BY <1>1, <1>3 DEF Sound, NoOrphan, OneStays, Orphan
<1> QED BY <1>1, <1>4, <1>5, <1>6 DEF Sound

\* Whoever has started a process has it stored as its next step.
LEMMA OwnStep == TCTypeOK /\ OwnAtStore /\ [TCNext]_controlVars => OwnAtStore'
<1> SUFFICES ASSUME TCTypeOK, OwnAtStore, [TCNext]_controlVars PROVE OwnAtStore'
  OBVIOUS
<1> USE DEF TCTypeOK, OwnAtStore, At
<1>1. ASSUME NEW t \in Threads, StartOrStop(t) PROVE OwnAtStore'
  <2>1. CASE StartPopens(t)
    BY <2>1 DEF StartPopens
  <2>2. CASE StartStores(t)
    BY <2>2 DEF StartStores
  <2>3. CASE ~StartPopens(t) /\ ~StartStores(t)
    <3>1. /\ own' = own /\ place[t] \notin {"popen", "store"}
          /\ \A u \in Threads \ {t} : place'[u] = place[u]
      BY <1>1, <2>3 DEF StartOrStop, StartTests, StopTests, StopTerminates,
         StopFails, StopClears
    <3> QED BY <3>1
  <2> QED BY <2>1, <2>2, <2>3
<1>2. ASSUME NEW c \in Clients, Client(c) PROVE OwnAtStore'
  BY <1>2 DEF Client, ClientComes, ClientAsks, ClientLeaves, Threads
<1>a. ASSUME NEW c \in Clients, CleansUp(c) PROVE OwnAtStore'
  <2>1. /\ UNCHANGED own
        /\ \A t \in Threads : place[t] = "store" => place'[t] = "store"
    BY <1>a DEF CleansUp, ClientSearches, ClientRemoves, Threads
  <2> QED BY <2>1
<1>3. CASE HeartBeats
  BY <1>3 DEF HeartBeats, HeartTicks, Threads
<1>4. ASSUME NEW p \in Procs, Process(p) \/ TrackerExits(p) PROVE OwnAtStore'
  BY <1>4 DEF Process, ScriptKills, ScriptExecs, ProcessDies,
     TrackerExits, threads
<1>5. CASE UNCHANGED controlVars
  BY <1>5 DEF controlVars
<1> QED BY <1>1, <1>2, <1>3, <1>4, <1>5, <1>a DEF TCNext

LEMMA ControlNext == ControlInv /\ [TCNext]_controlVars => ControlInv'
<1> SUFFICES ASSUME ControlInv, [TCNext]_controlVars PROVE ControlInv'
  OBVIOUS
<1>1. TCTypeOK /\ TCTypeOK' /\ OwnAtStore /\ OwnAtStore'
  BY TypeStep, OwnStep DEF ControlInv
<1> SUFFICES ASSUME ~raced' PROVE Sound'
  BY <1>1 DEF ControlInv
<1>2. ASSUME NEW t \in Threads, StartOrStop(t) PROVE Sound'
  <2>1. Access(t) /\ Observe
    BY <1>2 DEF StartOrStop, Access
  <2>2. Sound /\ OneBusy'
    BY <1>1, <2>1, Observed DEF ControlInv
  <2> QED BY <1>1, <2>1, <2>2, AccessSound
<1>3. ASSUME NEW c \in Clients, Client(c) \/ CleansUp(c) PROVE Sound'
  <2>1. Elsewhere /\ Observe
    <3>1. CASE Client(c)
      BY <1>1, <3>1 DEF Client, ClientComes, ClientAsks, ClientLeaves, Elsewhere, At, TCTypeOK
    <3>2. CASE CleansUp(c)
      BY <1>1, <3>2 DEF CleansUp, ClientSearches, ClientRemoves, Elsewhere, At, TCTypeOK
    <3> QED BY <1>3, <3>1, <3>2 DEF Client, CleansUp
  <2>2. Sound /\ OneBusy'
    BY <1>1, <2>1, Observed DEF ControlInv
  <2> QED BY <1>1, <2>1, <2>2, ElsewhereSound
<1>4. CASE HeartBeats
  <2>1. Elsewhere /\ Observe
    BY <1>1, <1>4 DEF HeartBeats, HeartTicks, Elsewhere, At, TCTypeOK
  <2>2. Sound /\ OneBusy'
    BY <1>1, <2>1, Observed DEF ControlInv
  <2> QED BY <1>1, <2>1, <2>2, ElsewhereSound
<1>5. ASSUME NEW p \in Procs, Process(p) \/ TrackerExits(p) PROVE Sound'
  <2>1. raced' = raced
    BY <1>5 DEF Process, ScriptKills, ScriptExecs, ProcessDies,
       TrackerExits, threads
  <2> QED BY <1>1, <1>5, <2>1, ProcessSound DEF ControlInv
<1>6. CASE UNCHANGED controlVars
  BY <1>6 DEF controlVars, ControlInv, Sound, OneBusy, Busy, Starting, Stopping,
     StartSawNone,
     StopHasHandle, NoOrphan, OneStays, Orphan, Alive
<1> QED BY <1>2, <1>3, <1>4, <1>5, <1>6 DEF TCNext

---------------------------------------------------------------------------
(* The theorems about the server.                                          *)

\* In every state the server and the processes reach, the invariant holds.
LEMMA ControlInvariance == TCSpec => []ControlInv
  BY ControlInit, ControlNext, PTL DEF TCSpec

\* Every variable of balltrack_websocket.py keeps its type, overlap or not; in
\* particular only processes are ever signalled.
THEOREM ControlTypes == TCSpec => []TCTypeOK
<1>1. ControlInv => TCTypeOK
  BY DEF ControlInv
<1> QED BY <1>1, ControlInvariance, PTL

\* With any number of clients: as long as startTracking and stopTracking of two
\* threads do not overlap, camprocess reaches every tracker that is to stay, a
\* second one is started only once the first was terminated, and stopTracking
\* never ends the heartbeat thread by calling a handle that has become None.
THEOREM SoundWhileSerial == TCSpec => []SoundWithoutRace
<1>1. ControlInv => SoundWithoutRace
  BY DEF ControlInv, Sound, NoOrphan, OneStays, SoundWithoutRace
<1> QED BY <1>1, ControlInvariance, PTL

---------------------------------------------------------------------------
(* The inductive invariant of the recording and the replays.               *)

\* A chunk has the turn of its file, and no two files have the same; the file
\* being written has the latest, the one being closed the latest but that.
Newest ==
    /\ ToSet(recent) = {s \in Slots : file[s].turn > 0} /\ first <= turn + 1
    /\ \A s \in Slots : file[s].turn <= turn
    /\ \A s, t \in Slots : file[s].turn = file[t].turn /\ file[s].turn > 0 => s = t
    /\ handle # 0 => /\ first <= file[handle].turn
                     /\ \A s \in Slots \ {handle} : file[s].turn < file[handle].turn
    /\ closing # 0 => /\ handle # 0 /\ first <= file[closing].turn
                      /\ \A s \in Slots \ {handle, closing} : file[s].turn < file[closing].turn

\* All other files of this tracker are complete.
Complete ==
    handle # 0 => \A s \in Slots \ {handle, closing} : file[s].turn >= first => file[s].whole

\* How far the count is past a slot.
Distance(s) == IF s <= segmentNumber THEN segmentNumber - s ELSE segmentNumber + Wrap - s

\* A file of this tracker is at least as many turns old.
Round == \A s \in Slots : file[s].turn >= first => turn >= file[s].turn + Distance(s)

Before(q, a, b) == \E i, j \in DOMAIN q : i < j /\ q[i] = a /\ q[j] = b

\* The files that may have been touched too early: they will be touched again.
Loose == {handle} \cup (IF stream = "rest" THEN {closing} ELSE {})

\* The files of this tracker were touched after all others, and but for the
\* loose ones in the order of their chunks.
InOrder ==
    handle # 0 =>
        /\ \A a, b \in Slots : Before(recent, a, b) /\ file[a].turn >= first =>
              /\ file[b].turn >= first
              /\ a \notin Loose => file[a].turn < file[b].turn
        /\ closing = 0 /\ stream = "flushed" => recent[Len(recent)] = handle

\* What a replay has listed it has copied or has yet to copy.
Progress == \A r \in Replayers :
    /\ Len(list[r]) + offset[r] = Len(seen[r]) /\ Len(seen[r]) <= Chunks
    /\ pc[r] \in {"idle", "done"} => list[r] = <<>>
    /\ pc[r] \in {"idle", "listed"} => offset[r] = 0
    /\ pc[r] \in {"listed", "copy"} => seen[r] # <<>>
    /\ \A i \in DOMAIN seen[r] : seen[r][i].turn <= turn

\* A chunk the recording has not come round to since.
Fresh(c) == first <= c.turn /\ turn < c.turn + Wrap

Same(c, d) == d.turn = c.turn /\ (c.whole => d.whole)

\* As long as it has not, what is listed is still in its file ...
Waiting == \A r \in Replayers : \A i \in DOMAIN list[r] :
    Fresh(seen[r][offset[r] + i]) => Same(seen[r][offset[r] + i], file[list[r][i]])

\* ... and what is copied stays in the replay file, if nobody else writes it.
Copied == \A r \in Replayers \ clash :
    pc[r] \in {"copy", "done"} /\ seen[r] # <<>> =>
        /\ \A q \in Replayers \ {r} : pc[q] # "copy"
        /\ Len(replay) = offset[r]
        /\ \A i \in DOMAIN replay : Fresh(seen[r][i]) => Same(seen[r][i], replay[i])

RInv == /\ TypeOK /\ Newest /\ Complete /\ Round /\ InOrder
        /\ Progress /\ Waiting /\ Copied /\ ListsTheLatest

Recording == /\ segmentNumber \in Slots /\ handle \in Slots \cup {0}
             /\ closing \in Slots \cup {0} /\ stream \in {"fresh", "rest", "flushed"}
             /\ file \in [Slots -> ChunkType]
             /\ recent \in Seq(Slots) /\ IsInjective(recent)
             /\ turn \in 0 .. MaxTurns /\ first \in 1 .. MaxTurns + 1

Replaying == /\ pc \in [Replayers -> {"idle", "listed", "copy", "done"}]
             /\ list \in [Replayers -> Seq(Slots)] /\ offset \in [Replayers -> 0 .. Chunks]
             /\ replay \in Seq(ChunkType) /\ seen \in [Replayers -> Seq(ChunkType)]
             /\ calm \subseteq Replayers /\ clash \subseteq Replayers
             /\ left \in [Replayers -> SUBSET (0 .. MaxTurns)]

LEMMA Types == TypeOK <=> Recording /\ Replaying
  BY DEF TypeOK, Recording, Replaying

LEMMA SlotsAre == /\ Slots = 1 .. Wrap /\ 0 \notin Slots /\ Slots \subseteq Nat
                  /\ 1 \in Slots /\ Wrap \in Nat /\ Wrap >= 1
  BY ReplayAssumption DEF Slots

---------------------------------------------------------------------------
(* The order of modification.                                              *)

\* Where in q the i-th of those is that are left when the k-th is taken out.
Skip(k, i) == IF i < k THEN i ELSE i + 1

LEMMA Without ==
    ASSUME NEW S, NEW q \in Seq(S), NEW k \in 1 .. Len(q)
    PROVE  /\ RemoveAt(q, k) \in Seq(S) /\ Len(RemoveAt(q, k)) = Len(q) - 1
           /\ \A i \in 1 .. Len(q) - 1 : RemoveAt(q, k)[i] = q[Skip(k, i)]
<1> DEFINE s == SubSeq(q, 1, k - 1)
           t == SubSeq(q, k + 1, Len(q))
<1>1. /\ s \in Seq(S) /\ Len(s) = k - 1 /\ Len(q) \in Nat /\ k \in Nat /\ k >= 1
      /\ \A i \in 1 .. k - 1 : s[i] = q[i]
  OBVIOUS
<1>2. /\ t \in Seq(S) /\ Len(t) = Len(q) - k
      /\ \A i \in 1 .. Len(q) - k : t[i] = q[k + i]
  OBVIOUS
<1>3. RemoveAt(q, k) = s \o t
  BY DEF RemoveAt
<1> HIDE DEF s, t
<1>4. /\ s \o t \in Seq(S) /\ Len(s \o t) = Len(s) + Len(t)
      /\ \A i \in 1 .. Len(s) + Len(t) : (s \o t)[i] = IF i <= Len(s) THEN s[i] ELSE t[i - Len(s)]
  BY <1>1, <1>2, ConcatProperties
<1>5. \A i \in 1 .. Len(q) - 1 : (s \o t)[i] = IF i < k THEN s[i] ELSE t[i - (k - 1)]
  BY <1>1, <1>2, <1>4
<1>6. \A i \in 1 .. Len(q) - 1 : ~ i < k => i - (k - 1) \in 1 .. Len(q) - k /\ k + (i - (k - 1)) = i + 1
  BY <1>1
<1>7. \A i \in 1 .. Len(q) - 1 : ~ i < k => t[i - (k - 1)] = q[i + 1]
  BY <1>2, <1>6
<1>8. \A i \in 1 .. Len(q) - 1 : i < k => s[i] = q[i]
  BY <1>1
<1>9. Len(s) + Len(t) = Len(q) - 1
  BY <1>1, <1>2
<1> QED
  BY <1>3, <1>4, <1>5, <1>7, <1>8, <1>9 DEF Skip

LEMMA OnePlace ==
    ASSUME NEW S, NEW q \in Seq(S), IsInjective(q), NEW i \in 1 .. Len(q),
           NEW j \in 1 .. Len(q), q[i] = q[j]
    PROVE  i = j
  BY DEF IsInjective

\* Taking a slot out leaves the others in their order.
LEMMA Removed ==
    ASSUME NEW S, NEW q \in Seq(S), IsInjective(q), NEW e
    PROVE  LET g == RemoveFirst(q, e)
           IN  /\ g \in Seq(S) /\ IsInjective(g) /\ ToSet(g) = ToSet(q) \ {e}
               /\ \A a, b : Before(g, a, b) => Before(q, a, b)
<1> DEFINE g == RemoveFirst(q, e)
<1>0. Len(q) \in Nat /\ DOMAIN q = 1 .. Len(q)
  OBVIOUS
<1>1. CASE e \notin ToSet(q)
  <2>1. ~ \E i \in 1 .. Len(q) : q[i] = e
    BY <1>0, <1>1 DEF ToSet
  <2>2. g = q
    BY <2>1 DEF RemoveFirst
  <2> QED BY <1>1, <2>2
<1>2. ASSUME NEW k \in 1 .. Len(q), q[k] = e
      PROVE  /\ g \in Seq(S) /\ IsInjective(g) /\ ToSet(g) = ToSet(q) \ {e}
             /\ \A a, b : Before(g, a, b) => Before(q, a, b)
  <2>1. {i \in 1 .. Len(q) : q[i] = e} = {k} /\ Min({k}) = k
    BY <1>0, <1>2 DEF IsInjective, Min
  <2>2. g = RemoveAt(q, k)
    BY <1>2, <2>1 DEF RemoveFirst, SelectInSeq
  <2>3. /\ g \in Seq(S) /\ Len(g) = Len(q) - 1 /\ DOMAIN g = 1 .. Len(q) - 1
        /\ \A i \in 1 .. Len(q) - 1 : g[i] = q[Skip(k, i)]
    BY <2>2, Without
  <2> HIDE DEF g
  <2>4. \A i, j \in 1 .. Len(q) - 1 :
           /\ Skip(k, i) \in 1 .. Len(q) /\ Skip(k, i) # k
           /\ Skip(k, i) = Skip(k, j) => i = j
           /\ i < j => Skip(k, i) < Skip(k, j)
    BY <1>0 DEF Skip
  <2>5. \A n \in 1 .. Len(q) : n # k => \E i \in 1 .. Len(q) - 1 : Skip(k, i) = n
    <3> SUFFICES ASSUME NEW n \in 1 .. Len(q), n # k
                 PROVE  \E i \in 1 .. Len(q) - 1 : Skip(k, i) = n
      OBVIOUS
    <3>1. CASE n < k
      <4>1. n \in 1 .. Len(q) - 1 /\ Skip(k, n) = n
        BY <1>0, <3>1 DEF Skip
      <4> QED BY <4>1
    <3>2. CASE n > k
      <4>1. n - 1 \in 1 .. Len(q) - 1 /\ Skip(k, n - 1) = n
        BY <1>0, <3>2 DEF Skip
      <4> QED BY <4>1
    <3> QED BY <1>0, <3>1, <3>2
  <2>6. IsInjective(g)
    <3> SUFFICES ASSUME NEW i \in 1 .. Len(q) - 1, NEW j \in 1 .. Len(q) - 1, g[i] = g[j]
                 PROVE  i = j
      BY <2>3 DEF IsInjective
    <3>1. q[Skip(k, i)] = q[Skip(k, j)]
      BY <2>3
    <3>2. Skip(k, i) = Skip(k, j)
      BY <1>0, <2>4, <3>1 DEF IsInjective
    <3> QED BY <2>4, <3>2
  <2>7. ToSet(g) \subseteq ToSet(q) \ {e}
    <3> SUFFICES ASSUME NEW i \in 1 .. Len(q) - 1 PROVE g[i] \in ToSet(q) \ {e}
      BY <2>3 DEF ToSet
    <3>1. g[i] = q[Skip(k, i)] /\ Skip(k, i) \in DOMAIN q /\ Skip(k, i) # k
      BY <1>0, <2>3, <2>4
    <3>2. q[Skip(k, i)] # e
      BY <1>0, <1>2, <3>1 DEF IsInjective
    <3> QED BY <3>1, <3>2 DEF ToSet
  <2>8. ToSet(q) \ {e} \subseteq ToSet(g)
    <3> SUFFICES ASSUME NEW n \in 1 .. Len(q), q[n] # e PROVE q[n] \in ToSet(g)
      BY <1>0 DEF ToSet
    <3>1. PICK i \in 1 .. Len(q) - 1 : Skip(k, i) = n
      BY <1>2, <2>5
    <3> QED BY <2>3, <3>1 DEF ToSet
  <2>9. ASSUME NEW a, NEW b, Before(g, a, b) PROVE Before(q, a, b)
    <3>1. PICK i, j \in 1 .. Len(q) - 1 : i < j /\ g[i] = a /\ g[j] = b
      BY <2>3, <2>9 DEF Before
    <3>2. /\ Skip(k, i) < Skip(k, j) /\ Skip(k, i) \in DOMAIN q /\ Skip(k, j) \in DOMAIN q
          /\ q[Skip(k, i)] = a /\ q[Skip(k, j)] = b
      BY <1>0, <2>3, <2>4, <3>1
    <3> QED BY <3>2 DEF Before
  <2> QED BY <2>3, <2>6, <2>7, <2>8, <2>9
<1>3. e \in ToSet(q) => \E k \in 1 .. Len(q) : q[k] = e
  BY <1>0 DEF ToSet
<1> QED BY <1>1, <1>2, <1>3

\* A file that is touched is the last; the others stay in their order.
LEMMA Touched ==
    ASSUME NEW q \in Seq(Slots), IsInjective(q), NEW s \in Slots
    PROVE  LET t == Touch(q, s)
           IN  /\ t \in Seq(Slots) /\ IsInjective(t) /\ ToSet(t) = ToSet(q) \cup {s}
               /\ t[Len(t)] = s
               /\ \A a, b : Before(t, a, b) => a # s /\ (b = s \/ Before(q, a, b))
<1> DEFINE g == RemoveFirst(q, s)
           t == Append(g, s)
<1>1. /\ g \in Seq(Slots) /\ IsInjective(g) /\ ToSet(g) = ToSet(q) \ {s}
      /\ \A a, b : Before(g, a, b) => Before(q, a, b)
  BY Removed
<1> HIDE DEF g
<1>2. /\ t \in Seq(Slots) /\ Len(g) \in Nat /\ Len(t) = Len(g) + 1
      /\ DOMAIN g = 1 .. Len(g) /\ DOMAIN t = 1 .. Len(g) + 1
      /\ t[Len(g) + 1] = s /\ \A i \in 1 .. Len(g) : t[i] = g[i]
  BY <1>1
<1> HIDE DEF t
<1>3. \A i \in DOMAIN t : (i \in DOMAIN g /\ t[i] = g[i]) \/ (i = Len(g) + 1 /\ t[i] = s)
  BY <1>2
<1>4. \A i \in DOMAIN g : g[i] # s
  BY <1>1 DEF ToSet
<1>5. ToSet(t) = ToSet(g) \cup {s}
  <2>1. DOMAIN g \subseteq DOMAIN t /\ Len(g) + 1 \in DOMAIN t
    BY <1>2
  <2> QED BY <1>2, <1>3, <2>1 DEF ToSet
<1>6. ToSet(t) = ToSet(q) \cup {s}
  BY <1>1, <1>5
<1>7. IsInjective(t)
  BY <1>1, <1>3, <1>4 DEF IsInjective
<1>8. t[Len(t)] = s
  BY <1>2
<1>9. ASSUME NEW a, NEW b, Before(t, a, b) PROVE a # s /\ (b = s \/ Before(q, a, b))
  <2>1. PICK i, j \in DOMAIN t : i < j /\ t[i] = a /\ t[j] = b
    BY <1>9 DEF Before
  <2>2. i \in DOMAIN g /\ g[i] = a
    BY <1>2, <2>1
  <2>3. (j \in DOMAIN g /\ g[j] = b) \/ b = s
    BY <1>3, <2>1
  <2>4. j \in DOMAIN g /\ g[j] = b => Before(g, a, b)
    BY <2>1, <2>2 DEF Before
  <2> QED BY <1>1, <1>4, <2>2, <2>3, <2>4
<1>10. Touch(q, s) = t
  BY DEF Touch, t, g
<1> QED BY <1>2, <1>6, <1>7, <1>8, <1>9, <1>10

---------------------------------------------------------------------------
(* The tracker.                                                            *)

LEMMA NextIs ==
    ASSUME segmentNumber \in Slots
    PROVE  /\ NextSegment \in Slots /\ Distance(NextSegment) = Wrap - 1
           /\ \A s \in Slots \ {NextSegment} :
                 (IF s <= NextSegment THEN NextSegment - s ELSE NextSegment + Wrap - s)
                     = Distance(s) + 1
  BY SlotsAre DEF NextSegment, Distance

LEMMA OpenedIs ==
    ASSUME Recording, NEW n \in Slots, turn < MaxTurns
    PROVE  /\ Opened(n) \in [Slots -> ChunkType] /\ Opened(n)[n].turn = turn + 1
           /\ \A s \in Slots \ {n} : Opened(n)[s] = file[s]
<1>1. [turn |-> turn + 1, whole |-> FALSE] \in ChunkType
  BY ReplayAssumption DEF Recording, ChunkType
<1> QED BY <1>1 DEF Opened, Recording

\* A close completes the file, unless that is being written again.
LEMMA ClosedIs ==
    ASSUME Recording, SegmentCloses
    PROVE  /\ file' \in [Slots -> ChunkType] /\ closing \in Slots
           /\ \A s \in Slots \ {closing} : file'[s] = file[s]
           /\ \A s \in Slots : /\ file'[s].turn = file[s].turn
                               /\ file[s].whole => file'[s].whole
           /\ closing # handle => file'[closing].whole
<1>0. closing \in Slots
  BY DEF SegmentCloses, Recording
<1>1. CASE closing = handle
  BY <1>0, <1>1 DEF SegmentCloses, Recording
<1>2. CASE closing # handle
  <2> DEFINE c == [file[closing] EXCEPT !.whole = TRUE]
  <2>1. file[closing] \in ChunkType
    BY <1>0 DEF Recording
  <2>2. c \in ChunkType /\ c.turn = file[closing].turn /\ c.whole
    BY <2>1 DEF ChunkType
  <2>3. file' = [file EXCEPT ![closing] = c]
    BY <1>2 DEF SegmentCloses
  <2> HIDE DEF c
  <2> QED BY <1>0, <2>2, <2>3 DEF Recording
<1> QED BY <1>1, <1>2

LEMMA RecordingKept == Recording /\ Record => Recording'
<1> SUFFICES ASSUME Recording, Record PROVE Recording'
  OBVIOUS
<1> USE SlotsAre
<1>0. turn < MaxTurns => turn + 1 \in 0 .. MaxTurns /\ turn + 1 \in 1 .. MaxTurns + 1
  BY ReplayAssumption DEF Recording
<1>1. CASE TrackerStarts
  <2>1. file' \in [Slots -> ChunkType]
    BY <1>1, OpenedIs DEF TrackerStarts
  <2>2. recent' \in Seq(Slots) /\ IsInjective(recent')
    BY <1>1, Touched DEF TrackerStarts, Recording
  <2> QED BY <1>0, <1>1, <2>1, <2>2 DEF TrackerStarts, Recording
<1>2. CASE TrackerStops
  BY <1>2 DEF TrackerStops, Recording
<1>3. CASE Writes
  <2>1. recent' \in Seq(Slots) /\ IsInjective(recent')
    BY <1>3, Touched DEF Writes, Recording
  <2> QED BY <1>3, <2>1 DEF Writes, Recording
<1>4. CASE SegmentEnds
  <2>1. NextSegment \in Slots
    BY NextIs DEF Recording
  <2>2. file' \in [Slots -> ChunkType]
    BY <1>4, <2>1, OpenedIs DEF SegmentEnds
  <2>3. recent' \in Seq(Slots) /\ IsInjective(recent')
    BY <1>4, <2>1, Touched DEF SegmentEnds, Recording
  <2> QED BY <1>0, <1>4, <2>1, <2>2, <2>3 DEF SegmentEnds, Recording
<1>5. CASE SegmentCloses
  <2>1. file' \in [Slots -> ChunkType]
    BY <1>5, ClosedIs
  <2>2. recent' \in Seq(Slots) /\ IsInjective(recent')
    BY <1>5, Touched DEF SegmentCloses, Recording
  <2> QED BY <1>5, <2>1, <2>2 DEF SegmentCloses, Recording
<1>6. CASE OpenFails
  <2>1. NextSegment \in Slots
    BY NextIs DEF Recording
  <2> QED BY <1>0, <1>6, <2>1 DEF OpenFails, Recording
<1> QED BY <1>1, <1>2, <1>3, <1>4, <1>5, <1>6 DEF Record

\* The turns in the files are numbers.
LEMMA Turns == Recording => turn \in Nat /\ first \in Nat /\ first >= 1
                            /\ \A s \in Slots : file[s].turn \in Nat
  BY ReplayAssumption DEF Recording, ChunkType

\* A file is opened: it has the latest turn of all.
LEMMA OpenedNewest ==
    ASSUME Recording, Newest, NEW n \in Slots, turn < MaxTurns,
           file' = Opened(n), recent' = Touch(recent, n), turn' = turn + 1, handle' = n
    PROVE  /\ ToSet(recent') = {s \in Slots : file'[s].turn > 0}
           /\ \A s \in Slots : file'[s].turn <= turn'
           /\ \A s, t \in Slots : file'[s].turn = file'[t].turn /\ file'[s].turn > 0 => s = t
           /\ \A s \in Slots \ {n} : file'[s] = file[s] /\ file'[s].turn < file'[n].turn
           /\ file'[n].turn = turn + 1
<1>1. file'[n].turn = turn + 1 /\ \A s \in Slots \ {n} : file'[s] = file[s]
  BY OpenedIs
<1>2. \A s \in Slots : file[s].turn <= turn /\ file[s].turn \in Nat /\ turn \in Nat
  BY Turns DEF Newest
<1>3. ToSet(recent') = ToSet(recent) \cup {n}
  BY Touched DEF Recording
<1>4. ToSet(recent') = {s \in Slots : file'[s].turn > 0}
  BY <1>1, <1>2, <1>3 DEF Newest
<1>5. \A s, t \in Slots : file'[s].turn = file'[t].turn /\ file'[s].turn > 0 => s = t
  <2> SUFFICES ASSUME NEW s \in Slots, NEW t \in Slots, file'[s].turn = file'[t].turn,
                      file'[s].turn > 0
               PROVE  s = t
    OBVIOUS
  <2>1. CASE s # n /\ t # n
    BY <1>1, <2>1 DEF Newest
  <2>2. CASE s = n \/ t = n
    BY <1>1, <1>2, <2>2
  <2> QED BY <2>1, <2>2
<1> QED BY <1>1, <1>2, <1>4, <1>5

LEMMA NewestKept == Recording /\ Newest /\ Record => Newest'
<1> SUFFICES ASSUME Recording, Newest, Record PROVE Newest'
  OBVIOUS
<1> USE SlotsAre, Turns
<1>1. CASE TrackerStarts
  <2>1. /\ turn < MaxTurns /\ file' = Opened(1) /\ recent' = Touch(recent, 1)
        /\ turn' = turn + 1 /\ handle' = 1 /\ first' = turn + 1 /\ closing' = closing /\ handle = 0
    BY <1>1 DEF TrackerStarts
  <2>2. closing = 0
    BY <2>1 DEF Newest
  <2> QED BY <2>1, <2>2, OpenedNewest DEF Newest
<1>2. CASE TrackerStops
  BY <1>2 DEF TrackerStops, Newest
<1>3. CASE Writes
  <2>1. ToSet(recent') = ToSet(recent) \/ ToSet(recent') = ToSet(recent) \cup {handle}
    BY <1>3, Touched DEF Writes, Recording
  <2>2. handle # 0 /\ closing = 0 /\ UNCHANGED <<handle, closing, file, turn, first>>
    BY <1>3 DEF Writes
  <2>3. handle \in ToSet(recent)
    BY <2>2 DEF Newest, Recording
  <2> QED BY <2>1, <2>2, <2>3 DEF Newest
<1>4. CASE SegmentEnds
  <2> DEFINE n == NextSegment
  <2>1. n \in Slots
    BY NextIs DEF Recording
  <2>2. /\ turn < MaxTurns /\ file' = Opened(n) /\ recent' = Touch(recent, n)
        /\ turn' = turn + 1 /\ handle' = n /\ closing' = handle /\ UNCHANGED first
        /\ handle # 0 /\ handle \in Slots
    BY <1>4 DEF SegmentEnds, Recording
  <2> HIDE DEF n
  <2>3. /\ ToSet(recent') = {s \in Slots : file'[s].turn > 0}
        /\ \A s \in Slots : file'[s].turn <= turn'
        /\ \A s, t \in Slots : file'[s].turn = file'[t].turn /\ file'[s].turn > 0 => s = t
        /\ \A s \in Slots \ {n} : file'[s] = file[s] /\ file'[s].turn < file'[n].turn
        /\ file'[n].turn = turn + 1
    BY <2>1, <2>2, OpenedNewest
  <2>4. first' <= turn' + 1 /\ first' <= file'[handle'].turn
    BY <2>2, <2>3 DEF Newest
  <2>5. closing' # 0 => /\ handle' # 0 /\ first' <= file'[closing'].turn
                        /\ \A s \in Slots \ {handle', closing'} :
                              file'[s].turn < file'[closing'].turn
    <3>1. CASE handle = n
      BY <2>1, <2>2, <2>3, <2>4, <3>1
    <3>2. CASE handle # n
      BY <2>1, <2>2, <2>3, <3>2 DEF Newest
    <3> QED BY <3>1, <3>2
  <2> QED BY <2>2, <2>3, <2>4, <2>5 DEF Newest
<1>5. CASE SegmentCloses
  <2>1. \A s \in Slots : file'[s].turn = file[s].turn
    BY <1>5, ClosedIs
  <2>2. closing # 0 /\ closing \in Slots /\ closing' = 0 /\ UNCHANGED <<handle, turn, first>>
    BY <1>5 DEF SegmentCloses, Recording
  <2>3. ToSet(recent') = ToSet(recent) \/ ToSet(recent') = ToSet(recent) \cup {closing}
    BY <1>5, <2>2, Touched DEF SegmentCloses, Recording
  <2>4. closing \in ToSet(recent)
    BY <2>2 DEF Newest
  <2>5. ToSet(recent') = {s \in Slots : file'[s].turn > 0}
    BY <2>1, <2>3, <2>4 DEF Newest
  <2>6. handle # 0 /\ handle \in Slots
    BY <2>2 DEF Newest, Recording
  <2>7. /\ \A s \in Slots : file'[s].turn <= turn'
        /\ \A s, t \in Slots : file'[s].turn = file'[t].turn /\ file'[s].turn > 0 => s = t
        /\ first' <= turn' + 1
    BY <2>1, <2>2 DEF Newest
  <2>8. /\ first' <= file'[handle].turn
        /\ \A s \in Slots \ {handle} : file'[s].turn < file'[handle].turn
    BY <2>1, <2>2, <2>6 DEF Newest
  <2> QED BY <2>2, <2>5, <2>7, <2>8 DEF Newest
<1>6. CASE OpenFails
  <2>1. turn' = turn + 1 /\ UNCHANGED <<handle, closing, file, recent, first>>
    BY <1>6 DEF OpenFails
  <2> QED BY <2>1 DEF Newest
<1> QED BY <1>1, <1>2, <1>3, <1>4, <1>5, <1>6 DEF Record

LEMMA CompleteKept == Recording /\ Newest /\ Complete /\ Record => Complete'
<1> SUFFICES ASSUME Recording, Newest, Complete, Record PROVE Complete'
  OBVIOUS
<1> USE SlotsAre, Turns
<1>1. CASE TrackerStarts
  <2>1. /\ turn < MaxTurns /\ file' = Opened(1) /\ handle' = 1 /\ first' = turn + 1
    BY <1>1 DEF TrackerStarts
  <2>2. \A s \in Slots \ {1} : file'[s].turn < first'
    BY <2>1, OpenedIs DEF Newest
  <2>3. \A s \in Slots \ {1} : file'[s].turn \in Nat
    BY <2>1, OpenedIs
  <2> QED BY <2>1, <2>2, <2>3 DEF Complete
<1>2. CASE TrackerStops
  BY <1>2 DEF TrackerStops, Complete
<1>3. CASE Writes
  BY <1>3 DEF Writes, Complete
<1>4. CASE SegmentEnds
  <2>1. NextSegment \in Slots
    BY NextIs DEF Recording
  <2>2. /\ handle # 0 /\ closing = 0 /\ handle' = NextSegment /\ closing' = handle
        /\ UNCHANGED first
        /\ \A s \in Slots \ {NextSegment} : file'[s] = file[s]
    BY <1>4, <2>1, OpenedIs DEF SegmentEnds
  <2> QED BY <2>2 DEF Complete
<1>5. CASE SegmentCloses
  <2>1. closing # 0 /\ closing' = 0 /\ UNCHANGED <<handle, first>>
    BY <1>5 DEF SegmentCloses
  <2>2. /\ \A s \in Slots \ {closing} : file'[s] = file[s]
        /\ closing # handle => file'[closing].whole
    BY <1>5, ClosedIs
  <2> QED BY <2>1, <2>2 DEF Complete
<1>6. CASE OpenFails
  BY <1>6 DEF OpenFails, Complete
<1> QED BY <1>1, <1>2, <1>3, <1>4, <1>5, <1>6 DEF Record

\* With every turn every slot but the next is one further behind.
LEMMA TurnAgesAll ==
    ASSUME Recording, Round, NEW n, n = NextSegment, segmentNumber' = n, turn' = turn + 1,
           first' = first,
           \A s \in Slots \ {n} : file'[s] = file[s],
           file'[n].turn \in Nat, file'[n].turn <= turn'
    PROVE  Round'
<1>1. n \in Slots /\ \A s \in Slots \ {n} : Distance(s)' = Distance(s) + 1
  BY NextIs DEF Recording, Distance
<1>2. Distance(n)' = 0
  BY <1>1, SlotsAre DEF Distance
<1>3. \A s \in Slots : Distance(s) \in Int
  BY SlotsAre DEF Recording, Distance
<1> SUFFICES ASSUME NEW s \in Slots, file'[s].turn >= first'
             PROVE  turn' >= file'[s].turn + Distance(s)'
  BY DEF Round, Distance
<1>4. CASE s = n
  BY <1>2, <1>4, Turns
<1>5. CASE s # n
  BY <1>1, <1>3, <1>5, Turns DEF Round
<1> QED BY <1>4, <1>5

LEMMA RoundKept == Recording /\ Newest /\ Round /\ Record => Round'
<1> SUFFICES ASSUME Recording, Newest, Round, Record PROVE Round'
  OBVIOUS
<1> USE SlotsAre, Turns
<1>1. CASE TrackerStarts
  <2>1. /\ turn < MaxTurns /\ file' = Opened(1) /\ segmentNumber' = 1
        /\ turn' = turn + 1 /\ first' = turn + 1
    BY <1>1 DEF TrackerStarts
  <2>2. /\ file'[1].turn = turn + 1
        /\ \A s \in Slots \ {1} : ~(file'[s].turn >= first')
    BY <2>1, OpenedIs DEF Newest
  <2>3. Distance(1)' = 0
    BY <2>1 DEF Distance
  <2> SUFFICES ASSUME NEW s \in Slots, file'[s].turn >= first'
               PROVE  turn' >= file'[s].turn + Distance(s)'
    BY DEF Round, Distance
  <2> QED BY <2>1, <2>2, <2>3
<1>2. CASE TrackerStops
  BY <1>2 DEF TrackerStops, Round, Distance
<1>3. CASE Writes
  BY <1>3 DEF Writes, Round, Distance
<1>4. CASE SegmentEnds
  <2>1. NextSegment \in Slots
    BY NextIs DEF Recording
  <2>2. /\ segmentNumber' = NextSegment /\ turn' = turn + 1 /\ first' = first
        /\ file'[NextSegment].turn = turn + 1
        /\ \A s \in Slots \ {NextSegment} : file'[s] = file[s]
    BY <1>4, <2>1, OpenedIs DEF SegmentEnds
  <2> QED BY <2>2, TurnAgesAll
<1>5. CASE SegmentCloses
  <2>1. UNCHANGED <<segmentNumber, turn, first>> /\ \A s \in Slots : file'[s].turn = file[s].turn
    BY <1>5, ClosedIs DEF SegmentCloses
  <2> QED BY <2>1 DEF Round, Distance
<1>6. CASE OpenFails
  <2>1. NextSegment \in Slots
    BY NextIs DEF Recording
  <2>2. /\ segmentNumber' = NextSegment /\ turn' = turn + 1 /\ first' = first
        /\ file' = file
    BY <1>6 DEF OpenFails
  <2>3. file'[NextSegment].turn \in Nat /\ file'[NextSegment].turn <= turn'
    BY <2>1, <2>2 DEF Newest
  <2> QED BY <2>2, <2>3, TurnAgesAll
<1> QED BY <1>1, <1>2, <1>3, <1>4, <1>5, <1>6 DEF Record

LEMMA InOrderKept == Recording /\ Newest /\ InOrder /\ Record => InOrder'
<1> SUFFICES ASSUME Recording, Newest, InOrder, Record PROVE InOrder'
  OBVIOUS
<1> USE SlotsAre, Turns
<1>1. CASE TrackerStarts
  <2>1. /\ turn < MaxTurns /\ file' = Opened(1) /\ recent' = Touch(recent, 1)
        /\ first' = turn + 1 /\ stream' = "fresh"
    BY <1>1 DEF TrackerStarts
  <2>2. \A s \in Slots \ {1} : ~(file'[s].turn >= first')
    BY <2>1, OpenedIs DEF Newest
  <2>3. \A a, b : Before(recent', a, b) => a # 1
    BY <2>1, Touched DEF Recording
  <2>4. \A a, b \in Slots : ~(Before(recent', a, b) /\ file'[a].turn >= first')
    BY <2>2, <2>3
  <2> QED BY <2>1, <2>4 DEF InOrder
<1>2. CASE TrackerStops
  BY <1>2 DEF TrackerStops, InOrder
<1>3. CASE Writes
  <2>1. /\ handle # 0 /\ handle \in Slots /\ closing = 0
        /\ UNCHANGED <<handle, closing, file, first>>
        /\ \/ recent' = recent /\ stream' = "rest"
           \/ recent' = Touch(recent, handle)
    BY <1>3 DEF Writes, Recording
  <2>2. \A s \in Slots : (s \in Loose <=> s = handle) /\ (s \in Loose' <=> s = handle)
    BY <2>1 DEF Loose
  <2>3. CASE recent' = recent /\ stream' = "rest"
    BY <2>1, <2>2, <2>3 DEF InOrder
  <2>4. CASE recent' = Touch(recent, handle)
    <3>1. /\ recent'[Len(recent')] = handle
          /\ \A a, b : Before(recent', a, b) => a # handle /\ (b = handle \/ Before(recent, a, b))
      BY <2>1, <2>4, Touched DEF Recording
    <3>2. \A a, b \in Slots : Before(recent', a, b) /\ file'[a].turn >= first' =>
              file'[b].turn >= first' /\ (a \notin Loose' => file'[a].turn < file'[b].turn)
      <4> SUFFICES ASSUME NEW a \in Slots, NEW b \in Slots, Before(recent', a, b),
                          file[a].turn >= first
                   PROVE  file[b].turn >= first /\ file[a].turn < file[b].turn
        BY <2>1
      <4>1. a # handle /\ (b = handle \/ Before(recent, a, b))
        BY <3>1
      <4>2. CASE b = handle
        BY <2>1, <4>1, <4>2 DEF Newest
      <4>3. CASE Before(recent, a, b)
        BY <2>1, <2>2, <4>1, <4>3 DEF InOrder
      <4> QED BY <4>1, <4>2, <4>3
    <3> QED BY <2>1, <3>1, <3>2 DEF InOrder
  <2> QED BY <2>1, <2>3, <2>4
<1>4. CASE SegmentEnds
  <2> DEFINE n == NextSegment
  <2>1. n \in Slots
    BY NextIs DEF Recording
  <2>2. /\ handle # 0 /\ handle \in Slots /\ closing = 0 /\ stream \in {"rest", "flushed"}
        /\ turn < MaxTurns /\ handle' = n /\ closing' = handle
        /\ file' = Opened(n) /\ recent' = Touch(recent, n) /\ UNCHANGED <<stream, first>>
    BY <1>4 DEF SegmentEnds, Recording
  <2> HIDE DEF n
  <2>3. file'[n].turn = turn + 1 /\ \A s \in Slots \ {n} : file'[s] = file[s]
    BY <2>1, <2>2, OpenedIs
  <2>4. \A a, b : Before(recent', a, b) => a # n /\ (b = n \/ Before(recent, a, b))
    BY <2>1, <2>2, Touched DEF Recording
  <2>5. stream = "flushed" => \A b : ~ Before(recent, handle, b)
    <3> SUFFICES ASSUME stream = "flushed", NEW i \in DOMAIN recent, NEW j \in DOMAIN recent,
                        i < j, recent[i] = handle
                 PROVE  FALSE
      BY DEF Before
    <3>1. recent[Len(recent)] = handle
      BY <2>2 DEF InOrder
    <3>2. DOMAIN recent = 1 .. Len(recent) /\ Len(recent) \in Nat
      BY DEF Recording
    <3>3. Len(recent) \in 1 .. Len(recent) /\ i \in 1 .. Len(recent)
      BY <3>2
    <3>4. i = Len(recent)
      BY <3>1, <3>3, OnePlace DEF Recording
    <3> QED BY <3>2, <3>4
  <2>6. \A s \in Slots : s \in Loose <=> s = handle
    BY <2>2 DEF Loose
  <2>7. handle \notin Loose' => stream = "flushed"
    BY <2>2 DEF Loose
  <2>8. \A a, b \in Slots : Before(recent', a, b) /\ file'[a].turn >= first' =>
            file'[b].turn >= first' /\ (a \notin Loose' => file'[a].turn < file'[b].turn)
    <3> SUFFICES ASSUME NEW a \in Slots, NEW b \in Slots, Before(recent', a, b),
                        file'[a].turn >= first
                 PROVE  /\ file'[b].turn >= first
                        /\ a \notin Loose' => file'[a].turn < file'[b].turn
      BY <2>2
    <3>1. a # n /\ file'[a] = file[a] /\ (b = n \/ Before(recent, a, b))
      BY <2>3, <2>4
    <3>2. CASE b = n
      BY <2>3, <3>1, <3>2 DEF Newest
    <3>3. CASE b # n
      <4>1. Before(recent, a, b) /\ file'[b] = file[b] /\ file[a].turn >= first
        BY <2>3, <3>1, <3>3
      <4>2. a \notin Loose' => a # handle
        BY <2>5, <2>7, <4>1
      <4> QED BY <2>2, <2>6, <3>1, <4>1, <4>2 DEF InOrder
    <3> QED BY <3>2, <3>3
  <2> QED BY <2>2, <2>8 DEF InOrder
<1>5. CASE SegmentCloses
  <2>1. /\ handle # 0 /\ handle \in Slots /\ closing # 0 /\ closing \in Slots
        /\ closing' = 0 /\ stream' = "rest" /\ UNCHANGED <<handle, first>>
    BY <1>5 DEF SegmentCloses, Recording, Newest
  <2>2. \A s \in Slots : file'[s].turn = file[s].turn
    BY <1>5, ClosedIs
  <2>3. \A s \in Slots : s \in Loose' <=> s = handle
    BY <2>1 DEF Loose
  <2>4. \A a, b \in Slots : Before(recent', a, b) /\ file[a].turn >= first =>
            file[b].turn >= first /\ (a # handle => file[a].turn < file[b].turn)
    <3>1. CASE stream = "rest"
      <4> SUFFICES ASSUME NEW a \in Slots, NEW b \in Slots, Before(recent', a, b),
                          file[a].turn >= first
                   PROVE  file[b].turn >= first /\ (a # handle => file[a].turn < file[b].turn)
        OBVIOUS
      <4>1. recent' = Touch(recent, closing)
        BY <1>5, <3>1 DEF SegmentCloses
      <4>2. a # closing /\ (b = closing \/ Before(recent, a, b))
        BY <2>1, <4>1, Touched DEF Recording
      <4>3. CASE b = closing
        BY <2>1, <4>2, <4>3 DEF Newest
      <4>4. CASE Before(recent, a, b)
        <5>1. a # handle => a \notin Loose
          BY <4>2 DEF Loose
        <5> QED BY <2>1, <4>4, <5>1 DEF InOrder
      <4> QED BY <4>2, <4>3, <4>4
    <3>2. CASE stream # "rest"
      <4>1. recent' = recent
        BY <1>5, <3>2 DEF SegmentCloses
      <4>2. \A s \in Slots : s # handle => s \notin Loose
        BY <3>2 DEF Loose
      <4> QED BY <2>1, <4>1, <4>2 DEF InOrder
    <3> QED BY <3>1, <3>2
  <2> QED BY <2>1, <2>2, <2>3, <2>4 DEF InOrder
<1>6. CASE OpenFails
  BY <1>6 DEF OpenFails, InOrder, Loose
<1> QED BY <1>1, <1>2, <1>3, <1>4, <1>5, <1>6 DEF Record

---------------------------------------------------------------------------
(* A listing.                                                              *)

\* What is listed is a stretch of the files that ends with the last but those
\* ignored.
LEMMA FragmentsAre ==
    ASSUME recent \in Seq(Slots)
    PROVE  \E k \in Nat :
              /\ Fragments \in Seq(Slots) /\ Len(Fragments) <= Chunks
              /\ k + Len(Fragments) = Over(recent, Ignore)
              /\ \A i \in 1 .. Len(Fragments) : Fragments[i] = recent[k + i]
<1> DEFINE m == Over(recent, Ignore)
           older == SubSeq(recent, 1, m)
           k == Over(older, Chunks)
           f == SubSeq(older, 1 + k, m)
<1> USE ReplayAssumption
<1>1. Len(recent) \in Nat /\ m \in Nat /\ m <= Len(recent)
  BY DEF Over
<1>2. \A i \in 1 .. m : recent[i] \in Slots
  BY <1>1
<1> HIDE DEF m
<1>3. older \in Seq(Slots) /\ Len(older) = m /\ \A i \in 1 .. m : older[i] = recent[i]
  BY <1>1, <1>2, SubSeqProperties
<1> HIDE DEF older
<1>4. k \in Nat /\ k <= m /\ m - k <= Chunks
  BY <1>1, <1>3 DEF Over
<1> HIDE DEF k
<1>5. \A i \in (1 + k) .. m : older[i] \in Slots
  BY <1>1, <1>3, <1>4
<1>6. 1 + k \in Int /\ m \in Int
  BY <1>1, <1>4
<1>7. /\ f \in Seq(Slots) /\ Len(f) = (IF 1 + k <= m THEN m - (1 + k) + 1 ELSE 0)
      /\ \A i \in 1 .. m - (1 + k) + 1 : f[i] = older[(1 + k) + i - 1]
  BY <1>5, <1>6, SubSeqProperties
<1> HIDE DEF f
<1>8. Len(f) = m - k
  BY <1>1, <1>4, <1>7
<1>9. \A i \in 1 .. Len(f) : i \in 1 .. m - (1 + k) + 1 /\ (1 + k) + i - 1 = k + i /\ k + i \in 1 .. m
  BY <1>1, <1>4, <1>8
<1>10. \A i \in 1 .. Len(f) : f[i] = recent[k + i]
  BY <1>3, <1>7, <1>9
<1>11. Fragments = f
  BY <1>3 DEF Fragments, f, k, older, m
<1>12. k + Len(f) = m
  BY <1>1, <1>4, <1>8
<1> QED BY <1>4, <1>7, <1>8, <1>10, <1>11, <1>12 DEF m

\* What ListsTheLatest says of one replay.
Latest(s, rest) ==
    /\ \A i \in DOMAIN s : s[i].whole
    /\ \A i, j \in DOMAIN s : i < j => s[i].turn < s[j].turn
    /\ LET later == {t \in rest : t > s[1].turn}
       IN  /\ Cardinality(later) = Ignore
           /\ \A t \in later, i \in DOMAIN s : s[i].turn < t

LEMMA ListsTheLatestIs ==
    ListsTheLatest <=> \A r \in calm : pc[r] = "listed" => Latest(seen[r], left[r])
  BY DEF ListsTheLatest, Latest

\* At a settled moment the turns of the files listed, and of those after them,
\* go up; those of the files before them are lower.
LEMMA SettledOrder ==
    ASSUME Recording, Newest, InOrder, Settled, NEW p \in 1 .. Len(recent),
           file[recent[p]].turn >= first
    PROVE  /\ \A i, j \in p .. Len(recent) : i < j => file[recent[i]].turn < file[recent[j]].turn
           /\ \A i \in 1 .. p - 1 : file[recent[i]].turn < file[recent[p]].turn
           /\ \A j \in p .. Len(recent) : file[recent[j]].turn >= first
<1> DEFINE n == Len(recent)
<1> USE SlotsAre, Turns
<1>0. n \in Nat /\ DOMAIN recent = 1 .. n /\ p \in Nat /\ \A i \in 1 .. n : recent[i] \in Slots
  BY DEF Recording
<1>1. handle # 0 /\ closing = 0 /\ recent[n] = handle
  BY DEF Settled
<1>2. \A i, j \in 1 .. n : i < j => Before(recent, recent[i], recent[j])
  BY <1>0 DEF Before
<1>3. \A i \in 1 .. n : i # n => recent[i] \notin Loose
  <2>1. \A i \in 1 .. n : i # n => recent[i] # handle
    <3> SUFFICES ASSUME NEW i \in 1 .. n, i # n, recent[i] = recent[n] PROVE FALSE
      BY <1>1
    <3>1. n \in Nat /\ i \in 1 .. n
      BY <1>0
    <3> HIDE DEF n
    <3>2. n \in 1 .. n
      BY <3>1
    <3> QED BY <3>2, OnePlace DEF Recording, n
  <2> QED BY <1>0, <1>1, <2>1 DEF Loose
<1>4. \A i, j \in 1 .. n : i < j /\ file[recent[i]].turn >= first =>
         file[recent[j]].turn >= first /\ file[recent[i]].turn < file[recent[j]].turn
  <2> SUFFICES ASSUME NEW i \in 1 .. n, NEW j \in 1 .. n, i < j, file[recent[i]].turn >= first
               PROVE  file[recent[j]].turn >= first /\ file[recent[i]].turn < file[recent[j]].turn
    OBVIOUS
  <2> HIDE DEF n
  <2>0. i # n
    BY <1>0
  <2>1. i # n /\ recent[i] \in Slots /\ recent[j] \in Slots
    BY <1>0, <2>0
  <2> QED BY <1>1, <1>2, <1>3, <2>1 DEF InOrder
<1>5. \A j \in p .. n : j \in 1 .. n /\ (j = p \/ p < j)
  BY <1>0
<1>6. \A j \in p .. n : file[recent[j]].turn >= first
  BY <1>4, <1>5
<1>7. \A i \in 1 .. p - 1 : i \in 1 .. n /\ i < p
  BY <1>0
<1>8. \A i \in 1 .. p - 1 : file[recent[i]].turn < file[recent[p]].turn
  <2> SUFFICES ASSUME NEW i \in 1 .. p - 1 PROVE file[recent[i]].turn < file[recent[p]].turn
    OBVIOUS
  <2>1. CASE file[recent[i]].turn >= first
    BY <1>4, <1>7, <2>1
  <2>2. CASE ~(file[recent[i]].turn >= first)
    BY <1>0, <1>7, <2>2
  <2> QED BY <2>1, <2>2
<1> QED BY <1>4, <1>5, <1>6, <1>8

LEMMA Listing ==
    ASSUME Recording, Newest, Complete, InOrder, Settled, Fragments # <<>>
    PROVE  Latest([i \in DOMAIN Fragments |-> file[Fragments[i]]],
                  {file[s].turn : s \in ToSet(recent) \ ToSet(Fragments)})
<1> DEFINE n == Len(recent)
           m == Over(recent, Ignore)
           T(i) == file[recent[i]].turn
           sq == [i \in DOMAIN Fragments |-> file[Fragments[i]]]
           rest == {file[s].turn : s \in ToSet(recent) \ ToSet(Fragments)}
           later == {t \in rest : t > sq[1].turn}
<1> USE SlotsAre, Turns
<1>0. n \in Nat /\ DOMAIN recent = 1 .. n /\ \A i \in 1 .. n : recent[i] \in Slots
  BY DEF Recording
<1>1. PICK k \in Nat : /\ Fragments \in Seq(Slots) /\ k + Len(Fragments) = m
                       /\ \A i \in 1 .. Len(Fragments) : Fragments[i] = recent[k + i]
  BY FragmentsAre DEF Recording
<1>2. Len(Fragments) \in Nat /\ Len(Fragments) >= 1 /\ DOMAIN Fragments = 1 .. Len(Fragments)
  BY <1>1
<1>3. m \in Nat /\ m = n - Ignore /\ Ignore \in Nat /\ Ignore >= 1 /\ k + 1 <= m /\ m < n
  <2>1. m # 0
    BY <1>1, <1>2
  <2>2. Ignore \in Nat /\ Ignore >= 1
    BY ReplayAssumption
  <2>3. m = IF n > Ignore THEN n - Ignore ELSE 0
    BY DEF Over
  <2> HIDE DEF m, n
  <2> QED BY <1>0, <1>1, <1>2, <2>1, <2>2, <2>3
<1> HIDE DEF m, n
<1> DEFINE p == k + 1
<1>4. p \in 1 .. n /\ p \in Nat /\ Fragments[1] = recent[p] /\ T(p) >= first
  <2>1. Fragments[1] = recent[p] /\ p \in 1 .. n /\ p \in Nat /\ 1 \in DOMAIN Fragments
    BY <1>0, <1>1, <1>2, <1>3
  <2> QED BY <2>1 DEF Settled
<1>5. /\ \A i, j \in p .. n : i < j => T(i) < T(j)
      /\ \A i \in 1 .. p - 1 : T(i) < T(p)
      /\ \A j \in p .. n : T(j) >= first
  BY <1>4, SettledOrder DEF n
<1>6. handle # 0 /\ closing = 0 /\ recent[n] = handle
  BY DEF Settled, n
<1> HIDE DEF p
<1>7. \A i \in 1 .. Len(Fragments) :
         /\ k + i \in p .. n /\ k + i \in 1 .. n /\ k + i <= m /\ k + i < n
         /\ sq[i] = file[recent[k + i]]
  <2> SUFFICES ASSUME NEW i \in 1 .. Len(Fragments)
               PROVE  /\ k + i \in p .. n /\ k + i \in 1 .. n /\ k + i <= m /\ k + i < n
                      /\ sq[i] = file[recent[k + i]]
    OBVIOUS
  <2>1. sq[i] = file[recent[k + i]]
    BY <1>1, <1>2
  <2>2. k + i \in p .. n /\ k + i \in 1 .. n /\ k + i <= m /\ k + i < n
    BY <1>0, <1>1, <1>2, <1>3 DEF p
  <2> QED BY <2>1, <2>2
<1>8. \A i \in DOMAIN sq : sq[i].whole
  <2> SUFFICES ASSUME NEW i \in 1 .. Len(Fragments) PROVE file[recent[k + i]].whole
    BY <1>2, <1>7
  <2>1. recent[k + i] \in Slots /\ recent[k + i] # handle
    <3>0. k + i \in 1 .. n /\ k + i < n
      BY <1>7
    <3>1. k + i \in 1 .. n /\ k + i < n /\ n \in 1 .. n
      BY <1>0, <3>0
    <3>2. recent[k + i] = recent[n] => k + i = n
      BY <3>1, OnePlace DEF Recording, n
    <3> QED BY <1>0, <1>6, <3>1, <3>2
  <2>2. file[recent[k + i]].turn >= first
    BY <1>5, <1>7
  <2> QED BY <1>6, <2>1, <2>2 DEF Complete
<1>9. \A i, j \in DOMAIN sq : i < j => sq[i].turn < sq[j].turn
  <2> SUFFICES ASSUME NEW i \in 1 .. Len(Fragments), NEW j \in 1 .. Len(Fragments), i < j
               PROVE  sq[i].turn < sq[j].turn
    BY <1>2
  <2>1. k + i \in p .. n /\ k + j \in p .. n
    BY <1>7
  <2>a. k + i < k + j
    BY <1>1, <1>2
  <2>2. T(k + i) < T(k + j)
    BY <1>5, <2>1, <2>a
  <2> QED BY <1>7, <2>2
<1>10. sq[1].turn = T(p)
  BY <1>2, <1>4
\* Which of the others have a later turn: those after the files listed.
<1>11. \A j \in (m + 1) .. n : j \in 1 .. n /\ j \in p .. n /\ p < j /\ ~(j <= m)
  BY <1>0, <1>3 DEF p
<1>12. ASSUME NEW j \in (m + 1) .. n PROVE T(j) \in later
  <2>1. recent[j] \notin ToSet(Fragments)
    <3> SUFFICES ASSUME NEW i \in 1 .. Len(Fragments), Fragments[i] = recent[j] PROVE FALSE
      BY <1>2 DEF ToSet
    <3>1. recent[k + i] = recent[j] /\ k + i \in 1 .. n /\ k + i <= m
      BY <1>1, <1>7
    <3>2. k + i = j
      BY <1>11, <3>1, OnePlace DEF Recording, n
    <3> QED BY <1>11, <3>1, <3>2
  <2>2. recent[j] \in ToSet(recent)
    BY <1>0, <1>11 DEF ToSet
  <2>3. T(p) < T(j)
    <3>1. p \in p .. n
      BY <1>4
    <3> QED BY <1>5, <1>11, <3>1
  <2>4. T(j) \in Nat /\ T(p) \in Nat
    BY <1>0, <1>4, <1>11
  <2> QED BY <1>10, <2>1, <2>2, <2>3, <2>4
<1>13. ASSUME NEW t \in later PROVE \E j \in (m + 1) .. n : t = T(j)
  <2>1. PICK s \in ToSet(recent) \ ToSet(Fragments) : t = file[s].turn
    OBVIOUS
  <2>2. PICK j \in 1 .. n : recent[j] = s
    BY <1>0, <2>1 DEF ToSet
  <2>3. T(j) > T(p)
    BY <1>10, <2>1, <2>2
  <2>4. ~(j \in 1 .. p - 1)
    BY <1>0, <1>4, <1>5, <2>2, <2>3
  <2>5. ~(j \in p .. m)
    <3> SUFFICES ASSUME j \in p .. m PROVE FALSE
      OBVIOUS
    <3>1. j - k \in 1 .. Len(Fragments) /\ k + (j - k) = j
      BY <1>1, <1>2, <1>3 DEF p
    <3>2. Fragments[j - k] = recent[j]
      BY <1>1, <3>1
    <3> QED BY <1>2, <2>1, <2>2, <3>1, <3>2 DEF ToSet
  <2>6. j \in (m + 1) .. n
    BY <1>0, <1>3, <1>4, <2>4, <2>5
  <2> QED BY <2>1, <2>2, <2>6
<1>14. Cardinality(later) = Ignore
  <2> DEFINE f == [j \in (m + 1) .. n |-> T(j)]
  <2>1. f \in [(m + 1) .. n -> later]
    BY <1>12
  <2>2. \A t \in later : \E j \in (m + 1) .. n : f[j] = t
    BY <1>13
  <2>3. \A i, j \in (m + 1) .. n : f[i] = f[j] => i = j
    <3> SUFFICES ASSUME NEW i \in (m + 1) .. n, NEW j \in (m + 1) .. n, T(i) = T(j) PROVE i = j
      OBVIOUS
    <3>1. T(i) \in Nat /\ ~(T(i) < T(j)) /\ ~(T(j) < T(i))
      BY <1>0, <1>11
    <3>2. ~(i < j) /\ ~(j < i)
      BY <1>5, <1>11, <3>1
    <3> QED BY <1>0, <1>3, <3>2
  <2>4. f \in Bijection((m + 1) .. n, later)
    BY <2>1, <2>2, <2>3 DEF Bijection, Injection, Surjection, IsInjective
  <2>5. ExistsBijection((m + 1) .. n, later)
    BY <2>4 DEF ExistsBijection
  <2>6. IsFiniteSet((m + 1) .. n) /\ Cardinality((m + 1) .. n) = Ignore
    <3>1. m + 1 \in Int /\ n \in Int /\ ~(m + 1 > n) /\ n - (m + 1) + 1 = Ignore
      BY <1>0, <1>3
    <3> QED BY <3>1, FS_Interval
  <2> QED BY <2>5, <2>6, FS_Bijection
<1>15. ASSUME NEW t \in later, NEW i \in DOMAIN sq PROVE sq[i].turn < t
  <2>1. PICK j \in (m + 1) .. n : t = T(j)
    BY <1>13
  <2>2. i \in 1 .. Len(Fragments)
    BY <1>2
  <2>3. k + i \in p .. n /\ j \in p .. n /\ k + i < j
    <3>1. k + i \in p .. n /\ k + i <= m
      BY <1>7, <2>2
    <3>2. j \in p .. n /\ ~(j <= m)
      BY <1>11
    <3> QED BY <1>0, <1>3, <1>4, <3>1, <3>2
  <2>4. T(k + i) < T(j)
    BY <1>5, <2>3
  <2> QED BY <1>7, <2>1, <2>2, <2>4
<1> QED BY <1>8, <1>9, <1>14, <1>15 DEF Latest

---------------------------------------------------------------------------
(* The replays, while the tracker goes on.                                 *)

\* The turn and the first turn only grow.
LEMMA TurnsGrow == Recording /\ Newest /\ Record => turn <= turn' /\ first <= first'
<1> SUFFICES ASSUME Recording, Newest, Record PROVE turn <= turn' /\ first <= first'
  OBVIOUS
<1>1. turn \in Nat /\ first \in Nat /\ first <= turn + 1
  BY Turns DEF Newest
<1>2. /\ turn' \in {turn, turn + 1} /\ first' \in {first, turn + 1}
  BY DEF Record, TrackerStarts, TrackerStops, Writes, SegmentEnds, SegmentCloses, OpenFails
<1> QED BY <1>1, <1>2

LEMMA RecordLeaves == Record => UNCHANGED <<pc, list, offset, replay, seen, calm, left, clash>>
  BY DEF Record, TrackerStarts, TrackerStops, Writes, SegmentEnds, SegmentCloses, OpenFails,
     replays

\* A chunk that is fresh after a step was so before it.
LEMMA FreshBefore ==
    ASSUME Recording, Newest, Record, NEW c \in ChunkType, first' <= c.turn, turn' < c.turn + Wrap
    PROVE  Fresh(c)
<1>1. turn \in Nat /\ first \in Nat /\ c.turn \in Nat /\ turn <= turn' /\ first <= first'
  BY Turns, TurnsGrow DEF ChunkType
<1>2. turn' \in Nat /\ first' \in Nat
  BY RecordingKept DEF Recording
<1> QED BY <1>1, <1>2, SlotsAre DEF Fresh

\* The file of a chunk is opened anew only when the chunk is no longer fresh.
LEMMA FreshStays ==
    ASSUME Recording, Newest, Round, Record, NEW c \in ChunkType, NEW s \in Slots,
           c.turn <= turn, Fresh(c) => Same(c, file[s]),
           first' <= c.turn, turn' < c.turn + Wrap
    PROVE  Same(c, file'[s])
<1> USE SlotsAre, Turns
<1>0. Same(c, file[s]) /\ c.turn \in Nat /\ first <= c.turn
  BY FreshBefore DEF ChunkType, Fresh
<1>1. CASE TrackerStarts
  <2>1. first' = turn + 1
    BY <1>1 DEF TrackerStarts
  <2> QED BY <1>0, <2>1
<1>2. CASE TrackerStops \/ Writes \/ OpenFails
  <2>1. file' = file
    BY <1>2 DEF TrackerStops, Writes, OpenFails
  <2> QED BY <1>0, <2>1
<1>3. CASE SegmentEnds
  <2>1. NextSegment \in Slots /\ Distance(NextSegment) = Wrap - 1
    BY NextIs DEF Recording
  <2>2. turn' = turn + 1 /\ \A t \in Slots \ {NextSegment} : file'[t] = file[t]
    BY <1>3, <2>1, OpenedIs DEF SegmentEnds
  <2>3. s # NextSegment
    <3> SUFFICES ASSUME s = NextSegment PROVE FALSE
      OBVIOUS
    <3>1. file[s].turn = c.turn
      BY <1>0 DEF Same
    <3>2. turn >= c.turn + (Wrap - 1)
      BY <1>0, <2>1, <3>1 DEF Round
    <3> QED BY <1>0, <2>2, <3>2
  <2> QED BY <1>0, <2>2, <2>3
<1>4. CASE SegmentCloses
  <2>1. file'[s].turn = file[s].turn /\ (file[s].whole => file'[s].whole)
    BY <1>4, ClosedIs
  <2> QED BY <1>0, <2>1 DEF Same
<1> QED BY <1>1, <1>2, <1>3, <1>4 DEF Record

LEMMA ProgressInRecord ==
    ASSUME Recording, Newest, Replaying, Progress, Record PROVE Progress'
<1>1. UNCHANGED <<pc, list, offset, seen>>
  BY RecordLeaves
<1>2. turn \in Nat /\ turn' \in Nat /\ turn <= turn'
  BY Turns, TurnsGrow, RecordingKept DEF Recording
<1>3. ASSUME NEW r \in Replayers, NEW i \in DOMAIN seen[r] PROVE seen[r][i].turn <= turn'
  <2>1. seen[r][i] \in ChunkType /\ seen[r][i].turn <= turn
    BY <1>3 DEF Replaying, Progress
  <2>2. seen[r][i].turn \in Nat
    BY <2>1 DEF ChunkType
  <2> QED BY <1>2, <2>1, <2>2
<1> QED BY <1>1, <1>3 DEF Progress

\* What is still to be copied is a slot with the chunk that was seen in it.
LEMMA StillListed ==
    ASSUME Replaying, Progress, NEW r \in Replayers, NEW i \in DOMAIN list[r]
    PROVE  /\ list[r][i] \in Slots /\ offset[r] + i \in DOMAIN seen[r]
           /\ seen[r][offset[r] + i] \in ChunkType /\ seen[r][offset[r] + i].turn <= turn
<1>1. /\ list[r] \in Seq(Slots) /\ offset[r] \in Nat /\ seen[r] \in Seq(ChunkType)
      /\ Len(list[r]) + offset[r] = Len(seen[r])
  BY ReplayAssumption DEF Replaying, Progress
<1>2. /\ i \in 1 .. Len(list[r]) /\ Len(list[r]) \in Nat /\ Len(seen[r]) \in Nat
      /\ DOMAIN seen[r] = 1 .. Len(seen[r]) /\ list[r][i] \in Slots
  BY <1>1
<1>3. offset[r] + i \in DOMAIN seen[r]
  BY <1>1, <1>2
<1>4. seen[r][offset[r] + i] \in ChunkType
  BY <1>1, <1>3
<1> QED BY <1>2, <1>3, <1>4 DEF Progress

LEMMA WaitingInRecord ==
    ASSUME Recording, Newest, Round, Replaying, Progress, Waiting, Record PROVE Waiting'
<1>1. UNCHANGED <<list, offset, seen>>
  BY RecordLeaves
<1> SUFFICES ASSUME NEW r \in Replayers, NEW i \in DOMAIN list[r],
                    first' <= seen[r][offset[r] + i].turn,
                    turn' < seen[r][offset[r] + i].turn + Wrap
             PROVE  Same(seen[r][offset[r] + i], file[list[r][i]]')
  BY <1>1 DEF Waiting, Fresh, Same
<1>2. /\ list[r][i] \in Slots /\ seen[r][offset[r] + i] \in ChunkType
      /\ seen[r][offset[r] + i].turn <= turn
  BY StillListed
<1>3. Fresh(seen[r][offset[r] + i]) => Same(seen[r][offset[r] + i], file[list[r][i]])
  BY DEF Waiting
<1>4. \A c \in ChunkType, s \in Slots :
         /\ c.turn <= turn /\ first' <= c.turn /\ turn' < c.turn + Wrap
         /\ Fresh(c) => Same(c, file[s])
         => Same(c, file'[s])
  BY FreshStays
<1>5. Same(seen[r][offset[r] + i], file'[list[r][i]])
  BY <1>2, <1>3, <1>4
<1> QED BY <1>1, <1>5

LEMMA CopiedInRecord ==
    ASSUME Recording, Newest, Replaying, Progress, Copied, Record PROVE Copied'
<1>1. UNCHANGED <<pc, offset, replay, seen, clash>>
  BY RecordLeaves
<1>2. ASSUME NEW r \in Replayers \ clash, pc[r] \in {"copy", "done"}, seen[r] # <<>>,
             NEW i \in DOMAIN replay,
             first' <= seen[r][i].turn, turn' < seen[r][i].turn + Wrap
      PROVE  Same(seen[r][i], replay[i])
  <2>1. /\ seen[r] \in Seq(ChunkType) /\ replay \in Seq(ChunkType) /\ offset[r] \in Nat
        /\ list[r] \in Seq(Slots) /\ Len(list[r]) + offset[r] = Len(seen[r])
        /\ Len(replay) = offset[r]
    BY <1>2, ReplayAssumption DEF Replaying, Progress, Copied
  <2>2. Len(list[r]) \in Nat /\ Len(seen[r]) \in Nat /\ DOMAIN replay = 1 .. offset[r]
        /\ DOMAIN seen[r] = 1 .. Len(seen[r])
    BY <2>1
  <2>3. i \in DOMAIN seen[r]
    BY <1>2, <2>1, <2>2
  <2>4. seen[r][i] \in ChunkType
    BY <2>1, <2>3
  <2>5. Fresh(seen[r][i])
    BY <1>2, <2>4, FreshBefore
  <2> QED BY <1>2, <2>5 DEF Copied
<1> QED BY <1>1, <1>2 DEF Copied, Fresh, Same

---------------------------------------------------------------------------
(* The steps of a replay.                                                  *)

LEMMA GenerateLeaves ==
    ASSUME NEW q \in Replayers, Generate(q)
    PROVE  UNCHANGED <<segmentNumber, handle, closing, stream, file, recent, turn, first>>
  BY DEF Generate, Lists, Truncates, Copies, Ends, Plays, recorder

\* What a replay has in view is listed as it is in the files.
LEMMA ListedIs ==
    ASSUME Recording
    PROVE  /\ Fragments \in Seq(Slots) /\ Len(Fragments) <= Chunks
           /\ [i \in DOMAIN Fragments |-> file[Fragments[i]]] \in Seq(ChunkType)
           /\ Len([i \in DOMAIN Fragments |-> file[Fragments[i]]]) = Len(Fragments)
           /\ \A i \in DOMAIN Fragments : Fragments[i] \in Slots
<1>1. Fragments \in Seq(Slots) /\ Len(Fragments) <= Chunks
  BY FragmentsAre DEF Recording
<1>2. DOMAIN Fragments = 1 .. Len(Fragments) /\ Len(Fragments) \in Nat
      /\ \A i \in DOMAIN Fragments : Fragments[i] \in Slots
  BY <1>1
<1>3. \A i \in 1 .. Len(Fragments) : file[Fragments[i]] \in ChunkType
  BY <1>2 DEF Recording
<1> QED BY <1>1, <1>2, <1>3

\* A copy writes the chunk to its place and leaves the others.
LEMMA CopyIs ==
    ASSUME Recording, Replaying, NEW q \in Replayers, Copies(q)
    PROVE  /\ replay' \in Seq(ChunkType)
           /\ Len(replay) = offset[q] =>
                 /\ Len(replay') = offset[q] + 1
                 /\ replay'[offset[q] + 1] = file[list[q][1]]
                 /\ \A i \in 1 .. offset[q] : replay'[i] = replay[i]
<1> DEFINE n == IF offset[q] + 1 > Len(replay) THEN offset[q] + 1 ELSE Len(replay)
           c(i) == IF i = offset[q] + 1 THEN file[Head(list[q])]
                   ELSE IF i <= Len(replay) THEN replay[i] ELSE NoChunk
<1>1. /\ offset[q] \in Nat /\ replay \in Seq(ChunkType) /\ Len(replay) \in Nat
      /\ list[q] \in Seq(Slots) /\ list[q] # <<>>
  BY ReplayAssumption DEF Replaying, Copies
<1>2. Head(list[q]) = list[q][1] /\ list[q][1] \in Slots
  BY <1>1
<1>3. NoChunk \in ChunkType /\ file[Head(list[q])] \in ChunkType
  BY <1>2, ReplayAssumption DEF NoChunk, ChunkType, Recording
<1>4. replay' = [i \in 1 .. n |-> c(i)]
  BY DEF Copies
<1>5. n \in Nat /\ \A i \in 1 .. n : c(i) \in ChunkType
  BY <1>1, <1>3
<1>6. replay' \in Seq(ChunkType) /\ Len(replay') = n
  BY <1>4, <1>5
<1>7. ASSUME Len(replay) = offset[q]
      PROVE  /\ n = offset[q] + 1
             /\ c(offset[q] + 1) = file[list[q][1]]
             /\ \A i \in 1 .. offset[q] : c(i) = replay[i]
  BY <1>1, <1>2, <1>7
<1> HIDE DEF n, c
<1>8. ASSUME Len(replay) = offset[q]
      PROVE  \A i \in 1 .. offset[q] + 1 : replay'[i] = c(i)
  BY <1>4, <1>7, <1>8
<1>9. ASSUME Len(replay) = offset[q]
      PROVE  offset[q] + 1 \in 1 .. offset[q] + 1 /\ \A i \in 1 .. offset[q] : i \in 1 .. offset[q] + 1
  BY <1>1
<1> QED BY <1>6, <1>7, <1>8, <1>9

LEMMA ReplayingKept ==
    ASSUME Recording, Newest, Replaying, Progress, NEW q \in Replayers, Generate(q),
           Progress'
    PROVE  Replaying'
<1> USE DEF Replaying
<1>1. CASE Lists(q)
  <2>1. \A s \in Slots : file[s].turn \in 0 .. MaxTurns
    BY DEF Recording, ChunkType
  <2>2. ToSet(recent) \subseteq Slots
    BY DEF Recording, ToSet
  <2>3. {file[s].turn : s \in ToSet(recent) \ ToSet(Fragments)} \in SUBSET (0 .. MaxTurns)
    BY <2>1, <2>2
  <2> QED BY <1>1, <2>3, ListedIs DEF Lists
<1>2. CASE Truncates(q)
  <2>1. offset' \in [Replayers -> 0 .. Chunks] /\ clash' \subseteq Replayers
    BY <1>2, ReplayAssumption DEF Truncates
  <2> QED BY <1>2, <2>1 DEF Truncates, observers
<1>3. CASE Copies(q)
  <2>1. list[q] \in Seq(Slots) /\ list[q] # <<>>
    BY <1>3 DEF Copies
  <2>2. list' = [list EXCEPT ![q] = Tail(list[q])] /\ Tail(list[q]) \in Seq(Slots)
    BY <1>3, <2>1 DEF Copies
  <2>3. offset' = [offset EXCEPT ![q] = offset[q] + 1] /\ offset[q] \in Nat
    BY <1>3, ReplayAssumption DEF Copies
  <2>4. offset[q] + 1 <= Chunks
    <3>1. Len(list'[q]) + offset'[q] <= Chunks /\ Len(list'[q]) \in Nat
      BY <2>2 DEF Progress
    <3> QED BY <2>3, <3>1, ReplayAssumption
  <2>5. offset' \in [Replayers -> 0 .. Chunks]
    BY <2>3, <2>4, ReplayAssumption
  <2>6. replay' \in Seq(ChunkType)
    BY <1>3, CopyIs
  <2> QED BY <1>3, <2>2, <2>5, <2>6 DEF Copies, observers
<1>4. CASE Ends(q)
  BY <1>4 DEF Ends, observers
<1>5. CASE Plays(q)
  <2>1. offset' \in [Replayers -> 0 .. Chunks]
    BY <1>5, ReplayAssumption DEF Plays
  <2> QED BY <1>5, <2>1 DEF Plays
<1> QED BY <1>1, <1>2, <1>3, <1>4, <1>5 DEF Generate

\* All replays but q stay as they are.
Others(q) == \A r \in Replayers \ {q} :
    /\ pc'[r] = pc[r] /\ list'[r] = list[r] /\ offset'[r] = offset[r] /\ seen'[r] = seen[r]
    /\ left'[r] = left[r] /\ (r \in calm' <=> r \in calm)

LEMMA OthersStay == ASSUME Replaying, NEW q \in Replayers, Generate(q) PROVE Others(q)
  BY DEF Replaying, Generate, Lists, Truncates, Copies, Ends, Plays, observers, Others

LEMMA ProgressKept ==
    ASSUME Recording, Newest, Replaying, Progress, NEW q \in Replayers, Generate(q)
    PROVE  Progress'
<1> DEFINE P(r) == /\ Len(list[r]) + offset[r] = Len(seen[r]) /\ Len(seen[r]) <= Chunks
                   /\ pc[r] \in {"idle", "done"} => list[r] = <<>>
                   /\ pc[r] \in {"idle", "listed"} => offset[r] = 0
                   /\ pc[r] \in {"listed", "copy"} => seen[r] # <<>>
                   /\ \A i \in DOMAIN seen[r] : seen[r][i].turn <= turn
<1>0. /\ list[q] \in Seq(Slots) /\ offset[q] \in Nat /\ seen[q] \in Seq(ChunkType)
      /\ turn' = turn /\ P(q)
  BY GenerateLeaves, ReplayAssumption DEF Replaying, Progress
<1>1. \A r \in Replayers \ {q} : P(r)'
  <2> SUFFICES ASSUME NEW r \in Replayers \ {q} PROVE P(r)'
    OBVIOUS
  <2>1. P(r)
    BY DEF Progress
  <2>2. /\ pc'[r] = pc[r] /\ list'[r] = list[r] /\ offset'[r] = offset[r] /\ seen'[r] = seen[r]
    BY OthersStay DEF Others
  <2> QED BY <1>0, <2>1, <2>2
<1>2. CASE Lists(q)
  <2> DEFINE sq == [i \in DOMAIN Fragments |-> file[Fragments[i]]]
  <2>1. /\ pc[q] = "idle" /\ list'[q] = Fragments /\ offset'[q] = offset[q] /\ seen'[q] = sq
        /\ pc'[q] = IF Fragments = <<>> THEN "done" ELSE "listed"
    BY <1>2 DEF Lists, Replaying
  <2>2. offset[q] = 0
    BY <1>0, <2>1
  <2>3. /\ Fragments \in Seq(Slots) /\ Len(Fragments) <= Chunks /\ sq \in Seq(ChunkType)
        /\ Len(sq) = Len(Fragments)
    BY ListedIs
  <2>4. \A i \in DOMAIN sq : sq[i].turn <= turn
    BY ListedIs DEF Newest
  <2>5. Fragments # <<>> => sq # <<>>
    BY <2>3
  <2> HIDE DEF sq
  <2>6. Len(list'[q]) + offset'[q] = Len(seen'[q]) /\ Len(seen'[q]) <= Chunks
    BY <2>1, <2>2, <2>3
  <2> QED BY <1>0, <1>1, <2>1, <2>2, <2>4, <2>5, <2>6 DEF Progress
<1>3. CASE Truncates(q)
  <2>1. /\ pc[q] = "listed" /\ pc'[q] = "copy" /\ list'[q] = list[q] /\ offset'[q] = 0
        /\ seen'[q] = seen[q]
    BY <1>3 DEF Truncates, Replaying, observers
  <2>2. offset[q] = 0
    BY <1>0, <2>1
  <2> QED BY <1>0, <1>1, <2>1, <2>2 DEF Progress
<1>4. CASE Copies(q)
  <2>1. /\ pc[q] = "copy" /\ pc'[q] = pc[q] /\ list[q] # <<>> /\ list'[q] = Tail(list[q])
        /\ offset'[q] = offset[q] + 1 /\ seen'[q] = seen[q]
    BY <1>4 DEF Copies, Replaying, observers
  <2>2. Len(Tail(list[q])) = Len(list[q]) - 1 /\ Len(list[q]) \in Nat
    BY <1>0, <2>1
  <2>3. Len(list'[q]) + offset'[q] = Len(list[q]) + offset[q]
    BY <1>0, <2>1, <2>2
  <2> QED BY <1>0, <1>1, <2>1, <2>3 DEF Progress
<1>5. CASE Ends(q)
  <2>1. /\ pc'[q] = "done" /\ list[q] = <<>>
        /\ list'[q] = list[q] /\ offset'[q] = offset[q] /\ seen'[q] = seen[q]
    BY <1>5 DEF Ends, Replaying, observers
  <2> QED BY <1>0, <1>1, <2>1 DEF Progress
<1>6. CASE Plays(q)
  <2>1. /\ pc[q] = "done" /\ pc'[q] = "idle" /\ list'[q] = list[q] /\ offset'[q] = 0
        /\ seen'[q] = <<>>
    BY <1>6 DEF Plays, Replaying
  <2>2. list[q] = <<>>
    BY <1>0, <2>1
  <2> QED BY <1>0, <1>1, <2>1, <2>2, ReplayAssumption DEF Progress
<1> QED BY <1>2, <1>3, <1>4, <1>5, <1>6 DEF Generate

LEMMA WaitingKept ==
    ASSUME Recording, Replaying, Progress, Waiting, NEW q \in Replayers, Generate(q)
    PROVE  Waiting'
<1> DEFINE W(r) == \A i \in DOMAIN list[r] :
              Fresh(seen[r][offset[r] + i]) => Same(seen[r][offset[r] + i], file[list[r][i]])
<1>0. /\ list[q] \in Seq(Slots) /\ offset[q] \in Nat /\ W(q)
      /\ UNCHANGED <<file, turn, first>>
  BY GenerateLeaves, ReplayAssumption DEF Replaying, Waiting
<1>1. \A r \in Replayers \ {q} : W(r)'
  <2> SUFFICES ASSUME NEW r \in Replayers \ {q} PROVE W(r)'
    OBVIOUS
  <2>1. W(r)
    BY DEF Waiting
  <2>2. list'[r] = list[r] /\ offset'[r] = offset[r] /\ seen'[r] = seen[r]
    BY OthersStay DEF Others
  <2> QED BY <1>0, <2>1, <2>2 DEF Fresh, Same
<1>2. CASE Lists(q)
  <2>1. /\ pc[q] = "idle" /\ list'[q] = Fragments /\ offset'[q] = offset[q]
        /\ seen'[q] = [i \in DOMAIN Fragments |-> file[Fragments[i]]]
    BY <1>2 DEF Lists, Replaying
  <2>2. offset[q] = 0
    BY <2>1 DEF Progress
  <2>3. \A i \in DOMAIN Fragments : i \in Nat /\ 0 + i = i
    BY ListedIs
  <2>4. \A i \in DOMAIN list'[q] : seen'[q][offset'[q] + i] = file[list'[q][i]]
    BY <2>1, <2>2, <2>3
  <2>5. W(q)'
    BY <1>0, <2>4 DEF Same
  <2> QED BY <1>1, <2>5 DEF Waiting
<1>3. CASE Truncates(q)
  <2>1. pc[q] = "listed" /\ list' = list /\ seen' = seen /\ offset'[q] = 0
    BY <1>3 DEF Truncates, Replaying, observers
  <2>2. offset[q] = 0
    BY <2>1 DEF Progress
  <2>3. W(q)'
    BY <1>0, <2>1, <2>2 DEF Fresh, Same
  <2> QED BY <1>1, <2>3 DEF Waiting
<1>4. CASE Copies(q)
  <2>1. /\ list[q] # <<>> /\ list'[q] = Tail(list[q]) /\ offset'[q] = offset[q] + 1
        /\ seen' = seen
    BY <1>4 DEF Copies, Replaying, observers
  <2>2. \A i \in DOMAIN list'[q] :
           /\ i + 1 \in DOMAIN list[q] /\ list'[q][i] = list[q][i + 1]
           /\ offset'[q] + i = offset[q] + (i + 1)
    <3>1. \A i \in DOMAIN Tail(list[q]) :
             i \in Nat /\ i + 1 \in DOMAIN list[q] /\ Tail(list[q])[i] = list[q][i + 1]
      BY <1>0, <2>1
    <3>2. \A i \in Nat : (offset[q] + 1) + i = offset[q] + (i + 1)
      BY <1>0
    <3> QED BY <2>1, <3>1, <3>2
  <2>3. W(q)'
    <3> SUFFICES ASSUME NEW i \in DOMAIN list'[q], Fresh(seen[q][offset[q] + (i + 1)])
                 PROVE  Same(seen[q][offset[q] + (i + 1)], file[list[q][i + 1]])
      BY <1>0, <2>1, <2>2 DEF Fresh, Same
    <3> QED BY <1>0, <2>2
  <2> QED BY <1>1, <2>3 DEF Waiting
<1>5. CASE Ends(q)
  <2>1. UNCHANGED <<list, offset, seen>>
    BY <1>5 DEF Ends, observers
  <2> QED BY <1>0, <1>1, <2>1 DEF Waiting, Fresh, Same
<1>6. CASE Plays(q)
  <2>1. pc[q] = "done" /\ list' = list
    BY <1>6 DEF Plays
  <2>2. list'[q] = <<>>
    BY <2>1 DEF Progress
  <2>3. W(q)'
    BY <2>2
  <2> QED BY <1>1, <2>3 DEF Waiting
<1> QED BY <1>2, <1>3, <1>4, <1>5, <1>6 DEF Generate

\* Only who is alone at the replay file is held to what was seen.
CopiedBy(r) ==
    /\ \A q \in Replayers \ {r} : pc[q] # "copy"
    /\ Len(replay) = offset[r]
    /\ \A i \in DOMAIN replay : Fresh(seen[r][i]) => Same(seen[r][i], replay[i])

LEMMA CopiedKept ==
    ASSUME Recording, Replaying, Progress, Waiting, Copied, NEW q \in Replayers, Generate(q)
    PROVE  Copied'
<1>0. UNCHANGED <<file, turn, first>>
  BY GenerateLeaves
<1> SUFFICES ASSUME NEW r \in Replayers, r \notin clash', pc'[r] \in {"copy", "done"},
                    seen'[r] # <<>>
             PROVE  CopiedBy(r)'
  BY DEF Copied, CopiedBy
<1>1. r \notin clash /\ pc[r] \in {"copy", "done"} /\ seen[r] # <<>> => CopiedBy(r)
  BY DEF Copied, CopiedBy
<1>2. r # q => pc'[r] = pc[r] /\ offset'[r] = offset[r] /\ seen'[r] = seen[r]
  BY OthersStay DEF Others
<1>3. \A p \in Replayers \ {q} : pc'[p] = pc[p]
  BY OthersStay DEF Others
<1>4. CASE Lists(q)
  <2>1. /\ UNCHANGED <<replay, clash>> /\ seen'[q] = [i \in DOMAIN Fragments |-> file[Fragments[i]]]
        /\ pc'[q] = IF Fragments = <<>> THEN "done" ELSE "listed"
    BY <1>4 DEF Lists, Replaying
  <2>2. Fragments = <<>> => seen'[q] = <<>>
    BY <2>1
  <2>3. r # q
    BY <2>1, <2>2
  <2> QED BY <1>0, <1>1, <1>2, <1>3, <2>1, <2>3 DEF CopiedBy, Fresh, Same
<1>5. CASE Truncates(q)
  <2> DEFINE others == {p \in Replayers : pc[p] \in {"copy", "done"}}
  <2>1. /\ pc[q] = "listed" /\ pc'[q] = "copy" /\ replay' = <<>> /\ offset'[q] = 0
        /\ clash' = IF others = {} THEN clash \ {q} ELSE clash \cup others \cup {q}
    BY <1>5 DEF Truncates, Replaying
  <2>2. r = q
    BY <1>2, <2>1
  <2>3. others = {}
    BY <2>1, <2>2
  <2> QED BY <1>3, <2>1, <2>2, <2>3 DEF CopiedBy
<1>6. CASE Copies(q)
  <2>1. /\ pc[q] = "copy" /\ UNCHANGED <<pc, seen, clash>> /\ list[q] # <<>>
        /\ offset'[q] = offset[q] + 1
    BY <1>6 DEF Copies, Replaying, observers
  <2>2. CopiedBy(r)
    BY <1>1, <2>1
  <2>3. r = q
    BY <2>1, <2>2 DEF CopiedBy
  <2>4. /\ Len(replay) = offset[q] /\ offset[q] \in Nat
        /\ Len(replay') = offset[q] + 1 /\ replay' \in Seq(ChunkType)
        /\ replay'[offset[q] + 1] = file[list[q][1]]
        /\ \A i \in 1 .. offset[q] : replay'[i] = replay[i]
    BY <1>6, <2>2, <2>3, CopyIs, ReplayAssumption DEF CopiedBy, Replaying
  <2>5. DOMAIN replay' = 1 .. offset[q] + 1 /\ DOMAIN replay = 1 .. offset[q]
    BY <2>4 DEF Replaying
  <2>6. 1 \in DOMAIN list[q]
    BY <2>1 DEF Replaying
  <2>7. ASSUME NEW i \in DOMAIN replay', Fresh(seen[q][i]) PROVE Same(seen[q][i], replay'[i])
    <3>1. CASE i \in 1 .. offset[q]
      BY <2>2, <2>3, <2>4, <2>5, <2>7, <3>1 DEF CopiedBy
    <3>2. CASE i = offset[q] + 1
      BY <2>4, <2>6, <2>7, <3>2 DEF Waiting
    <3> QED BY <2>4, <2>5, <2>7, <3>1, <3>2
  <2> QED BY <1>0, <2>1, <2>2, <2>3, <2>4, <2>7 DEF CopiedBy, Fresh, Same
<1>7. CASE Ends(q)
  <2>1. /\ UNCHANGED <<offset, replay, seen, clash>> /\ pc[q] = "copy" /\ pc'[q] = "done"
    BY <1>7 DEF Ends, Replaying, observers
  <2>2. CopiedBy(r)
    BY <1>1, <1>2, <2>1
  <2> QED BY <1>0, <1>3, <2>1, <2>2 DEF CopiedBy, Fresh, Same
<1>8. CASE Plays(q)
  <2>1. pc'[q] = "idle" /\ replay' = replay /\ clash' = clash \ {q}
    BY <1>8 DEF Plays, Replaying
  <2>2. r # q
    BY <2>1
  <2>3. CopiedBy(r)
    BY <1>1, <1>2, <2>1, <2>2
  <2> QED BY <1>0, <1>2, <1>3, <2>1, <2>2, <2>3 DEF CopiedBy, Fresh, Same
<1> QED BY <1>4, <1>5, <1>6, <1>7, <1>8 DEF Generate

LEMMA ListsTheLatestKept ==
    ASSUME Recording, Newest, Complete, InOrder, Replaying, ListsTheLatest,
           NEW q \in Replayers, Generate(q)
    PROVE  ListsTheLatest'
<1> SUFFICES ASSUME NEW r \in calm', pc'[r] = "listed" PROVE Latest(seen'[r], left'[r])
  BY DEF ListsTheLatest, Latest
<1>0. r \in calm /\ pc[r] = "listed" => Latest(seen[r], left[r])
  BY DEF ListsTheLatest, Latest
<1>1. r \in Replayers
  BY DEF Generate, Lists, Truncates, Copies, Ends, Plays, Replaying, observers
<1>2. CASE r # q
  <2>0. Others(q)
    BY OthersStay
  <2>1. /\ pc'[r] = pc[r] /\ seen'[r] = seen[r] /\ left'[r] = left[r]
        /\ (r \in calm' <=> r \in calm)
    BY <1>1, <1>2, <2>0 DEF Others
  <2> QED BY <1>0, <2>1
<1>3. CASE r = q
  <2>1. CASE Lists(q)
    <3>1. /\ seen'[q] = [i \in DOMAIN Fragments |-> file[Fragments[i]]]
          /\ left'[q] = {file[s].turn : s \in ToSet(recent) \ ToSet(Fragments)}
          /\ pc'[q] = IF Fragments = <<>> THEN "done" ELSE "listed"
          /\ calm' = IF Settled THEN calm \cup {q} ELSE calm \ {q}
      BY <2>1 DEF Lists, Replaying
    <3>2. Settled /\ Fragments # <<>>
      BY <1>3, <3>1
    <3> QED BY <1>3, <3>1, <3>2, Listing
  <2>2. CASE ~Lists(q)
    <3>1. pc'[q] # "listed"
      BY <2>2 DEF Generate, Truncates, Copies, Ends, Plays, Replaying
    <3> QED BY <1>3, <3>1
  <2> QED BY <2>1, <2>2
<1> QED BY <1>2, <1>3

---------------------------------------------------------------------------
(* The theorems about the recording.                                       *)

LEMMA ReplayInit == Init => RInv
<1> SUFFICES ASSUME Init PROVE RInv
  OBVIOUS
<1> USE SlotsAre, ReplayAssumption DEF Init
<1>1. Recording
  <2>1. NoChunk \in ChunkType
    BY DEF NoChunk, ChunkType
  <2>2. file \in [Slots -> ChunkType] /\ segmentNumber \in Slots
    BY <2>1
  <2>3. recent \in Seq(Slots) /\ IsInjective(recent)
    BY DEF IsInjective
  <2> QED BY <2>2, <2>3 DEF Recording
<1>2. Replaying
  BY DEF Replaying
<1>3. Newest
  <2>1. \A s \in Slots : file[s].turn = 0
    BY DEF NoChunk
  <2>2. ToSet(recent) = {}
    BY DEF ToSet
  <2> QED BY <2>1, <2>2 DEF Newest
<1>4. Complete /\ InOrder
  BY DEF Complete, InOrder
<1>5. Round
  BY DEF Round, NoChunk
<1>6. Progress
  BY DEF Progress
<1>7. Waiting /\ Copied
  BY DEF Waiting, Copied
<1>8. ListsTheLatest
  BY DEF ListsTheLatest
<1> QED BY <1>1, <1>2, <1>3, <1>4, <1>5, <1>6, <1>7, <1>8, Types DEF RInv

LEMMA ReplayNext == RInv /\ [Next]_vars => RInv'
<1> SUFFICES ASSUME RInv, [Next]_vars PROVE RInv'
  OBVIOUS
<1>0. /\ Recording /\ Replaying /\ Newest /\ Complete /\ Round /\ InOrder
      /\ Progress /\ Waiting /\ Copied /\ ListsTheLatest
  BY Types DEF RInv
<1>1. CASE Record
  <2>1. Recording' /\ Newest' /\ Complete' /\ Round' /\ InOrder'
    BY <1>0, <1>1, RecordingKept, NewestKept, CompleteKept, RoundKept, InOrderKept
  <2>2. Replaying'
    BY <1>0, <1>1, RecordLeaves DEF Replaying
  <2>3. Progress' /\ Waiting' /\ Copied'
    BY <1>0, <1>1, ProgressInRecord, WaitingInRecord, CopiedInRecord
  <2>4. ListsTheLatest'
    BY <1>0, <1>1, RecordLeaves DEF ListsTheLatest
  <2>5. TypeOK'
    BY <2>1, <2>2 DEF TypeOK, Recording, Replaying
  <2> QED BY <2>1, <2>3, <2>4, <2>5 DEF RInv
<1>2. ASSUME NEW q \in Replayers, Generate(q) PROVE RInv'
  <2>1. UNCHANGED <<segmentNumber, handle, closing, stream, file, recent, turn, first>>
    BY <1>2, GenerateLeaves
  <2>2. Recording' /\ Newest' /\ Complete' /\ Round' /\ InOrder'
    BY <1>0, <2>1 DEF Recording, Newest, Complete, Round, Distance, InOrder, Loose
  <2>3. Progress'
    BY <1>0, <1>2, ProgressKept
  <2>4. Replaying'
    BY <1>0, <1>2, <2>3, ReplayingKept
  <2>5. Waiting' /\ Copied' /\ ListsTheLatest'
    BY <1>0, <1>2, WaitingKept, CopiedKept, ListsTheLatestKept
  <2>6. TypeOK'
    BY <2>2, <2>4 DEF TypeOK, Recording, Replaying
  <2> QED BY <2>2, <2>3, <2>5, <2>6 DEF RInv
<1>3. CASE UNCHANGED vars
  <2>1. UNCHANGED <<segmentNumber, handle, closing, stream, file, recent, turn, first>>
    BY <1>3 DEF vars
  <2>2. UNCHANGED <<pc, list, offset, replay, seen, calm, left, clash>>
    BY <1>3 DEF vars
  <2>3. Recording' /\ Newest' /\ Complete' /\ Round' /\ InOrder'
    BY <1>0, <2>1 DEF Recording, Newest, Complete, Round, Distance, InOrder, Loose
  <2>4. Replaying' /\ Progress'
    BY <1>0, <2>1, <2>2 DEF Replaying, Progress
  <2>5. Waiting'
    BY <1>0, <2>1, <2>2 DEF Waiting, Fresh, Same
  <2>6. Copied'
    BY <1>0, <2>1, <2>2 DEF Copied, Fresh, Same
  <2>7. ListsTheLatest'
    BY <1>0, <2>2 DEF ListsTheLatest
  <2>8. TypeOK'
    BY <2>3, <2>4 DEF TypeOK, Recording, Replaying
  <2> QED BY <2>3, <2>4, <2>5, <2>6, <2>7, <2>8 DEF RInv
<1> QED BY <1>1, <1>2, <1>3 DEF Next

LEMMA ReplayInvariant == Spec => []RInv
  BY ReplayInit, ReplayNext, PTL DEF Spec

\* Every variable of the recorder and of the script keeps its type: the segment
\* count stays within the files, and no copy goes beyond replay_chunks.
THEOREM RecordingTypes == Spec => []TypeOK
<1>1. RInv => TypeOK
  BY DEF RInv
<1> QED BY <1>1, ReplayInvariant, PTL

\* generate-replay.sh lists the latest complete segments but those it ignores,
\* in the order of recording, whenever it runs between two segments and does
\* not reach back behind the tracker's start, though the files' order of
\* modification is for moments not that of recording.
THEOREM ListingIsLatest == Spec => []ListsTheLatest
<1>1. RInv => ListsTheLatest
  BY DEF RInv
<1> QED BY <1>1, ReplayInvariant, PTL

\* What cat copies is what ls listed, segment by segment, as long as the
\* recording has not come round to it and no other replay wrote the file.
THEOREM CopyIsListing == Spec => []CopiesWhatItListed
<1>1. RInv => CopiesWhatItListed
  <2> SUFFICES ASSUME RInv, NEW r \in Replayers \ clash, pc[r] = "done", seen[r] # <<>>,
                      \A i \in DOMAIN seen[r] :
                          first <= seen[r][i].turn /\ turn - seen[r][i].turn < Wrap
               PROVE  /\ Len(replay) = Len(seen[r])
                      /\ \A i \in DOMAIN replay :
                           /\ replay[i].turn = seen[r][i].turn
                           /\ seen[r][i].whole => replay[i].whole
    BY DEF CopiesWhatItListed
  <2>1. /\ Recording /\ Replaying /\ Progress /\ CopiedBy(r)
    BY Types DEF RInv, Copied, CopiedBy
  <2>2. /\ list[r] = <<>> /\ Len(list[r]) + offset[r] = Len(seen[r])
        /\ Len(replay) = offset[r] /\ offset[r] \in Nat
    BY <2>1, ReplayAssumption DEF Progress, CopiedBy, Replaying
  <2>3. Len(replay) = Len(seen[r])
    BY <2>2
  <2>4. DOMAIN replay = DOMAIN seen[r] /\ seen[r] \in Seq(ChunkType)
    BY <2>1, <2>3 DEF Replaying
  <2>5. ASSUME NEW i \in DOMAIN replay PROVE Fresh(seen[r][i])
    <3>1. seen[r][i] \in ChunkType /\ i \in DOMAIN seen[r]
      BY <2>4
    <3>2. seen[r][i].turn \in Nat /\ turn \in Nat
      BY <2>1, <3>1, Turns DEF ChunkType
    <3> QED BY <3>1, <3>2, SlotsAre DEF Fresh
  <2> QED BY <2>1, <2>3, <2>5 DEF CopiedBy, Same
<1> QED BY <1>1, ReplayInvariant, PTL
=============================================================================
