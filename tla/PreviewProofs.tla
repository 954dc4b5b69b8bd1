--------------------------- MODULE PreviewProofs ---------------------------
(***************************************************************************)
(* For every pool of buffers: no buffer of the preview is ever in two      *)
(* places, the frame on the screen is never given back to the camera, none *)
(* is lost before the preview is stopped, whatever touches destroyed       *)
(* memory does so in the teardown and for a known cause, and the pipeline  *)
(* implements the round of buffers of BufferCycle.                         *)
(***************************************************************************)
EXTENDS PreviewPipeline, TLAPS, SequenceTheorems

---------------------------------------------------------------------------
(* Queues without repetition.                                              *)

\* Appending a buffer that is not in the queue.
LEMMA AppendNew ==
    ASSUME NEW q \in Seq(Buffers), NoRepeat(q), NEW b \in Buffers, b \notin Elements(q)
    PROVE  /\ Append(q, b) \in Seq(Buffers)
           /\ Elements(Append(q, b)) = Elements(q) \cup {b}
           /\ NoRepeat(Append(q, b))
<1> DEFINE r == Append(q, b)
<1>1. /\ r \in Seq(Buffers) /\ Len(r) = Len(q) + 1 /\ Len(q) \in Nat
      /\ \A i \in 1 .. Len(q) : r[i] = q[i]
      /\ r[Len(q) + 1] = b
  OBVIOUS
<1>2. DOMAIN q = 1 .. Len(q) /\ DOMAIN r = 1 .. Len(q) + 1
  BY <1>1
<1>3. \A i \in DOMAIN r : (i \in DOMAIN q /\ r[i] = q[i]) \/ (i = Len(q) + 1 /\ r[i] = b)
  BY <1>1, <1>2
<1>4. DOMAIN q \subseteq DOMAIN r /\ Len(q) + 1 \in DOMAIN r
  BY <1>1, <1>2
<1>5. Elements(r) = Elements(q) \cup {b}
  BY <1>1, <1>2, <1>3, <1>4 DEF Elements
<1>6. NoRepeat(r)
  BY <1>3 DEF NoRepeat, Elements
<1> QED BY <1>1, <1>5, <1>6

\* Taking the head of a queue.
LEMMA TakeHead ==
    ASSUME NEW q \in Seq(Buffers), NoRepeat(q), q # <<>>
    PROVE  /\ Head(q) \in Buffers /\ Head(q) \in Elements(q)
           /\ Tail(q) \in Seq(Buffers)
           /\ Elements(Tail(q)) = Elements(q) \ {Head(q)}
           /\ NoRepeat(Tail(q))
<1> DEFINE t == Tail(q)
<1>1. /\ t \in Seq(Buffers) /\ Len(q) \in Nat /\ Len(q) >= 1 /\ Len(t) = Len(q) - 1
      /\ Head(q) = q[1] /\ Head(q) \in Buffers
      /\ \A i \in 1 .. Len(t) : t[i] = q[i + 1]
  OBVIOUS
<1>2. DOMAIN q = 1 .. Len(q) /\ DOMAIN t = 1 .. Len(q) - 1
  BY <1>1
<1>3. Head(q) \in Elements(q)
  BY <1>1, <1>2 DEF Elements
<1>4. \A i \in DOMAIN t : i + 1 \in DOMAIN q /\ i + 1 # 1 /\ t[i] = q[i + 1]
  BY <1>1, <1>2
<1>5. \A k \in DOMAIN q : k = 1 \/ (k - 1 \in DOMAIN t /\ t[k - 1] = q[k])
  BY <1>1, <1>2
<1>6. 1 \in DOMAIN q
  BY <1>1, <1>2
<1>7. Elements(t) \subseteq Elements(q) \ {Head(q)}
  BY <1>1, <1>4, <1>6 DEF Elements, NoRepeat
<1>8. Elements(q) \ {Head(q)} \subseteq Elements(t)
  BY <1>1, <1>5 DEF Elements
<1>9. NoRepeat(t)
  BY <1>2, <1>4 DEF NoRepeat
<1> QED BY <1>1, <1>3, <1>7, <1>8, <1>9

\* The empty queue.
LEMMA EmptyQueue == Elements(<<>>) = {} /\ NoRepeat(<<>>)
BY DEF Elements, NoRepeat

---------------------------------------------------------------------------
(* The inductive invariant.                                                *)

\* The worker holds a buffer just where its code does, and the texture shows
\* the frame last bound, or the one about to be.
WorkerHolds ==
    /\ hand # None <=> wpc \in {"sending", "got", "swap"}
    /\ wpc = "swap" => texture = hand
    /\ wpc # "swap" => texture \in {bound, None}

\* What main has taken down is a matter of how far it has come.
MainProgress ==
    /\ poolAlive <=> mpc \in {"setup", "running", "stop", "join", "destroy"}
    /\ queueAlive <=> poolAlive \/ mpc = "destroyQueue"
    /\ portOpen <=> mpc \notin {"closed", "exit"}

\* Who stopped the preview, and where that leaves the worker.
WhoStopped ==
    /\ mpc \notin {"setup", "running", "stop"} => stop
    /\ eosSeen => stop
    /\ stop /\ ~eosSeen => mpc \notin {"setup", "running", "stop"}
    /\ mpc = "setup" => wpc = "none"
    /\ mpc \notin {"setup", "running", "stop", "join"} /\ ~eosSeen
           => wpc \in {"none", "done"}

Causes == FaultsHaveTheirCause /\ ("join" \in fault => mpc # "setup")

Inv == /\ TypeOK
       /\ OnePlace
       /\ WorkerHolds
       /\ MainProgress
       /\ WhoStopped
       /\ NoneLostBeforeStop
       /\ Causes

\* The pool full and nothing under way: the invariant holds at first.
LEMMA InitInv == Init => Inv
<1> SUFFICES ASSUME Init PROVE Inv
  OBVIOUS
<1> USE BuffersAssumption DEF Init
<1>1. TypeOK
  <2>1. queue \in Seq(Buffers)
    OBVIOUS
  <2>2. cb \in [buf : Buffers, todo : Todo] \cup {Idle}
    OBVIOUS
  <2>3. wpc \in WorkerPlaces /\ mpc \in MainPlaces /\ odd \in 0 .. MaxOdd
    BY DEF WorkerPlaces, MainPlaces
  <2> QED BY <2>1, <2>2, <2>3 DEF TypeOK, MaybeBuffer
<1>2. OnePlace
  BY EmptyQueue DEF OnePlace, Count, Idle
<1>3. WorkerHolds /\ MainProgress /\ WhoStopped /\ NoneLostBeforeStop /\ Causes
  BY DEF WorkerHolds, MainProgress, WhoStopped, NoneLostBeforeStop, Causes,
         FaultsHaveTheirCause
<1> QED BY <1>1, <1>2, <1>3 DEF Inv

---------------------------------------------------------------------------
(* The worker's steps.                                                     *)

\* The worker takes nothing down, drops a buffer only once stopped, and meets
\* a fault only as the causes allow.
LEMMA WorkerControl ==
    ASSUME Inv, Worker
    PROVE  MainProgress' /\ WhoStopped' /\ NoneLostBeforeStop' /\ Causes'
<1> USE DEF Inv, MainProgress, WhoStopped, NoneLostBeforeStop, Causes,
            FaultsHaveTheirCause, TypeOK, teardown, buffers, WorkerAt, Touch, Release
<1>1. CASE WorkerInit
  BY <1>1 DEF WorkerInit
<1>2. CASE WorkerTestsStop
  BY <1>2 DEF WorkerTestsStop
<1>3. CASE WorkerTakesFree
  BY <1>3 DEF WorkerTakesFree
<1>4. CASE WorkerSends
  BY <1>4 DEF WorkerSends
<1>5. CASE WorkerTakesFrame
  BY <1>5 DEF WorkerTakesFrame
<1>6. CASE WorkerMapsFrame
  BY <1>6 DEF WorkerMapsFrame
<1>7. CASE WorkerSwaps
  BY <1>7 DEF WorkerSwaps
<1>8. CASE WorkerRedraws
  BY <1>8 DEF WorkerRedraws
<1>9. CASE WorkerDrains
  BY <1>9 DEF WorkerDrains
<1>10. CASE WorkerTerminates
  BY <1>10 DEF WorkerTerminates
<1>11. CASE WorkerUsesDestroyed
  BY <1>11 DEF WorkerUsesDestroyed
<1> QED BY <1>1, <1>2, <1>3, <1>4, <1>5, <1>6, <1>7, <1>8, <1>9, <1>10, <1>11 DEF Worker

\* Each of the worker's steps moves a buffer from one place to one other.
LEMMA WorkerBuffers ==
    ASSUME Inv, Worker
    PROVE  TypeOK' /\ OnePlace' /\ WorkerHolds'
<1> USE BuffersAssumption
    DEF Inv, TypeOK, OnePlace, WorkerHolds, MainProgress, MaybeBuffer, Count,
        WorkerPlaces, teardown, buffers, WorkerAt, Touch, Release
<1>1. CASE WorkerInit
  BY <1>1 DEF WorkerInit
<1>2. CASE WorkerTestsStop
  BY <1>2 DEF WorkerTestsStop
<1>3. CASE WorkerTakesFree
  BY <1>3 DEF WorkerTakesFree
<1>4. CASE WorkerSends
  BY <1>4 DEF WorkerSends
<1>5. CASE WorkerTakesFrame
  <2>1. CASE wpc' = "loop"
    BY <1>5, <2>1 DEF WorkerTakesFrame
  <2>2. CASE queue # <<>> /\ wpc' # "loop"
    <3>1. /\ Head(queue) \in Buffers /\ Head(queue) \in Elements(queue)
          /\ Tail(queue) \in Seq(Buffers)
          /\ Elements(Tail(queue)) = Elements(queue) \ {Head(queue)}
          /\ NoRepeat(Tail(queue))
      BY <2>2, TakeHead
    <3>2. /\ wpc = "process" /\ wpc' = "got" /\ hand' = Head(queue)
          /\ queue' = Tail(queue)
          /\ UNCHANGED <<pool, port, cb, bound, texture, lost, teardown, stop, odd,
                         eosSeen, fault>>
      BY <1>5, <2>2 DEF WorkerTakesFrame
    <3>3. hand = None
      BY <3>2
    <3> QED BY <3>1, <3>2, <3>3
  <2> QED BY <1>5, <2>1, <2>2 DEF WorkerTakesFrame
<1>6. CASE WorkerMapsFrame
  BY <1>6 DEF WorkerMapsFrame
<1>7. CASE WorkerSwaps
  BY <1>7 DEF WorkerSwaps
<1>8. CASE WorkerRedraws
  BY <1>8 DEF WorkerRedraws
<1>9. CASE WorkerDrains
  <2>1. CASE wpc' = "term"
    <3>1. /\ wpc = "drain"
          /\ UNCHANGED <<pool, port, cb, queue, hand, bound, texture, lost, teardown, stop,
                         odd, eosSeen, fault>>
      BY <1>9, <2>1 DEF WorkerDrains
    <3> QED BY <2>1, <3>1
  <2>2. CASE queue # <<>> /\ wpc' # "term"
    <3>1. /\ Head(queue) \in Buffers /\ Head(queue) \in Elements(queue)
          /\ Tail(queue) \in Seq(Buffers)
          /\ Elements(Tail(queue)) = Elements(queue) \ {Head(queue)}
          /\ NoRepeat(Tail(queue))
      BY <2>2, TakeHead
    <3>2. /\ wpc = "drain" /\ wpc' = "drain" /\ queue' = Tail(queue)
          /\ \/ pool' = pool \cup {Head(queue)} /\ lost' = lost
             \/ lost' = lost \cup {Head(queue)} /\ pool' = pool
          /\ fault' \subseteq fault \cup {"worker"}
          /\ UNCHANGED <<port, cb, hand, bound, texture, teardown, stop, odd, eosSeen>>
      BY <1>9, <2>2 DEF WorkerDrains
    <3> QED BY <3>1, <3>2
  <2> QED BY <1>9, <2>1, <2>2 DEF WorkerDrains
<1>10. CASE WorkerTerminates
  BY <1>10 DEF WorkerTerminates
<1>11. CASE WorkerUsesDestroyed
  BY <1>11 DEF WorkerUsesDestroyed
<1> QED BY <1>1, <1>2, <1>3, <1>4, <1>5, <1>6, <1>7, <1>8, <1>9, <1>10, <1>11 DEF Worker

---------------------------------------------------------------------------
(* The steps of the camera, of the callback and of main.                   *)

\* The port hands over one of its buffers to the callback.
LEMMA CameraInv == ASSUME Inv, CameraReturns PROVE Inv'
<1> USE BuffersAssumption DEF Inv, TypeOK, MainProgress, teardown, Touch, CameraReturns
<1>1. TypeOK'
  BY DEF MaybeBuffer, Todo
<1>2. OnePlace'
  <2>1. PICK b \in port, todo \in Todo :
          /\ port' = port \ {b} /\ cb' = [buf |-> b, todo |-> todo] /\ cb = Idle
          /\ UNCHANGED <<pool, queue, hand, bound, lost>>
    OBVIOUS
  <2>2. b \in Buffers /\ cb.buf = None /\ cb'.buf = b
    BY <2>1 DEF Idle
  <2> QED BY <2>1, <2>2 DEF OnePlace, Count
<1>3. WorkerHolds' /\ MainProgress' /\ WhoStopped' /\ NoneLostBeforeStop'
  BY DEF WorkerHolds, WhoStopped, NoneLostBeforeStop
<1>4. Causes'
  BY DEF Causes, FaultsHaveTheirCause, WhoStopped
<1> QED BY <1>1, <1>2, <1>3, <1>4

\* The callback moves its buffer to the queue or back to the pool.
LEMMA CallbackInv == ASSUME Inv, Callback PROVE Inv'
<1> USE BuffersAssumption DEF Inv, MainProgress, WhoStopped, NoneLostBeforeStop,
                              Causes, FaultsHaveTheirCause, WorkerHolds, teardown
<1>0. cb.todo \in Todo => /\ cb.buf \in Buffers
                          /\ cb \in [buf : Buffers, todo : Todo]
  BY DEF TypeOK, Idle, Todo
<1>i. Idle.buf = None /\ Idle.todo \notin Todo
  BY DEF Idle, Todo
<1>1. CASE CallbackQueues
  <2>1. /\ cb.buf \in Buffers /\ cb.buf \notin Elements(queue) /\ cb' = Idle
        /\ UNCHANGED <<pool, port, hand, bound, texture, teardown, stop, wpc, odd,
                       eosSeen>>
    BY <1>0, <1>1 DEF CallbackQueues, Todo, TypeOK, OnePlace, Count
  <2>2. CASE queueAlive
    <3>1. /\ queue' = Append(queue, cb.buf) /\ UNCHANGED <<lost, fault>>
      BY <1>1, <2>2 DEF CallbackQueues
    <3>2. /\ queue' \in Seq(Buffers) /\ NoRepeat(queue')
          /\ Elements(queue') = Elements(queue) \cup {cb.buf}
      BY <2>1, <3>1, AppendNew DEF TypeOK, OnePlace
    <3>3. TypeOK'
      BY <2>1, <3>1, <3>2 DEF TypeOK
    <3>4. OnePlace'
      BY <2>1, <3>1, <3>2, <1>i DEF OnePlace, Count
    <3> QED BY <2>1, <3>1, <3>3, <3>4
  <2>3. CASE ~queueAlive
    <3>1. /\ queue' = queue /\ lost' = lost \cup {cb.buf}
          /\ fault' \in {fault, fault \cup {"callback"}}
      BY <1>1, <2>3 DEF CallbackQueues
    <3>2. TypeOK'
      BY <2>1, <3>1 DEF TypeOK
    <3>3. OnePlace'
      BY <2>1, <3>1, <1>i DEF OnePlace, Count
    <3> QED BY <2>1, <2>3, <3>1, <3>2, <3>3
  <2> QED BY <2>2, <2>3
<1>2. CASE CallbackEndsStream
  <2>1. /\ cb \in [buf : Buffers, todo : Todo]
        /\ cb' = [cb EXCEPT !.todo = "release"]
        /\ stop' = TRUE /\ eosSeen' = TRUE
        /\ UNCHANGED <<pool, port, queue, hand, bound, texture, lost, teardown, wpc,
                       odd, fault>>
    BY <1>0, <1>2 DEF CallbackEndsStream, Todo
  <2>2. cb' \in [buf : Buffers, todo : Todo] /\ cb'.buf = cb.buf
    BY <2>1 DEF Todo
  <2>3. TypeOK'
    BY <2>1, <2>2 DEF TypeOK
  <2>4. OnePlace'
    BY <2>1, <2>2 DEF OnePlace, Count
  <2> QED BY <2>1, <2>3, <2>4
<1>3. CASE CallbackReleases
  <2>1. /\ cb.buf \in Buffers /\ cb' = Idle
        /\ \/ pool' = pool \cup {cb.buf} /\ lost' = lost
           \/ ~poolAlive /\ lost' = lost \cup {cb.buf} /\ pool' = pool
        /\ fault' = IF poolAlive THEN fault ELSE fault \cup {"callback"}
        /\ UNCHANGED <<queue, port, hand, bound, texture, teardown, stop, wpc, odd,
                       eosSeen>>
    BY <1>0, <1>3 DEF CallbackReleases, Release, Touch, Todo
  <2>2. TypeOK'
    BY <2>1 DEF TypeOK
  <2>3. OnePlace'
    BY <2>1, <1>i DEF OnePlace, Count
  <2> QED BY <2>1, <2>2, <2>3
<1> QED BY <1>1, <1>2, <1>3 DEF Callback

\* main moves no buffer; it only starts, stops and takes down.
LEMMA MainInv ==
    ASSUME Inv, MainStarts \/ MainFinishes \/ MainTeardown
    PROVE  Inv'
<1>1. /\ UNCHANGED <<buffers, odd, eosSeen>>
      /\ UNCHANGED wpc \/ (wpc = "none" /\ wpc' = "create")
      /\ UNCHANGED fault \/ fault' = fault \cup {"join"}
      /\ stop' \in {stop, TRUE} /\ poolAlive' \in {poolAlive, FALSE}
      /\ queueAlive' \in {queueAlive, FALSE} /\ portOpen' \in {portOpen, FALSE}
      /\ mpc' \in MainPlaces
  BY DEF Inv, WhoStopped, MainTeardown, MainStarts, MainFinishes, MainStops, MainJoins,
         MainDestroysPool, MainDestroysQueue, MainDisablesPorts, MainClosesCamera,
         MainReturns, MainAt, MainPlaces
<1>2. TypeOK' /\ OnePlace' /\ WorkerHolds'
  <2>1. TypeOK'
    <3>1. wpc' \in WorkerPlaces /\ fault' \subseteq {"worker", "callback", "join"}
      BY <1>1 DEF Inv, TypeOK, WorkerPlaces
    <3>2. /\ stop' \in BOOLEAN /\ poolAlive' \in BOOLEAN
          /\ queueAlive' \in BOOLEAN /\ portOpen' \in BOOLEAN
      BY <1>1 DEF Inv, TypeOK
    <3> QED BY <1>1, <3>1, <3>2 DEF Inv, TypeOK, buffers
  <2>2. OnePlace'
    BY <1>1 DEF Inv, OnePlace, Count, buffers
  <2>3. WorkerHolds'
    BY <1>1 DEF Inv, WorkerHolds, buffers
  <2> QED BY <2>1, <2>2, <2>3
<1>3. MainProgress' /\ WhoStopped' /\ NoneLostBeforeStop' /\ Causes'
  <2> USE DEF Inv, TypeOK, MainProgress, WhoStopped, NoneLostBeforeStop, Causes,
              FaultsHaveTheirCause, MainAt, buffers
  <2>1. CASE MainStarts
    BY <2>1 DEF MainStarts
  <2>2. CASE MainFinishes
    BY <2>2 DEF MainFinishes
  <2>3. CASE MainStops
    BY <2>3 DEF MainStops
  <2>4. CASE MainJoins
    BY <2>4 DEF MainJoins
  <2>5. CASE MainDestroysPool
    BY <2>5 DEF MainDestroysPool
  <2>6. CASE MainDestroysQueue
    BY <2>6 DEF MainDestroysQueue
  <2>7. CASE MainDisablesPorts
    BY <2>7 DEF MainDisablesPorts
  <2>8. CASE MainClosesCamera
    BY <2>8 DEF MainClosesCamera
  <2>9. CASE MainReturns
    BY <2>9 DEF MainReturns
  <2> QED BY <2>1, <2>2, <2>3, <2>4, <2>5, <2>6, <2>7, <2>8, <2>9 DEF MainTeardown
<1> QED BY <1>2, <1>3 DEF Inv

\* A stuttering step keeps the invariant.
LEMMA StutterInv == ASSUME Inv, UNCHANGED vars PROVE Inv'
BY DEF vars, Inv, TypeOK, OnePlace, Count, WorkerHolds, MainProgress, WhoStopped,
       NoneLostBeforeStop, Causes, FaultsHaveTheirCause

\* The invariant is inductive.
LEMMA NextInv == Inv /\ [Next]_vars => Inv'
<1> SUFFICES ASSUME Inv, [Next]_vars PROVE Inv'
  OBVIOUS
<1>1. CASE Worker
  BY <1>1, WorkerControl, WorkerBuffers DEF Inv
<1>2. CASE CameraReturns
  BY <1>2, CameraInv
<1>3. CASE Callback
  BY <1>3, CallbackInv
<1>4. CASE MainStarts \/ MainFinishes \/ MainTeardown
  BY <1>4, MainInv
<1>5. CASE Exited \/ UNCHANGED vars
  BY <1>5, StutterInv DEF Exited
<1> QED BY <1>1, <1>2, <1>3, <1>4, <1>5 DEF Next

\* The inductive invariant holds of every state the pipeline reaches.
THEOREM Invariance == Spec => []Inv
BY InitInv, NextInv, PTL DEF Spec

---------------------------------------------------------------------------
(* The theorems.                                                           *)

\* Every variable keeps its type: the state of preview_worker,
\* preview_output_cb and main stays within what the module declares.
THEOREM TypeCorrectness == Spec => []TypeOK
<1>1. Inv => TypeOK
  BY DEF Inv
<1> QED BY <1>1, Invariance, PTL

\* A buffer is in one place only, and always in one: the worker, the callback
\* and raspitex_destroy never release, queue or send a buffer twice.
THEOREM BuffersInOnePlace == Spec => []OnePlace
<1>1. Inv => OnePlace
  BY DEF Inv
<1> QED BY <1>1, Invariance, PTL

\* raspitex_draw releases the previous buffer only after the new one is mapped,
\* so the frame behind the texture is never back with the camera.
THEOREM FrameStays == Spec => []ShownFrameStays
<1>1. Inv => ShownFrameStays
  <2> SUFFICES ASSUME Inv, texture # None
               PROVE  texture \notin pool \cup port \cup {cb.buf}
    BY DEF ShownFrameStays
  <2>1. texture \in Buffers /\ (texture = hand \/ texture = bound)
    BY DEF Inv, TypeOK, MaybeBuffer, WorkerHolds
  <2> QED BY <2>1 DEF Inv, OnePlace, Count
<1> QED BY <1>1, Invariance, PTL

\* Until preview_stop is set no path of the worker or of the callback drops a
\* buffer: the round keeps its size.
THEOREM RoundKeepsItsSize == Spec => []NoneLostBeforeStop
<1>1. Inv => NoneLostBeforeStop
  BY DEF Inv
<1> QED BY <1>1, Invariance, PTL

\* Whatever touches memory that raspitex_destroy has freed is the callback of
\* the port left open, or a worker an end of stream had stopped before
\* raspitex_stop; and only a worker never created is joined wrongly.
THEOREM FaultsConfined == Spec => []FaultsHaveTheirCause
<1>1. Inv => FaultsHaveTheirCause
  BY DEF Inv, Causes
<1> QED BY <1>1, Invariance, PTL

---------------------------------------------------------------------------
(* The refinement: for every pool of buffers PreviewPipeline implements    *)
(* BufferCycle: each step of the three threads is one step of a buffer's   *)
(* round, or none.                                                         *)

\* What Cycle's variables are mapped to.
Free   == pool \cup (IF wpc = "sending" THEN {hand} ELSE {})
Camera == port \cup ({cb.buf} \ {None})
Line   == (IF wpc \in {"got", "swap"} THEN <<hand>> ELSE <<>>) \o queue

\* A worker that has not sent a buffer yet, or never will, has no frames to drop
\* before the preview is stopped.
NothingYet ==
    ~stop /\ wpc \in {"none", "create", "drain", "term", "done"}
        => port = {} /\ cb.buf = None /\ queue = <<>>

RInv == Inv /\ NothingYet

---------------------------------------------------------------------------
\* A line of frames is the frame in the worker's hand and the queue.
LEMMA Lines ==
    ASSUME NEW q \in Seq(Buffers), NEW h \in Buffers, NEW b \in Buffers
    PROVE  /\ <<>> \o q = q /\ Append(<<>> \o q, b) = <<>> \o Append(q, b)
           /\ <<h>> \o q # <<>> /\ Head(<<h>> \o q) = h /\ Tail(<<h>> \o q) = q
           /\ Append(<<h>> \o q, b) = <<h>> \o Append(q, b)
           /\ q # <<>> => <<Head(q)>> \o Tail(q) = q
  OBVIOUS

\* Nothing is under way at first.
LEMMA InitNothing == Init => NothingYet
  BY DEF Init, NothingYet, Idle

\* The port gets its first buffer from a worker in its loop, which leaves the
\* loop only once stopped.
LEMMA NothingKept == RInv /\ [Next]_vars => NothingYet'
<1> SUFFICES ASSUME RInv, [Next]_vars PROVE NothingYet'
  OBVIOUS
<1> USE DEF RInv, NothingYet, buffers, teardown
<1>1. CASE Worker
  BY <1>1 DEF Worker, WorkerAt, WorkerInit, WorkerTestsStop, WorkerTakesFree, WorkerSends,
     WorkerTakesFrame, WorkerMapsFrame, WorkerSwaps, WorkerRedraws, WorkerDrains,
     WorkerTerminates, WorkerUsesDestroyed
<1>2. CASE CameraReturns
  BY <1>2 DEF CameraReturns
<1>3. CASE Callback
  <2>1. cb.buf # None
    BY <1>3, BuffersAssumption DEF Callback, CallbackQueues, CallbackEndsStream,
       CallbackReleases, Inv, TypeOK, Idle, Todo
  <2>2. wpc' = wpc /\ (stop => stop')
    BY <1>3 DEF Callback, CallbackQueues, CallbackEndsStream, CallbackReleases
  <2> QED
    BY <2>1, <2>2
<1>4. CASE MainStarts \/ MainFinishes \/ MainTeardown
  BY <1>4 DEF MainStarts, MainFinishes, MainTeardown, MainStops, MainJoins, MainAt,
     MainDestroysPool, MainDestroysQueue, MainDisablesPorts, MainClosesCamera, MainReturns,
     Inv, WhoStopped
<1>5. CASE Exited \/ UNCHANGED vars
  BY <1>5 DEF Exited, vars
<1> QED
  BY <1>1, <1>2, <1>3, <1>4, <1>5 DEF Next

---------------------------------------------------------------------------
LEMMA InitCycle == Init => Cycle!Init
  BY DEF Init, Cycle!Init, Idle

\* No one is where the round does not show it.
Stands == UNCHANGED <<Free, Camera, Line, bound, lost, stop>>

LEMMA StandsStill == Stands => UNCHANGED Cycle!vars
  BY DEF Stands, Cycle!vars, Free, Camera, Line

LEMMA WorkerCycle == RInv /\ Worker => Cycle!Next \/ Stands
<1> SUFFICES ASSUME RInv, Worker PROVE Cycle!Next \/ Stands
  OBVIOUS
<1> USE DEF buffers, WorkerAt
<1>0. /\ TypeOK /\ OnePlace /\ WorkerHolds /\ MainProgress /\ WhoStopped /\ NothingYet
      /\ None \notin Buffers
  BY BuffersAssumption DEF RInv, Inv
<1>a. queue \in Seq(Buffers) /\ (~poolAlive \/ ~portOpen => stop)
  BY <1>0 DEF TypeOK, MainProgress, WhoStopped
<1>1. CASE \/ WorkerInit \/ WorkerTestsStop \/ WorkerRedraws \/ WorkerTerminates
           \/ WorkerUsesDestroyed
  BY <1>1 DEF WorkerInit, WorkerTestsStop, WorkerRedraws, WorkerTerminates,
     WorkerUsesDestroyed, Stands, Free, Camera, Line
<1>2. CASE WorkerTakesFree
  BY <1>2 DEF WorkerTakesFree, Stands, Free, Camera, Line
<1>3. CASE WorkerSends
  <2>1. /\ wpc = "sending" /\ wpc' = "send" /\ hand \in Buffers
        /\ UNCHANGED <<pool, cb, queue, bound, stop>>
        /\ \/ portOpen /\ port' = port \cup {hand} /\ lost' = lost
           \/ stop /\ lost' = lost \cup {hand} /\ port' = port
    BY <1>0, <1>3, <1>a DEF WorkerSends, WorkerHolds, TypeOK, MaybeBuffer
  <2>2. hand \notin pool /\ hand \notin port /\ hand # cb.buf
    BY <1>0, <2>1 DEF OnePlace, Count
  <2>3. /\ hand \in Free /\ Free' = Free \ {hand} /\ Line' = Line
        /\ \/ Camera' = Camera \cup {hand} /\ lost' = lost
           \/ stop /\ Camera' = Camera \ {hand} /\ lost' = lost \cup {hand}
    BY <2>1, <2>2, <1>0 DEF Free, Camera, Line
  <2>4. Cycle!Offer(hand) \/ Cycle!Lose(hand)
    BY <2>1, <2>3 DEF Cycle!Offer, Cycle!Lose, Free, Camera, Line
  <2> QED
    BY <2>1, <2>4 DEF Cycle!Next
<1>4. CASE WorkerTakesFrame
  <2>1. CASE queue # <<>> /\ wpc' = "got"
    <3>1. /\ wpc = "process" /\ hand' = Head(queue) /\ queue' = Tail(queue)
          /\ UNCHANGED <<pool, port, cb, bound, lost, stop>>
      BY <1>4, <2>1 DEF WorkerTakesFrame
    <3>2. <<Head(queue)>> \o Tail(queue) = <<>> \o queue
      BY <1>a, <2>1
    <3> QED
      BY <2>1, <3>1, <3>2 DEF Stands, Free, Camera, Line
  <2>2. CASE wpc' = "loop"
    BY <1>4, <2>2 DEF WorkerTakesFrame, Stands, Free, Camera, Line
  <2> QED
    BY <1>4, <2>1, <2>2 DEF WorkerTakesFrame
<1>5. CASE WorkerMapsFrame
  <2>1. CASE ~stop
    BY <1>5, <2>1 DEF WorkerMapsFrame, Stands, Free, Camera, Line
  <2>2. CASE stop
    <3>1. /\ wpc = "got" /\ wpc' = "process" /\ hand \in Buffers
          /\ lost' = lost \cup {hand} /\ UNCHANGED <<pool, port, cb, queue, bound, stop>>
      BY <1>0, <1>5, <2>2 DEF WorkerMapsFrame, WorkerHolds, TypeOK, MaybeBuffer
    <3>2. /\ Line # <<>> /\ Head(Line) = hand /\ Line' = Tail(Line)
          /\ Free' = Free /\ Camera' = Camera
      BY <1>a, <3>1, Lines DEF Free, Camera, Line
    <3>3. Cycle!Skip
      BY <2>2, <3>1, <3>2 DEF Cycle!Skip, Free, Camera, Line
    <3> QED
      BY <3>3 DEF Cycle!Next
  <2> QED
    BY <1>0, <2>1, <2>2
<1>6. CASE WorkerSwaps
  <2>1. /\ wpc = "swap" /\ wpc' = "redraw" /\ hand \in Buffers /\ bound' = hand
        /\ \/ pool' = pool \cup ({bound} \ {None}) /\ lost' = lost
           \/ stop /\ lost' = lost \cup ({bound} \ {None}) /\ pool' = pool
        /\ UNCHANGED <<port, cb, queue, stop>>
    BY <1>0, <1>6, <1>a DEF WorkerSwaps, Release, WorkerHolds, TypeOK, MaybeBuffer
  <2>2. Line # <<>> /\ Head(Line) = hand /\ Line' = Tail(Line) /\ Camera' = Camera
    BY <1>a, <2>1, Lines DEF Camera, Line
  <2>3. \/ Free' = Free \cup ({bound} \ {None}) /\ lost' = lost
        \/ stop /\ lost' = lost \cup ({bound} \ {None}) /\ Free' = Free
    BY <2>1 DEF Free
  <2>4. Cycle!Show \/ Cycle!ShowLast
    BY <2>1, <2>2, <2>3 DEF Cycle!Show, Cycle!ShowLast, Free, Camera, Line
  <2> QED
    BY <2>4 DEF Cycle!Next
<1>7. CASE WorkerDrains
  <2>1. CASE wpc' = "term"
    BY <1>7, <2>1 DEF WorkerDrains, Stands, Free, Camera, Line
  <2>2. CASE wpc' # "term"
    <3>1. /\ wpc = "drain" /\ wpc' = "drain" /\ queue # <<>> /\ queue' = Tail(queue)
          /\ \/ pool' = pool \cup {Head(queue)} /\ lost' = lost
             \/ lost' = lost \cup {Head(queue)} /\ pool' = pool
          /\ UNCHANGED <<port, cb, hand, bound, stop>>
      BY <1>7, <2>2 DEF WorkerDrains, Release
    <3>2. stop
      BY <1>0, <3>1 DEF NothingYet
    <3>3. Line = queue /\ Line' = Tail(queue) /\ Camera' = Camera
      BY <1>a, <3>1, <1>0 DEF Line, Camera, TypeOK
    <3>4. \/ Free' = Free \cup {Head(Line)} /\ lost' = lost
          \/ lost' = lost \cup {Head(Line)} /\ Free' = Free
      BY <3>1, <3>3 DEF Free
    <3>5. Cycle!Skip
      BY <3>1, <3>2, <3>3, <3>4 DEF Cycle!Skip, Free, Camera, Line
    <3> QED
      BY <3>5 DEF Cycle!Next
  <2> QED
    BY <2>1, <2>2
<1> QED
  BY <1>1, <1>2, <1>3, <1>4, <1>5, <1>6, <1>7 DEF Worker

LEMMA CallbackCycle == RInv /\ Callback => Cycle!Next \/ Stands
<1> SUFFICES ASSUME RInv, Callback PROVE Cycle!Next \/ Stands
  OBVIOUS
<1>0. TypeOK /\ OnePlace /\ WorkerHolds /\ MainProgress /\ WhoStopped /\ None \notin Buffers
  BY BuffersAssumption DEF RInv, Inv
<1>a. queue \in Seq(Buffers) /\ (~poolAlive \/ ~queueAlive => stop) /\ stop \in BOOLEAN
  BY <1>0 DEF TypeOK, MainProgress, WhoStopped
<1>b. cb \in [buf : Buffers, todo : Todo] /\ cb.buf \in Buffers
  BY <1>0 DEF Callback, CallbackQueues, CallbackEndsStream, CallbackReleases, TypeOK, Idle, Todo
<1>c. /\ cb.buf \notin port /\ cb.buf \notin pool
      /\ cb.buf # hand /\ cb.buf \in Camera
  BY <1>0, <1>b DEF OnePlace, Count, Camera
<1>d. cb' = Idle /\ port' = port => Camera' = Camera \ {cb.buf}
  BY <1>0, <1>b, <1>c DEF Camera, Idle
<1>e. wpc' = wpc /\ hand' = hand /\ pool' = pool => Free' = Free /\ Free \ {cb.buf} = Free
  BY <1>c DEF Free
<1>1. CASE CallbackQueues
  <2>1. /\ UNCHANGED <<wpc, hand, pool, port, bound, stop>> /\ cb' = Idle
        /\ \/ queue' = Append(queue, cb.buf) /\ lost' = lost
           \/ stop /\ lost' = lost \cup {cb.buf} /\ queue' = queue
    BY <1>1, <1>a DEF CallbackQueues
  <2>2. CASE queue' = Append(queue, cb.buf) /\ lost' = lost
    <3>1. Line' = Append(Line, cb.buf)
      <4>1. CASE wpc \in {"got", "swap"}
        <5>1. hand \in Buffers
          BY <1>0, <4>1 DEF WorkerHolds, TypeOK, MaybeBuffer
        <5> QED
          BY <1>a, <1>b, <2>1, <2>2, <4>1, <5>1, Lines DEF Line
      <4>2. CASE wpc \notin {"got", "swap"}
        BY <1>a, <1>b, <2>1, <2>2, <4>2, Lines DEF Line
      <4> QED
        BY <4>1, <4>2
    <3>2. Cycle!Fill(cb.buf)
      BY <1>c, <1>d, <1>e, <2>1, <2>2, <3>1 DEF Cycle!Fill, Free, Camera, Line
    <3> QED
      BY <1>b, <3>2 DEF Cycle!Next
  <2>3. CASE stop /\ lost' = lost \cup {cb.buf} /\ queue' = queue
    <3>1. Line' = Line
      BY <2>1, <2>3 DEF Line
    <3>2. Cycle!Lose(cb.buf)
      BY <1>c, <1>d, <1>e, <2>1, <2>3, <3>1 DEF Cycle!Lose, Free, Camera, Line
    <3> QED
      BY <1>b, <3>2 DEF Cycle!Next
  <2> QED
    BY <2>1, <2>2, <2>3
<1>2. CASE CallbackEndsStream
  <2>1. /\ cb'.buf = cb.buf /\ stop' = TRUE
        /\ UNCHANGED <<wpc, hand, pool, port, queue, bound, lost>>
    BY <1>2, <1>b DEF CallbackEndsStream
  <2>2. Cycle!Stop
    BY <2>1 DEF Cycle!Stop, Free, Camera, Line
  <2> QED
    BY <2>2 DEF Cycle!Next
<1>3. CASE CallbackReleases
  <2>1. /\ UNCHANGED <<wpc, hand, port, queue, bound, stop>> /\ cb' = Idle
        /\ \/ pool' = pool \cup {cb.buf} /\ lost' = lost
           \/ stop /\ lost' = lost \cup {cb.buf} /\ pool' = pool
    BY <1>3, <1>a DEF CallbackReleases, Release
  <2>2. Line' = Line
    BY <2>1 DEF Line
  <2>3. CASE pool' = pool \cup {cb.buf} /\ lost' = lost
    <3>1. Free' = Free \cup {cb.buf}
      BY <2>1, <2>3 DEF Free
    <3>2. Cycle!Discard(cb.buf)
      BY <1>c, <1>d, <2>1, <2>2, <2>3, <3>1 DEF Cycle!Discard, Free, Camera, Line
    <3> QED
      BY <1>b, <3>2 DEF Cycle!Next
  <2>4. CASE stop /\ lost' = lost \cup {cb.buf} /\ pool' = pool
    <3>1. Cycle!Lose(cb.buf)
      BY <1>c, <1>d, <1>e, <2>1, <2>2, <2>4 DEF Cycle!Lose, Free, Camera, Line
    <3> QED
      BY <1>b, <3>1 DEF Cycle!Next
  <2> QED
    BY <2>1, <2>3, <2>4
<1> QED
  BY <1>1, <1>2, <1>3 DEF Callback

LEMMA CameraCycle == RInv /\ CameraReturns => Stands
<1> SUFFICES ASSUME RInv, CameraReturns PROVE Stands
  OBVIOUS
<1>1. PICK b \in port : /\ port' = port \ {b} /\ cb'.buf = b /\ cb = Idle
                        /\ UNCHANGED <<pool, queue, hand, bound, lost, stop, wpc>>
  BY DEF CameraReturns
<1>2. b # None /\ cb.buf = None
  BY <1>1, BuffersAssumption DEF RInv, Inv, TypeOK, Idle
<1> QED
  BY <1>1, <1>2 DEF Stands, Free, Camera, Line

LEMMA MainCycle ==
    RInv /\ (MainStarts \/ MainFinishes \/ MainTeardown) => Cycle!Next \/ Stands
<1> SUFFICES ASSUME RInv, MainStarts \/ MainFinishes \/ MainTeardown
             PROVE  Cycle!Next \/ Stands
  OBVIOUS
<1>1. /\ UNCHANGED buffers /\ stop' \in {stop, TRUE}
      /\ UNCHANGED wpc \/ (wpc = "none" /\ wpc' = "create")
  BY DEF MainStarts, MainFinishes, MainTeardown, MainStops, MainJoins, MainAt,
     MainDestroysPool, MainDestroysQueue, MainDisablesPorts, MainClosesCamera, MainReturns,
     RInv, Inv, WhoStopped
<1>2. UNCHANGED <<Free, Camera, Line, bound, lost>>
  BY <1>1 DEF buffers, Free, Camera, Line
<1>3. CASE stop' = stop
  BY <1>2, <1>3 DEF Stands
<1>4. CASE stop' = TRUE
  BY <1>2, <1>4 DEF Cycle!Next, Cycle!Stop, Free, Camera, Line
<1> QED
  BY <1>1, <1>3, <1>4

\* Every step of the pipeline is one of the round, or leaves it as it is.
LEMMA NextCycle == RInv /\ [Next]_vars => [Cycle!Next]_Cycle!vars
<1>1. ASSUME RInv, Exited \/ UNCHANGED vars PROVE Stands
  BY <1>1 DEF Exited, vars, Stands, Free, Camera, Line
<1> QED
  BY <1>1, WorkerCycle, CallbackCycle, CameraCycle, MainCycle, StandsStill DEF Next

---------------------------------------------------------------------------
\* The GL worker, preview_output_cb and main between them take each buffer once
\* round: filled, queued, drawn in the order of the frames, and given back when
\* the next is drawn, for any number of buffers and until the preview is stopped.
THEOREM PipelineImplementsCycle == Spec => ImplementsCycle
<1>1. Init => RInv
  BY InitInv, InitNothing DEF RInv
<1>2. RInv /\ [Next]_vars => RInv'
  BY NextInv, NothingKept DEF RInv
<1> QED
  BY <1>1, <1>2, InitCycle, NextCycle, PTL DEF Spec, ImplementsCycle, Cycle!Spec
=============================================================================
