-------------------------- MODULE PreviewPipeline --------------------------
(***************************************************************************)
(* The camera preview of the tracker (RaspiTexBalls.c): a fixed pool of    *)
(* MMAL buffers goes round between the camera's preview port, the queue of *)
(* frames waiting to be drawn and the GL worker, which keeps the frame it  *)
(* last drew bound to its texture.  Three threads share this state: the    *)
(* GL worker (preview_worker), the MMAL thread that runs the port's        *)
(* callback (preview_output_cb) and main, which starts it all and tears it *)
(* down (raspitex_start, raspitex_stop, raspitex_destroy in that order).   *)
(*                                                                         *)
(* MMAL itself is external: a port holds the buffers sent to it and hands  *)
(* each back, one at a time, through its callback.                         *)
(***************************************************************************)
EXTENDS Naturals, Sequences, FiniteSets

CONSTANTS
    Buffers,    \* the headers of preview_pool
    None,       \* no buffer
    MaxOdd      \* bound: buffers the camera hands back without a frame

ASSUME BuffersAssumption ==
    /\ IsFiniteSet(Buffers) /\ None \notin Buffers
    /\ MaxOdd \in Nat

VARIABLES
    pool,       \* buffers in preview_pool->queue
    port,       \* buffers held by the camera's preview port
    cb,         \* the callback under way: its buffer and what is left to do
    queue,      \* preview_queue
    hand,       \* the worker's local buf
    bound,      \* preview_buf, released when the next frame is drawn
    texture,    \* the buffer behind the EGL image
    lost,       \* buffers taken from a queue and put nowhere
    stop,       \* preview_stop
    wpc, mpc,   \* where the worker and main are
    poolAlive, queueAlive, portOpen,
    odd,        \* number of buffers handed back without a frame
    eosSeen,    \* history: the callback has set preview_stop
    fault       \* undefined behaviour met: who touched what is gone

vars == <<pool, port, cb, queue, hand, bound, texture, lost, stop, wpc, mpc,
          poolAlive, queueAlive, portOpen, odd, eosSeen, fault>>

buffers  == <<pool, port, cb, queue, hand, bound, texture, lost>>
teardown == <<mpc, poolAlive, queueAlive, portOpen>>
MaybeBuffer == Buffers \cup {None}
Idle == [buf |-> None, todo |-> "nothing"]
Todo == {"frame", "eos", "release"}

Init ==
    /\ pool = Buffers /\ port = {} /\ cb = Idle /\ queue = <<>>
    /\ hand = None /\ bound = None /\ texture = None /\ lost = {}
    /\ stop = FALSE /\ wpc = "none" /\ mpc = "setup"
    /\ poolAlive = TRUE /\ queueAlive = TRUE /\ portOpen = TRUE
    /\ odd = 0 /\ eosSeen = FALSE /\ fault = {}

Running == mpc # "exit"     \* the process is there

\* Thread who reads or writes the headers bs, which go with the pool.
Touch(bs, who) ==
    fault' = IF poolAlive \/ bs = {} THEN fault ELSE fault \cup {who}

\* mmal_buffer_header_release of the headers bs: back to the pool, if any.
Release(bs, who) ==
    /\ Touch(bs, who)
    /\ \/ poolAlive /\ pool' = pool \cup bs /\ UNCHANGED lost
       \/ ~poolAlive /\ lost' = lost \cup bs /\ UNCHANGED pool

---------------------------------------------------------------------------
(* The GL worker thread, preview_worker.                                   *)

WorkerAt(from, to) == Running /\ wpc = from /\ wpc' = to

WorkerInit ==
    /\ \/ WorkerAt("create", "loop")
       \/ WorkerAt("create", "drain")    \* no window or no GL context
    /\ UNCHANGED <<buffers, teardown, stop, odd, eosSeen, fault>>

WorkerTestsStop ==
    /\ WorkerAt("loop", IF stop THEN "drain" ELSE "send")
    /\ UNCHANGED <<buffers, teardown, stop, odd, eosSeen, fault>>

\* mmal_queue_get on the pool's queue, until it is empty.
WorkerTakesFree ==
    /\ poolAlive
    /\ \/ \E b \in pool : /\ WorkerAt("send", "sending")
                          /\ hand' = b /\ pool' = pool \ {b}
       \/ /\ pool = {}
          /\ WorkerAt("send", "process")
          /\ UNCHANGED <<hand, pool>>
    /\ UNCHANGED <<port, cb, queue, bound, texture, lost, teardown, stop, odd,
                   eosSeen, fault>>

\* A buffer whose send fails is only logged.
WorkerSends ==
    /\ WorkerAt("sending", "send")
    /\ hand' = None
    /\ \/ portOpen /\ port' = port \cup {hand} /\ UNCHANGED lost
       \/ ~portOpen /\ lost' = lost \cup {hand} /\ UNCHANGED port
    /\ Touch({hand}, "worker")
    /\ UNCHANGED <<pool, cb, queue, bound, texture, teardown, stop, odd,
                   eosSeen>>

\* mmal_queue_get on preview_queue; the caller's loop ends when it is empty,
\* or the pointer to it already NULL.
WorkerTakesFrame ==
    /\ \/ /\ queueAlive /\ queue # <<>>
          /\ WorkerAt("process", "got")
          /\ hand' = Head(queue) /\ queue' = Tail(queue)
       \/ /\ queue = <<>> \/ ~queueAlive
          /\ WorkerAt("process", "loop")
          /\ UNCHANGED <<hand, queue>>
    /\ UNCHANGED <<pool, port, cb, bound, texture, lost, teardown, stop, odd,
                   eosSeen, fault>>

\* raspitex_draw maps the new frame, unless the preview was stopped since.
WorkerMapsFrame ==
    /\ wpc = "got"
    /\ \/ /\ ~stop
          /\ WorkerAt("got", "swap")
          /\ texture' = hand /\ UNCHANGED <<hand, lost>>
       \/ /\ stop
          /\ WorkerAt("got", "process")
          /\ lost' = lost \cup {hand} /\ hand' = None /\ UNCHANGED texture
    /\ Touch({hand}, "worker")
    /\ UNCHANGED <<pool, port, cb, queue, bound, teardown, stop, odd, eosSeen>>

\* Mutants: the previous buffer is forgotten; the new one is released in its
\* place.
WorkerKeepsPrevious ==
    /\ WorkerAt("swap", "redraw")
    /\ lost' = lost \cup ({bound} \ {None})
    /\ bound' = hand /\ hand' = None
    /\ UNCHANGED <<pool, port, cb, queue, texture, teardown, stop, odd, eosSeen,
                   fault>>
WorkerReleasesNew ==
    /\ WorkerAt("swap", "redraw")
    /\ Release({hand}, "worker")
    /\ bound' = hand /\ hand' = None
    /\ UNCHANGED <<port, cb, queue, texture, teardown, stop, odd, eosSeen>>
\* ... and gives the buffer of the previous frame back.
WorkerSwaps ==
    /\ WorkerAt("swap", "redraw")
    /\ Release({bound} \ {None}, "worker")
    /\ bound' = hand /\ hand' = None
    /\ UNCHANGED <<port, cb, queue, texture, teardown, stop, odd, eosSeen>>

\* redraw (the ball is looked for here) and eglSwapBuffers.
WorkerRedraws ==
    /\ WorkerAt("redraw", "process")
    /\ UNCHANGED <<buffers, teardown, stop, odd, eosSeen, fault>>

WorkerDrains ==
    /\ \/ /\ queueAlive /\ queue # <<>>
          /\ WorkerAt("drain", "drain")
          /\ Release({Head(queue)}, "worker")
          /\ queue' = Tail(queue)
       \/ /\ queue = <<>> \/ ~queueAlive
          /\ WorkerAt("drain", "term")
          /\ UNCHANGED <<pool, lost, fault, queue>>
    /\ UNCHANGED <<port, cb, hand, bound, texture, teardown, stop, odd, eosSeen>>

WorkerTerminates ==
    /\ WorkerAt("term", "done")
    /\ texture' = None
    /\ UNCHANGED <<pool, port, cb, queue, hand, bound, lost, teardown, stop, odd,
                   eosSeen, fault>>

\* The worker uses the pool or the queue after main has destroyed it, through
\* a pointer not yet NULL or, for the pool, through NULL.
WorkerUsesDestroyed ==
    /\ Running
    /\ \/ wpc = "send" /\ ~poolAlive
       \/ wpc \in {"process", "drain"} /\ ~queueAlive
    /\ wpc' = "crashed" /\ fault' = fault \cup {"worker"}
    /\ UNCHANGED <<buffers, teardown, stop, odd, eosSeen>>

Worker == \/ WorkerInit \/ WorkerTestsStop \/ WorkerTakesFree \/ WorkerSends
          \/ WorkerTakesFrame \/ WorkerMapsFrame \/ WorkerSwaps \/ WorkerRedraws
          \/ WorkerDrains \/ WorkerTerminates \/ WorkerUsesDestroyed

---------------------------------------------------------------------------
(* The camera and the callback of its preview port, preview_output_cb.     *)

\* The port hands a buffer back: a frame, a zero length (end of stream, or a
\* flush when the camera closes down), or a frame without data.
CameraReturns ==
    /\ Running /\ portOpen /\ cb = Idle
    /\ \E b \in port, todo \in Todo :
        /\ \/ todo = "frame" /\ UNCHANGED odd
           \/ todo # "frame" /\ odd < MaxOdd /\ odd' = odd + 1
           \/ todo = "eos" /\ mpc = "closing" /\ UNCHANGED odd
        /\ port' = port \ {b}
        /\ cb' = [buf |-> b, todo |-> todo]
        /\ Touch({b}, "callback")
    /\ UNCHANGED <<pool, queue, hand, bound, texture, lost, teardown, stop, wpc,
                   eosSeen>>

\* Mutant: the newest frame is put in front (mmal_queue_put_back).
CallbackPutsBack ==
    /\ Running /\ cb.todo = "frame" /\ cb' = Idle
    /\ queue' = <<cb.buf>> \o queue
    /\ UNCHANGED <<pool, port, hand, bound, texture, lost, teardown, stop, wpc,
                   odd, eosSeen, fault>>

\* Once the queue is destroyed the frame goes nowhere: the put does nothing
\* through NULL, and is undefined until the pointer is.
CallbackQueues ==
    /\ Running /\ cb.todo = "frame" /\ cb' = Idle
    /\ \/ queueAlive /\ queue' = Append(queue, cb.buf) /\ UNCHANGED <<lost, fault>>
       \/ /\ ~queueAlive /\ lost' = lost \cup {cb.buf} /\ UNCHANGED queue
          /\ fault' \in {fault, fault \cup {"callback"}}
    /\ UNCHANGED <<pool, port, hand, bound, texture, teardown, stop, wpc, odd,
                   eosSeen>>

CallbackEndsStream ==
    /\ Running /\ cb.todo = "eos"
    /\ stop' = TRUE /\ eosSeen' = TRUE
    /\ cb' = [cb EXCEPT !.todo = "release"]
    /\ UNCHANGED <<pool, port, queue, hand, bound, texture, lost, teardown, wpc,
                   odd, fault>>

CallbackReleases ==
    /\ Running /\ cb.todo = "release" /\ cb' = Idle
    /\ Release({cb.buf}, "callback")
    /\ UNCHANGED <<port, queue, hand, bound, texture, teardown, stop, wpc, odd,
                   eosSeen>>

Callback == CallbackQueues \/ CallbackEndsStream \/ CallbackReleases

---------------------------------------------------------------------------
(* main: the steps of its life that touch the preview.                     *)

MainAt(from, to) == mpc = from /\ mpc' = to

\* The preview port is configured with the camera; an error on the way to
\* raspitex_start, or in it, goes straight to the teardown.
MainStarts ==
    /\ \/ MainAt("setup", "running") /\ wpc' = "create"
       \/ MainAt("setup", "stop") /\ UNCHANGED wpc
    /\ UNCHANGED <<buffers, poolAlive, queueAlive, portOpen, stop, odd, eosSeen,
                   fault>>

MainFinishes ==
    /\ MainAt("running", "stop")
    /\ UNCHANGED <<buffers, poolAlive, queueAlive, portOpen, stop, wpc, odd,
                   eosSeen, fault>>

\* Mutant: the worker is told to stop and not waited for.
MainStopsWithoutJoin ==
    /\ MainAt("stop", "destroy") /\ stop' = TRUE
    /\ UNCHANGED <<buffers, poolAlive, queueAlive, portOpen, wpc, odd, eosSeen,
                   fault>>

\* raspitex_stop joins the worker only if it is the one that stops it.
MainStops ==
    /\ \/ ~stop /\ MainAt("stop", "join") /\ stop' = TRUE
       \/ stop /\ MainAt("stop", "destroy") /\ UNCHANGED stop
    /\ UNCHANGED <<buffers, poolAlive, queueAlive, portOpen, wpc, odd, eosSeen,
                   fault>>

\* Mutant: main waits for a worker that was never created.
MainJoinsDone ==
    /\ MainAt("join", "destroy") /\ wpc = "done"
    /\ UNCHANGED <<buffers, poolAlive, queueAlive, portOpen, stop, wpc, odd,
                   eosSeen, fault>>

\* Joining a thread that was never created is undefined.
MainJoins ==
    /\ MainAt("join", "destroy")
    /\ \/ wpc = "done" /\ UNCHANGED fault
       \/ wpc = "none" /\ fault' = fault \cup {"join"}
    /\ UNCHANGED <<buffers, poolAlive, queueAlive, portOpen, stop, wpc, odd,
                   eosSeen>>

\* raspitex_destroy: the pool with its headers, then the queue of frames.
MainDestroysPool ==
    /\ MainAt("destroy", "destroyQueue") /\ poolAlive' = FALSE
    /\ UNCHANGED <<buffers, queueAlive, portOpen, stop, wpc, odd, eosSeen, fault>>

MainDestroysQueue ==
    /\ MainAt("destroyQueue", "disable") /\ queueAlive' = FALSE
    /\ UNCHANGED <<buffers, poolAlive, portOpen, stop, wpc, odd, eosSeen, fault>>

\* The still port, the encoder's and the splitter's are disabled, and the
\* connections destroyed; the preview port is none of them.
MainDisablesPorts ==
    /\ MainAt("disable", "closing")
    /\ UNCHANGED <<buffers, poolAlive, queueAlive, portOpen, stop, wpc, odd,
                   eosSeen, fault>>

\* The camera goes down, and with it its ports, once they are empty ...
MainClosesCamera ==
    /\ MainAt("closing", "closed") /\ port = {} /\ cb = Idle /\ portOpen' = FALSE
    /\ UNCHANGED <<buffers, poolAlive, queueAlive, stop, wpc, odd, eosSeen, fault>>

\* ... and main returns, which ends the process and its threads.
MainReturns ==
    /\ MainAt("closed", "exit")
    /\ UNCHANGED <<buffers, poolAlive, queueAlive, portOpen, stop, wpc, odd,
                   eosSeen, fault>>

MainTeardown == \/ MainStops \/ MainJoins \/ MainDestroysPool
                \/ MainDestroysQueue \/ MainDisablesPorts \/ MainClosesCamera
                \/ MainReturns

Exited == mpc = "exit" /\ UNCHANGED vars

Next == \/ Worker \/ CameraReturns \/ Callback
        \/ MainStarts \/ MainFinishes \/ MainTeardown \/ Exited

Spec == Init /\ [][Next]_vars

\* Each thread is scheduled; a camera that holds buffers fills them; main's
\* teardown goes on, while the moment it begins is up to the user.
Fairness == /\ WF_vars(Worker) /\ WF_vars(Callback)
            /\ WF_vars(CameraReturns) /\ WF_vars(MainTeardown)

FairSpec == Spec /\ Fairness

---------------------------------------------------------------------------
(* Properties.                                                             *)

Count(p)    == IF p THEN 1 ELSE 0
Elements(q) == {q[i] : i \in DOMAIN q}
NoRepeat(q) == \A i, j \in DOMAIN q : q[i] = q[j] => i = j

WorkerPlaces == {"none", "create", "loop", "send", "sending", "process", "got",
                 "swap", "redraw", "drain", "term", "done", "crashed"}
MainPlaces == {"setup", "running", "stop", "join", "destroy", "destroyQueue",
               "disable", "closing", "closed", "exit"}

\* Every variable keeps its type; in particular no header is ever NULL where
\* the code releases, queues or sends one.
TypeOK ==
    /\ pool \subseteq Buffers /\ port \subseteq Buffers /\ lost \subseteq Buffers
    /\ cb \in [buf : Buffers, todo : Todo] \cup {Idle}
    /\ queue \in Seq(Buffers)
    /\ hand \in MaybeBuffer /\ bound \in MaybeBuffer /\ texture \in MaybeBuffer
    /\ stop \in BOOLEAN /\ poolAlive \in BOOLEAN /\ queueAlive \in BOOLEAN
    /\ portOpen \in BOOLEAN /\ eosSeen \in BOOLEAN
    /\ wpc \in WorkerPlaces /\ mpc \in MainPlaces
    /\ odd \in 0 .. MaxOdd
    /\ fault \subseteq {"worker", "callback", "join"}

\* A buffer is in one place only, whatever the three threads do between two
\* steps of each other: none is released twice, queued twice, or sent to the
\* camera while a frame in it waits or is shown.
OnePlace ==
    /\ \A b \in Buffers :
          Count(b \in pool) + Count(b \in port) + Count(b = cb.buf)
          + Count(b \in Elements(queue)) + Count(b = hand) + Count(b = bound)
          + Count(b \in lost) = 1
    /\ NoRepeat(queue)

\* The camera never gets to overwrite the frame behind the texture.
ShownFrameStays == texture # None => texture \notin pool \cup port \cup {cb.buf}

\* No buffer is lost, and the round of frames keeps its size, until the
\* preview is stopped.
NoneLostBeforeStop == lost # {} => stop

\* What can go wrong is confined to the teardown, and each kind to a cause:
\* the callback of the port left open, a worker that an end of stream had
\* stopped before main, a worker that was never created.
FaultsHaveTheirCause ==
    /\ "callback" \in fault => ~poolAlive
    /\ "worker" \in fault => ~poolAlive /\ eosSeen
    /\ "join" \in fault => wpc = "none"

\* The pipeline implements the round of buffers of BufferCycle.  The worker's
\* hand still counts as the pool until it is sent, and as the line's head
\* until it is bound; a callback under way still counts as the camera.
Cycle == INSTANCE BufferCycle WITH
    free    <- pool \cup (IF wpc = "sending" THEN {hand} ELSE {}),
    camera  <- port \cup ({cb.buf} \ {None}),
    line    <- (IF wpc \in {"got", "swap"} THEN <<hand>> ELSE <<>>) \o queue,
    shown   <- bound,
    stopped <- stop

ImplementsCycle == Cycle!Spec

\* While the preview is on, a frame is always drawn again: the round of
\* buffers never dries up, though the worker holds one back.
FramesKeepComing == wpc = "loop" ~> (wpc = "redraw" \/ stop)

\* Once main has begun to take the preview down it comes to its end: it waits
\* for the worker, and for the port, only as long as they need.
TeardownEnds == mpc = "stop" ~> mpc = "exit"
=============================================================================
