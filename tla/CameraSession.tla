--------------------------- MODULE CameraSession ---------------------------
(***************************************************************************)
(* The life of raspiballs: main of RaspiBalls.c makes the camera, the      *)
(* encoder and, for raw output, the splitter, connects them, hands the     *)
(* encoder its buffers, captures until it is told to end, and takes it all *)
(* down again.  Any step of the way up may fail.  Meanwhile the encoder    *)
(* gives buffers back through encoder_buffer_callback, in a thread of      *)
(* MMAL's, which writes them and sends another in their place.             *)
(*                                                                         *)
(* The preview's own thread and buffers are those of PreviewPipeline; here *)
(* they are made and destroyed as a whole.  What the callback writes is    *)
(* that of SegmentReplay.  The splitter is made, enabled and destroyed; no *)
(* connection leads to it, so that its port never gives a buffer back      *)
(* before it is disabled, and its buffers are left out, but for the pool   *)
(* they would come from.                                                   *)
(***************************************************************************)
EXTENDS Naturals, FiniteSets

CONSTANT Buffers        \* headers in the encoder's pool

ASSUME SessionAssumption == Buffers \in Nat \ {0}

Parts == {"camera", "previewPool", "worker", "encoder", "encoderPool", "splitter",
          "splitterPool", "connection", "file", "ring"}
Ports == {"preview", "encoder", "splitter"}

\* waitMethod: how the capture loop waits.
Methods == {"none", "timed", "keypress", "signal", "forever"}

VARIABLES
    raw, circular, waitMethod, named,   \* options: -r, -c, -t -k -s, -o (and
                                        \* -i: bCapturing to begin with)
    pc,         \* where main is
    have,       \* the parts that exist
    enabled,    \* the ports that are enabled
    toSend,     \* headers main has yet to send to the encoder
    hand,       \* 1 while main holds one
    free, out,  \* headers in the pool's queue, and with the encoder
    lost,       \* headers whose send failed
    cb,         \* where the encoder's callback is
    abort, bCapturing,
    early       \* history: main never came past the making of the components

options == <<raw, circular, waitMethod, named>>
headers == <<toSend, hand, free, out, lost, cb>>
capture == <<abort, bCapturing>>
vars == <<raw, circular, waitMethod, named, pc, have, enabled, toSend, hand, free, out,
          lost, cb, abort, bCapturing, early>>

Running == pc \notin {"exit", "crashed", "interrupted"}

Init ==
    /\ raw \in BOOLEAN /\ circular \in BOOLEAN /\ waitMethod \in Methods
    /\ named \in BOOLEAN
    /\ pc = "camera" /\ have = {} /\ enabled = {}
    /\ toSend = 0 /\ hand = 0 /\ free = 0 /\ out = 0 /\ lost = 0 /\ cb = "idle"
    /\ abort = FALSE /\ bCapturing \in BOOLEAN /\ early = FALSE

Goes(from, to) == pc = from /\ pc' = to
Makes(ps)   == have' = have \cup ps
Drops(ps)   == have' = have \ ps
Enables(ps) == enabled' = enabled \cup ps

---------------------------------------------------------------------------
(* The way up.                                                             *)

CreatesCamera ==
    /\ \/ /\ Goes("camera", "encoder") /\ Makes({"camera", "previewPool"})
          /\ Enables({"preview"}) /\ UNCHANGED early
       \/ Goes("camera", "exit") /\ early' = TRUE /\ UNCHANGED <<have, enabled>>
    /\ UNCHANGED <<options, headers, capture>>

\* Mutant: the camera stays.
EncoderFailsAlone ==
    /\ \/ /\ Goes("encoder", "splitter") /\ Makes({"encoder", "encoderPool"})
          /\ free' = Buffers /\ UNCHANGED early
       \/ Goes("encoder", "exit") /\ early' = TRUE /\ UNCHANGED <<have, free>>
    /\ UNCHANGED <<options, enabled, toSend, hand, out, lost, cb, capture>>

\* A pool that cannot be made is only logged.  On failure the camera goes.
CreatesEncoder ==
    /\ \/ /\ Goes("encoder", "splitter") /\ Makes({"encoder", "encoderPool"})
          /\ free' = Buffers /\ UNCHANGED <<early, enabled>>
       \/ /\ Goes("encoder", "splitter") /\ Makes({"encoder"})
          /\ UNCHANGED <<free, early, enabled>>
       \/ /\ Goes("encoder", "exit") /\ Drops({"camera"})
          /\ enabled' = {} /\ early' = TRUE /\ UNCHANGED free
    /\ UNCHANGED <<options, toSend, hand, out, lost, cb, capture>>

CreatesSplitter ==
    /\ \/ ~raw /\ Goes("splitter", "connect") /\ UNCHANGED <<have, enabled, early>>
       \/ /\ raw /\ Goes("splitter", "connect")
          /\ \/ Makes({"splitter", "splitterPool"})
             \/ Makes({"splitter"})
          /\ UNCHANGED <<enabled, early>>
       \/ /\ raw /\ Goes("splitter", "exit")
          /\ Drops({"camera", "encoder", "encoderPool"})
          /\ enabled' = {} /\ early' = TRUE
    /\ UNCHANGED <<options, headers, capture>>

Connects ==
    /\ \/ Goes("connect", "enableSplitter") /\ Makes({"connection"})
       \/ Goes("connect", "stop") /\ UNCHANGED have
    /\ UNCHANGED <<options, enabled, headers, capture, early>>

EnablesSplitter ==
    /\ \/ ~raw /\ Goes("enableSplitter", "open") /\ UNCHANGED enabled
       \/ raw /\ Goes("enableSplitter", "open") /\ Enables({"splitter"})
       \/ raw /\ Goes("enableSplitter", "stop") /\ UNCHANGED enabled
    /\ UNCHANGED <<options, have, headers, capture, early>>

\* Without its file main goes on; the encoder is then not used.
OpensFile ==
    /\ Goes("open", "ring")
    /\ \/ named /\ Makes({"file"})
       \/ UNCHANGED have
    /\ UNCHANGED <<options, enabled, headers, capture, early>>

\* The circular buffer: what it needs may be missing, and so may the memory.
MakesRing ==
    /\ \/ ~circular /\ Goes("ring", "enable") /\ UNCHANGED have
       \/ /\ circular /\ waitMethod \in {"keypress", "signal"} /\ "file" \in have
          /\ Goes("ring", "enable") /\ Makes({"ring"})
       \/ circular /\ Goes("ring", "stop") /\ UNCHANGED have
    /\ UNCHANGED <<options, enabled, headers, capture, early>>

\* The encoder's port and the preview's worker; an error of the first is looked
\* at after the second.
EnablesEncoder ==
    /\ \/ Goes("enable", "start") /\ Enables({"encoder"})
       \/ Goes("enable", "start") /\ UNCHANGED enabled
    /\ UNCHANGED <<options, have, headers, capture, early>>

StartsWorker ==
    /\ \/ /\ Goes("start", IF "encoder" \in enabled THEN "run" ELSE "stop")
          /\ Makes({"worker"})
       \/ Goes("start", "stop") /\ UNCHANGED have
    /\ UNCHANGED <<options, enabled, headers, capture, early>>

---------------------------------------------------------------------------
(* The capture.                                                            *)

\* Nothing is encoded without a file, nor in demo mode.  A pool that was not
\* made is used all the same.
Begins ==
    /\ \/ Goes("run", "idle") /\ UNCHANGED toSend
       \/ /\ "file" \in have /\ "encoderPool" \in have
          /\ Goes("run", "fill") /\ toSend' = free
       \/ /\ "file" \in have /\ "encoderPool" \notin have
          /\ Goes("run", "crashed") /\ UNCHANGED toSend
    /\ UNCHANGED <<options, have, enabled, hand, free, out, lost, cb, capture, early>>

IdlesOut ==
    /\ Goes("idle", "after")
    /\ UNCHANGED <<options, have, enabled, headers, capture, early>>

\* As many headers as were in the queue are sent, one by one.  There is one
\* for each turn (QueueNeverDry).
TakesHeader ==
    /\ pc = "fill" /\ toSend > 0 /\ hand = 0 /\ free > 0
    /\ hand' = 1 /\ free' = free - 1
    /\ UNCHANGED <<options, pc, have, enabled, toSend, out, lost, cb, capture, early>>

\* A send that fails is only logged: the header is in nobody's hands.
SendsHeader ==
    /\ pc = "fill" /\ hand = 1
    /\ hand' = 0 /\ toSend' = toSend - 1
    /\ \/ out' = out + 1 /\ UNCHANGED lost
       \/ lost' = lost + 1 /\ UNCHANGED out
    /\ UNCHANGED <<options, pc, have, enabled, free, cb, capture, early>>

\* The splitter's turn is next, whether it has a pool or not.
FillEnds ==
    /\ toSend = 0
    /\ Goes("fill", IF raw /\ "splitterPool" \notin have THEN "crashed" ELSE "toggle")
    /\ UNCHANGED <<options, have, enabled, headers, capture, early>>

\* A circular buffer is saved when the capture is paused.
Toggles ==
    /\ pc = "toggle" /\ bCapturing' = ~bCapturing
    /\ pc' = IF circular /\ ~bCapturing' THEN "after" ELSE "wait"
    /\ UNCHANGED <<options, have, enabled, headers, abort, early>>

\* Mutant: the flag is not looked at.
WaitIgnoresAbort ==
    /\ \/ waitMethod = "none"  /\ Goes("wait", "after")
       \/ waitMethod = "timed" /\ (Goes("wait", "toggle") \/ Goes("wait", "after"))
    /\ UNCHANGED <<options, have, enabled, headers, capture, early>>

\* wait_for_next_change: the time, which the flag cuts short ...
Waits ==
    /\ \/ waitMethod = "none"  /\ Goes("wait", "after")
       \/ waitMethod = "timed" /\ ~abort /\ Goes("wait", "toggle")
       \/ waitMethod = "timed" /\ Goes("wait", "after")
    /\ UNCHANGED <<options, have, enabled, headers, capture, early>>

\* ... or a key or signal, when the time may have run out.  Method "forever"
\* never comes back.
UserGoesOn ==
    /\ waitMethod \in {"keypress", "signal"}
    /\ Goes("wait", "toggle") \/ Goes("wait", "after")
    /\ UNCHANGED <<options, have, enabled, headers, capture, early>>

Saves ==
    /\ \/ circular /\ Goes("after", "save")
       \/ ~circular /\ Goes("after", "stop")
    /\ UNCHANGED <<options, have, enabled, headers, capture, early>>

SaveEnds ==
    /\ Goes("save", "stop")
    /\ UNCHANGED <<options, have, enabled, headers, capture, early>>

---------------------------------------------------------------------------
(* The way down.                                                           *)

\* raspitex_stop joins a worker that may never have been started, which is
\* undefined: it comes back or the program crashes.
StopsPreview ==
    /\ \/ Goes("stop", "disable") /\ Drops({"worker", "previewPool"})
       \/ "worker" \notin have /\ Goes("stop", "crashed") /\ UNCHANGED have
    /\ UNCHANGED <<options, enabled, headers, capture, early>>

\* Mutant: the port still says that it is enabled.
DisablesLate ==
    /\ Goes("disable", "flush")
    /\ UNCHANGED <<options, have, enabled, headers, capture, early>>

DisablesEncoder ==
    /\ Goes("disable", "flush") /\ enabled' = enabled \ {"encoder"}
    /\ UNCHANGED <<options, have, headers, capture, early>>

\* Mutant: mmal_port_disable does not wait.
FlushAtOnce ==
    /\ Goes("flush", "disconnect") /\ enabled' = enabled \ {"splitter"}
    /\ UNCHANGED <<options, have, headers, capture, early>>

\* mmal_port_disable returns when no header is in transit.
Flushed ==
    /\ Goes("flush", "disconnect") /\ out = 0 /\ cb = "idle"
    /\ enabled' = enabled \ {"splitter"}
    /\ UNCHANGED <<options, have, headers, capture, early>>

\* Mutant: the connection is left.
LeavesConnection ==
    /\ Goes("disconnect", "close")
    /\ UNCHANGED <<options, have, enabled, headers, capture, early>>

Disconnects ==
    /\ Goes("disconnect", "close") /\ Drops({"connection"})
    /\ UNCHANGED <<options, enabled, headers, capture, early>>

ClosesFile ==
    /\ Goes("close", "destroyEncoder") /\ Drops({"file"})
    /\ UNCHANGED <<options, enabled, headers, capture, early>>

DestroysEncoder ==
    /\ Goes("destroyEncoder", "destroySplitter") /\ Drops({"encoderPool", "encoder"})
    /\ UNCHANGED <<options, enabled, headers, capture, early>>

DestroysSplitter ==
    /\ Goes("destroySplitter", "destroyCamera") /\ Drops({"splitterPool", "splitter"})
    /\ UNCHANGED <<options, enabled, headers, capture, early>>

DestroysCamera ==
    /\ Goes("destroyCamera", "exit") /\ Drops({"camera"}) /\ enabled' = {}
    /\ UNCHANGED <<options, headers, capture, early>>

\* SIGINT: the handler ends the process where it is.
Interrupted ==
    /\ Running /\ pc' = "interrupted"
    /\ UNCHANGED <<options, have, enabled, headers, capture, early>>

---------------------------------------------------------------------------
(* encoder_buffer_callback.                                                *)

EncoderReturns ==
    /\ Running /\ cb = "idle" /\ out > 0
    /\ out' = out - 1 /\ cb' = "writes"
    /\ UNCHANGED <<options, pc, have, enabled, toSend, hand, free, lost, capture, early>>

\* A failed write sets the flag main may look at.
CallbackWrites ==
    /\ Running /\ cb = "writes" /\ cb' = "releases"
    /\ abort' \in IF circular THEN {abort} ELSE {abort, TRUE}
    /\ UNCHANGED <<options, pc, have, enabled, toSend, hand, free, out, lost, bCapturing,
                   early>>

\* Mutant: the header is not given back.
CallbackKeeps ==
    /\ Running /\ cb = "releases" /\ cb' = "tests"
    /\ UNCHANGED <<options, pc, have, enabled, toSend, hand, free, out, lost, capture,
                   early>>

CallbackReleases ==
    /\ Running /\ cb = "releases" /\ cb' = "tests" /\ free' = free + 1
    /\ UNCHANGED <<options, pc, have, enabled, toSend, hand, out, lost, capture, early>>

CallbackTests ==
    /\ Running /\ cb = "tests" /\ cb' = IF "encoder" \in enabled THEN "takes" ELSE "idle"
    /\ UNCHANGED <<options, pc, have, enabled, toSend, hand, free, out, lost, capture,
                   early>>

\* Without a header there is nothing to send.
CallbackTakes ==
    /\ Running /\ cb = "takes"
    /\ cb' = IF free > 0 THEN "sends" ELSE "idle"
    /\ free' = IF free > 0 THEN free - 1 ELSE 0
    /\ UNCHANGED <<options, pc, have, enabled, toSend, hand, out, lost, capture, early>>

\* The send may fail, and does when the port has been disabled since the test;
\* that is only logged.
CallbackSends ==
    /\ Running /\ cb = "sends" /\ cb' = "idle"
    /\ \/ "encoder" \in enabled /\ out' = out + 1 /\ UNCHANGED lost
       \/ lost' = lost + 1 /\ UNCHANGED out
    /\ UNCHANGED <<options, pc, have, enabled, toSend, hand, free, capture, early>>

Up == \/ CreatesCamera \/ CreatesEncoder \/ CreatesSplitter \/ Connects
      \/ EnablesSplitter \/ OpensFile \/ MakesRing \/ EnablesEncoder \/ StartsWorker
Captures == Begins \/ TakesHeader \/ SendsHeader \/ FillEnds \/ Toggles \/ Waits
            \/ Saves \/ SaveEnds
Down == \/ StopsPreview \/ DisablesEncoder \/ Flushed \/ Disconnects \/ ClosesFile
        \/ DestroysEncoder \/ DestroysSplitter \/ DestroysCamera
Callback == \/ CallbackWrites \/ CallbackReleases \/ CallbackTests \/ CallbackTakes
            \/ CallbackSends

Ended == ~Running /\ UNCHANGED vars

Next == \/ Up \/ Captures \/ IdlesOut \/ UserGoesOn \/ Down \/ Interrupted
        \/ EncoderReturns \/ Callback \/ Ended

Spec == Init /\ [][Next]_vars

\* main and MMAL's threads are scheduled, pauses end, and a port that is
\* disabled gives its headers back; nobody need press a key, and the encoder
\* need not produce anything.
FairSpec ==
    /\ Spec /\ WF_vars(Up \/ Captures \/ Down) /\ WF_vars(Callback)
    /\ WF_vars(EncoderReturns /\ "encoder" \notin enabled)

---------------------------------------------------------------------------
(* Properties.                                                             *)

TypeOK ==
    /\ raw \in BOOLEAN /\ circular \in BOOLEAN /\ waitMethod \in Methods
    /\ named \in BOOLEAN /\ have \subseteq Parts /\ enabled \subseteq Ports
    /\ toSend \in 0 .. Buffers /\ hand \in 0 .. 1
    /\ free \in 0 .. Buffers /\ out \in 0 .. Buffers /\ lost \in 0 .. Buffers
    /\ cb \in {"idle", "writes", "releases", "tests", "takes", "sends"}
    /\ abort \in BOOLEAN /\ bCapturing \in BOOLEAN /\ early \in BOOLEAN

\* What encoder_buffer_callback and main hold between them is all the headers
\* of the pool but those whose send failed: none is twice in the round, and none
\* goes missing in the overlap of the two.  When the pool is destroyed all the
\* others are back in it.
HeadersAccounted ==
    LET held == hand + (IF cb \in {"writes", "releases", "sends"} THEN 1 ELSE 0)
    IN  "encoderPool" \in have =>
            /\ free + out + held + lost = Buffers
            /\ pc = "destroyEncoder" => free + lost = Buffers

\* Whoever takes a header from the pool's queue finds one, though main and the
\* callback take from it at once ("Unable to get a required buffer").
QueueNeverDry ==
    /\ pc = "fill" /\ hand = 0 /\ toSend > 0 => free > 0
    /\ cb = "takes" => free > 0

\* Headers are with the encoder, or in its callback, only while what the
\* callback writes to is there, and the pool they belong to: neither a failed
\* start nor the teardown takes them away first.
CallbackFindsItsParts ==
    out > 0 \/ cb # "idle" =>
        {"encoder", "encoderPool", IF circular THEN "ring" ELSE "file"} \subseteq have

\* Nothing outlives what it is part of or leads to.
NothingOutlives ==
    /\ "encoderPool" \in have => "encoder" \in have
    /\ "splitterPool" \in have => "splitter" \in have
    /\ "connection" \in have => {"camera", "encoder"} \subseteq have
    /\ "preview" \in enabled => "camera" \in have
    /\ "encoder" \in enabled => "encoder" \in have
    /\ "splitter" \in enabled => "splitter" \in have

\* When main returns everything is destroyed, on whatever path it came: only
\* the circular buffer is left to the process's end, and, if a component could
\* not be made, the preview's pool.
ReturnsClean ==
    pc = "exit" => have \subseteq (IF early THEN {"previewPool"} ELSE {"ring"})

\* A failed write ends the session if main waits for a time.
AbortEndsTimed ==
    abort /\ waitMethod \in {"none", "timed"} ~> ~Running

\* A teardown comes to its end: the disabled port gives its headers back and
\* main does not wait for them forever.
TeardownEnds == pc = "stop" ~> ~Running
=============================================================================
