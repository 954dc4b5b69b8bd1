------------------------ MODULE CameraSessionProofs ------------------------
(***************************************************************************)
(* Proofs about CameraSession, for every number of headers.                *)
(*                                                                         *)
(* None of the properties is inductive: they hold because of where main    *)
(* is.  IInv says, of each stage of its life, which parts there are and    *)
(* which ports are enabled (Stages), and that headers travel only between  *)
(* the moment main begins to send them and the end of the flush (Quiet).   *)
(* At the end, what the teardown has left to do grows less with each step. *)
(***************************************************************************)
EXTENDS CameraSession, TLAPS

\* Before main sends the first header, and after the flush, none travels.
Before == {"camera", "encoder", "splitter", "connect", "enableSplitter", "open", "ring",
           "enable", "start", "run", "idle"}
Destroying == {"close", "destroyEncoder", "destroySplitter", "destroyCamera", "exit"}
Flushing == {"flush", "disconnect"} \cup Destroying

Quiet ==
    /\ pc \in Before => lost = 0
    /\ pc \in Before \cup {"disconnect"} \cup Destroying => out = 0 /\ cb = "idle"
    /\ hand <= toSend
    /\ toSend > 0 => pc \in {"fill", "interrupted"}

\* What is there on the way up, by stage.
StagesUp ==
    /\ pc = "camera"   => have = {} /\ enabled = {} /\ free = 0
    /\ pc = "encoder"  => have = {"camera", "previewPool"} /\ free = 0
    /\ pc = "splitter" => /\ "encoder" \in have
                          /\ have \subseteq {"camera", "previewPool", "encoder",
                                             "encoderPool"}
    /\ pc \in {"camera", "encoder", "splitter"} => enabled \subseteq {"preview"}
    /\ pc \in {"connect", "enableSplitter", "open", "ring", "enable", "start", "run",
               "splitter"} => {"camera", "encoder"} \subseteq have
    /\ pc = "enableSplitter" /\ raw => "splitter" \in have
    /\ pc = "connect" /\ raw => "splitter" \in have
    /\ pc \in {"enable", "start", "run"} /\ circular => "ring" \in have
    /\ pc = "fill" => /\ {"encoder", "encoderPool", "file"} \subseteq have
                      /\ circular => "ring" \in have
    /\ early => pc = "exit"

\* What is gone on the way down.
StagesDown ==
    /\ pc \in {"disable"} \cup Flushing => "worker" \notin have
    /\ pc \in {"disable"} \cup Flushing /\ ~early => "previewPool" \notin have
    /\ pc \in Flushing => "encoder" \notin enabled
    /\ pc \in Flushing \ {"flush"} => "splitter" \notin enabled
    /\ pc \in Destroying => "connection" \notin have
    /\ pc \in Destroying \ {"close"} => "file" \notin have
    /\ pc \in {"destroySplitter", "destroyCamera", "exit"} =>
           "encoder" \notin have /\ "encoderPool" \notin have
    /\ pc \in {"destroyCamera", "exit"} =>
           "splitter" \notin have /\ "splitterPool" \notin have
    /\ pc = "exit" => "camera" \notin have
    /\ pc = "exit" /\ early => have \subseteq {"previewPool"}

\* The queue holds what main has yet to take and what the callback is about to.
Dry == free + hand >= toSend + (IF cb \in {"tests", "takes"} THEN 1 ELSE 0)

IInv ==
    /\ TypeOK /\ Quiet /\ StagesUp /\ StagesDown /\ Dry
    /\ HeadersAccounted /\ CallbackFindsItsParts /\ NothingOutlives

\* The definitions a step of main or of the callback is judged by.
USE DEF Before, Destroying, Flushing

LEMMA InitHolds == Init => IInv
<1> SUFFICES ASSUME Init PROVE IInv
    OBVIOUS
<1>1. TypeOK
    <2>1. /\ raw \in BOOLEAN /\ circular \in BOOLEAN /\ waitMethod \in Methods
          /\ named \in BOOLEAN /\ abort \in BOOLEAN /\ bCapturing \in BOOLEAN
          /\ early \in BOOLEAN
          BY DEF Init
    <2>2. /\ toSend \in 0 .. Buffers /\ hand \in 0 .. 1
          /\ free \in 0 .. Buffers /\ out \in 0 .. Buffers /\ lost \in 0 .. Buffers
          BY SessionAssumption DEF Init
    <2>3. /\ have \subseteq Parts /\ enabled \subseteq Ports
          /\ cb \in {"idle", "writes", "releases", "tests", "takes", "sends"}
          BY DEF Init
    <2> QED BY <2>1, <2>2, <2>3 DEF TypeOK
<1>2. Quiet /\ Dry /\ HeadersAccounted
      BY SessionAssumption DEF Init, Quiet, Dry, HeadersAccounted
<1>3. StagesUp /\ StagesDown /\ CallbackFindsItsParts /\ NothingOutlives
      BY DEF Init, StagesUp, StagesDown, CallbackFindsItsParts, NothingOutlives
<1> QED BY <1>1, <1>2, <1>3 DEF IInv

\* The making of the encoder changes four variables, in three ways.
LEMMA EncoderKeepsTypes == TypeOK /\ CreatesEncoder => TypeOK'
<1> SUFFICES ASSUME TypeOK, CreatesEncoder PROVE TypeOK'
    OBVIOUS
<1>1. have' \subseteq Parts
      BY DEF CreatesEncoder, TypeOK, Makes, Drops, Parts
<1>2. enabled' \subseteq Ports
      BY DEF CreatesEncoder, TypeOK
<1>3. free' \in 0 .. Buffers
      BY SessionAssumption DEF CreatesEncoder, TypeOK
<1>4. early' \in BOOLEAN
      BY DEF CreatesEncoder, TypeOK
<1>5. UNCHANGED <<options, toSend, hand, out, lost, cb, capture>>
      BY DEF CreatesEncoder
<1> QED BY <1>1, <1>2, <1>3, <1>4, <1>5 DEF TypeOK, options, capture

LEMMA UpPreserves == IInv /\ Up => IInv'
<1> SUFFICES ASSUME IInv, Up PROVE IInv'
    OBVIOUS
<1> USE SessionAssumption DEF IInv, TypeOK, Quiet, StagesUp, StagesDown, Dry,
        HeadersAccounted, CallbackFindsItsParts, NothingOutlives, Parts, Ports,
        Methods, Goes, Makes, Drops, Enables, options, headers, capture
<1>1. CASE CreatesCamera
    <2>1. TypeOK'
          BY <1>1 DEF CreatesCamera
    <2>2. Quiet' /\ Dry' /\ HeadersAccounted'
          BY <1>1 DEF CreatesCamera
    <2>3. StagesUp'
        <3>1. CASE pc' = "exit"
              BY <1>1, <3>1 DEF CreatesCamera
        <3>2. CASE pc' = "encoder"
            <4>1. have' = {"camera", "previewPool"} /\ enabled' = {"preview"}
                  BY <1>1, <3>2 DEF CreatesCamera
            <4>2. free' = 0 /\ early' = FALSE
                  BY <1>1, <3>2 DEF CreatesCamera
            <4> QED BY <3>2, <4>1, <4>2
        <3> QED BY <1>1, <3>1, <3>2 DEF CreatesCamera
    <2>4. StagesDown' /\ CallbackFindsItsParts' /\ NothingOutlives'
          BY <1>1 DEF CreatesCamera
    <2> QED BY <2>1, <2>2, <2>3, <2>4
<1>2. CASE CreatesEncoder
    <2>1. TypeOK'
          BY <1>2, EncoderKeepsTypes
    <2>2. Quiet' /\ Dry' /\ HeadersAccounted'
          BY <1>2 DEF CreatesEncoder
    <2>3. StagesUp'
        <3>1. CASE pc' = "exit"
              BY <1>2, <3>1 DEF CreatesEncoder
        <3>2. CASE pc' = "splitter"
            <4>1. /\ {"camera", "encoder"} \subseteq have'
                  /\ have' \subseteq {"camera", "previewPool", "encoder", "encoderPool"}
                  BY <1>2, <3>2 DEF CreatesEncoder
            <4>2. enabled' \subseteq {"preview"} /\ early' = FALSE
                  BY <1>2, <3>2 DEF CreatesEncoder
            <4> QED BY <3>2, <4>1, <4>2
        <3> QED BY <1>2, <3>1, <3>2 DEF CreatesEncoder
    <2>4. StagesDown' /\ CallbackFindsItsParts' /\ NothingOutlives'
          BY <1>2 DEF CreatesEncoder
    <2> QED BY <2>1, <2>2, <2>3, <2>4
<1>3. CASE CreatesSplitter
    <2>1. TypeOK'
          BY <1>3 DEF CreatesSplitter
    <2>2. Quiet' /\ Dry' /\ HeadersAccounted'
          BY <1>3 DEF CreatesSplitter
    <2>3. StagesUp'
          BY <1>3 DEF CreatesSplitter
    <2>4. StagesDown' /\ CallbackFindsItsParts' /\ NothingOutlives'
          BY <1>3 DEF CreatesSplitter
    <2> QED BY <2>1, <2>2, <2>3, <2>4
<1>4. CASE Connects
    <2>1. TypeOK'
          BY <1>4 DEF Connects
    <2>2. Quiet' /\ Dry' /\ HeadersAccounted'
          BY <1>4 DEF Connects
    <2>3. StagesUp'
          BY <1>4 DEF Connects
    <2>4. StagesDown' /\ CallbackFindsItsParts' /\ NothingOutlives'
          BY <1>4 DEF Connects
    <2> QED BY <2>1, <2>2, <2>3, <2>4
<1>5. CASE EnablesSplitter
    <2>1. TypeOK'
          BY <1>5 DEF EnablesSplitter
    <2>2. Quiet' /\ Dry' /\ HeadersAccounted'
          BY <1>5 DEF EnablesSplitter
    <2>3. StagesUp'
          BY <1>5 DEF EnablesSplitter
    <2>4. StagesDown' /\ CallbackFindsItsParts' /\ NothingOutlives'
          BY <1>5 DEF EnablesSplitter
    <2> QED BY <2>1, <2>2, <2>3, <2>4
<1>6. CASE OpensFile
    <2>1. TypeOK'
          BY <1>6 DEF OpensFile
    <2>2. Quiet' /\ Dry' /\ HeadersAccounted'
          BY <1>6 DEF OpensFile
    <2>3. StagesUp'
          BY <1>6 DEF OpensFile
    <2>4. StagesDown' /\ CallbackFindsItsParts' /\ NothingOutlives'
          BY <1>6 DEF OpensFile
    <2> QED BY <2>1, <2>2, <2>3, <2>4
<1>7. CASE MakesRing
    <2>1. TypeOK'
          BY <1>7 DEF MakesRing
    <2>2. Quiet' /\ Dry' /\ HeadersAccounted'
          BY <1>7 DEF MakesRing
    <2>3. StagesUp'
          BY <1>7 DEF MakesRing
    <2>4. StagesDown' /\ CallbackFindsItsParts' /\ NothingOutlives'
          BY <1>7 DEF MakesRing
    <2> QED BY <2>1, <2>2, <2>3, <2>4
<1>8. CASE EnablesEncoder
    <2>1. TypeOK'
          BY <1>8 DEF EnablesEncoder
    <2>2. Quiet' /\ Dry' /\ HeadersAccounted'
          BY <1>8 DEF EnablesEncoder
    <2>3. StagesUp'
          BY <1>8 DEF EnablesEncoder
    <2>4. StagesDown' /\ CallbackFindsItsParts' /\ NothingOutlives'
          BY <1>8 DEF EnablesEncoder
    <2> QED BY <2>1, <2>2, <2>3, <2>4
<1>9. CASE StartsWorker
    <2>1. TypeOK'
          BY <1>9 DEF StartsWorker
    <2>2. Quiet' /\ Dry' /\ HeadersAccounted'
          BY <1>9 DEF StartsWorker
    <2>3. StagesUp'
          BY <1>9 DEF StartsWorker
    <2>4. StagesDown' /\ CallbackFindsItsParts' /\ NothingOutlives'
          BY <1>9 DEF StartsWorker
    <2> QED BY <2>1, <2>2, <2>3, <2>4
<1> QED BY <1>1, <1>2, <1>3, <1>4, <1>5, <1>6, <1>7, <1>8, <1>9 DEF Up

LEMMA CapturePreserves ==
    IInv /\ (Captures \/ IdlesOut \/ UserGoesOn \/ Interrupted) => IInv'
<1> SUFFICES ASSUME IInv, Captures \/ IdlesOut \/ UserGoesOn \/ Interrupted PROVE IInv'
    OBVIOUS
<1> USE SessionAssumption DEF IInv, TypeOK, Quiet, StagesUp, StagesDown, Dry,
        HeadersAccounted, CallbackFindsItsParts, NothingOutlives, Parts, Ports,
        Methods, Goes, options, headers, capture
<1>1. CASE Begins       BY <1>1 DEF Begins
<1>2. CASE TakesHeader  BY <1>2 DEF TakesHeader
<1>3. CASE SendsHeader  BY <1>3 DEF SendsHeader
<1>4. CASE FillEnds     BY <1>4 DEF FillEnds
<1>5. CASE Toggles      BY <1>5 DEF Toggles
<1>6. CASE Waits        BY <1>6 DEF Waits
<1>7. CASE Saves        BY <1>7 DEF Saves
<1>8. CASE SaveEnds     BY <1>8 DEF SaveEnds
<1>9. CASE IdlesOut     BY <1>9 DEF IdlesOut
<1>10. CASE UserGoesOn  BY <1>10 DEF UserGoesOn
<1>11. CASE Interrupted BY <1>11 DEF Interrupted, Running
<1> QED BY <1>1, <1>2, <1>3, <1>4, <1>5, <1>6, <1>7, <1>8, <1>9, <1>10, <1>11
        DEF Captures

LEMMA DownPreserves == IInv /\ Down => IInv'
<1> SUFFICES ASSUME IInv, Down PROVE IInv'
    OBVIOUS
<1> USE SessionAssumption DEF IInv, TypeOK, Quiet, StagesUp, StagesDown, Dry,
        HeadersAccounted, CallbackFindsItsParts, NothingOutlives, Parts, Ports,
        Methods, Goes, Drops, options, headers, capture
<1>1. CASE StopsPreview
    <2>1. TypeOK'
      <3>1. /\ pc' \in {"disable", "crashed"} /\ have' \subseteq have
            /\ UNCHANGED <<options, enabled, headers, capture, early>>
            BY <1>1 DEF StopsPreview
      <3> QED BY <3>1
    <2>2. Quiet' /\ Dry' /\ HeadersAccounted'
          BY <1>1 DEF StopsPreview
    <2>3. StagesUp'
      <3>1. pc' \in {"disable", "crashed"} /\ ~early'
            BY <1>1 DEF StopsPreview
      <3> QED BY <3>1
    <2>4. StagesDown' /\ CallbackFindsItsParts' /\ NothingOutlives'
          BY <1>1 DEF StopsPreview
    <2> QED BY <2>1, <2>2, <2>3, <2>4
<1>2. CASE DisablesEncoder  BY <1>2 DEF DisablesEncoder
<1>3. CASE Flushed          BY <1>3 DEF Flushed
<1>4. CASE Disconnects      BY <1>4 DEF Disconnects
<1>5. CASE ClosesFile       BY <1>5 DEF ClosesFile
<1>6. CASE DestroysEncoder  BY <1>6 DEF DestroysEncoder
<1>7. CASE DestroysSplitter BY <1>7 DEF DestroysSplitter
<1>8. CASE DestroysCamera   BY <1>8 DEF DestroysCamera
<1> QED BY <1>1, <1>2, <1>3, <1>4, <1>5, <1>6, <1>7, <1>8 DEF Down

LEMMA CallbackPreserves == IInv /\ (EncoderReturns \/ Callback) => IInv'
<1> SUFFICES ASSUME IInv, EncoderReturns \/ Callback PROVE IInv'
    OBVIOUS
<1> USE SessionAssumption DEF IInv, TypeOK, Quiet, StagesUp, StagesDown, Dry,
        HeadersAccounted, CallbackFindsItsParts, NothingOutlives, Parts, Ports,
        Methods, options, headers, capture, Running
<1>1. CASE EncoderReturns   BY <1>1 DEF EncoderReturns
<1>2. CASE CallbackWrites
    <2>1. TypeOK'
          BY <1>2 DEF CallbackWrites
    <2>2. Quiet' /\ Dry' /\ HeadersAccounted'
          BY <1>2 DEF CallbackWrites
    <2>3. StagesUp'
          BY <1>2 DEF CallbackWrites
    <2>4. StagesDown' /\ CallbackFindsItsParts' /\ NothingOutlives'
          BY <1>2 DEF CallbackWrites
    <2> QED BY <2>1, <2>2, <2>3, <2>4
<1>3. CASE CallbackReleases BY <1>3 DEF CallbackReleases
<1>4. CASE CallbackTests    BY <1>4 DEF CallbackTests
<1>5. CASE CallbackTakes    BY <1>5 DEF CallbackTakes
<1>6. CASE CallbackSends    BY <1>6 DEF CallbackSends
<1> QED BY <1>1, <1>2, <1>3, <1>4, <1>5, <1>6 DEF Callback

LEMMA Inductive == IInv /\ [Next]_vars => IInv'
<1> SUFFICES ASSUME IInv, [Next]_vars PROVE IInv'
    OBVIOUS
<1>1. CASE Up BY <1>1, UpPreserves
<1>2. CASE Captures \/ IdlesOut \/ UserGoesOn \/ Interrupted
      BY <1>2, CapturePreserves
<1>3. CASE Down BY <1>3, DownPreserves
<1>4. CASE EncoderReturns \/ Callback BY <1>4, CallbackPreserves
<1>5. CASE UNCHANGED vars
      BY <1>5 DEF vars, IInv, TypeOK, Quiet, StagesUp, StagesDown, Dry,
            HeadersAccounted, CallbackFindsItsParts, NothingOutlives
<1> QED BY <1>1, <1>2, <1>3, <1>4, <1>5 DEF Next, Ended

\* Every state of a session has the invariant's parts: the stages of main, the
\* rest of the headers, and the named properties below.
THEOREM Invariance == Spec => []IInv
BY InitHolds, Inductive, PTL DEF Spec

\* The options, the parts, the ports, the headers and the callback stay in
\* their types; in particular no header is counted twice, wherever it is.
THEOREM TypeCorrectness == Spec => []TypeOK
<1>1. IInv => TypeOK
      BY DEF IInv
<1> QED BY <1>1, Invariance, PTL

\* main and encoder_buffer_callback lose no header between them but those whose
\* send failed (RaspiBalls.c:2907-2908 and 1502-1506), and have all others back in
\* the pool when it goes.
THEOREM HeadersAreAccounted == Spec => []HeadersAccounted
<1>1. IInv => HeadersAccounted
      BY DEF IInv
<1> QED BY <1>1, Invariance, PTL

\* Neither main (line 2903) nor the callback (line 1500) finds the pool's queue
\* empty: it holds what main has yet to take and one more for the callback.
THEOREM QueueHoldsEnough == Spec => []QueueNeverDry
<1>1. IInv => QueueNeverDry
      <2> SUFFICES ASSUME IInv PROVE QueueNeverDry
          OBVIOUS
      <2>1. Dry /\ hand \in 0 .. 1 /\ free \in Nat /\ toSend \in Nat /\ hand <= toSend
            BY SessionAssumption DEF IInv, TypeOK, Quiet
      <2> QED BY <2>1 DEF Dry, QueueNeverDry
<1> QED BY <1>1, Invariance, PTL

\* While a header is with the encoder or in its callback, the file or the ring
\* the callback writes to, the encoder and the pool are there (lines 3015-3076).
THEOREM CallbackHasItsParts == Spec => []CallbackFindsItsParts
<1>1. IInv => CallbackFindsItsParts
      BY DEF IInv
<1> QED BY <1>1, Invariance, PTL

\* No pool, connection or enabled port outlives the component it belongs to.
THEOREM PartsGoInOrder == Spec => []NothingOutlives
<1>1. IInv => NothingOutlives
      BY DEF IInv
<1> QED BY <1>1, Invariance, PTL

\* Whatever step failed, main returns with all but the ring destroyed; with the
\* preview's pool too if it never came past the making of the components.
THEOREM LeavesNothing == Spec => []ReturnsClean
<1>1. IInv => ReturnsClean
      <2> SUFFICES ASSUME IInv, pc = "exit"
                   PROVE  have \subseteq (IF early THEN {"previewPool"} ELSE {"ring"})
          BY DEF ReturnsClean
      <2>1. CASE early
            BY <2>1 DEF IInv, StagesDown
      <2>2. CASE ~early
            BY <2>2 DEF IInv, TypeOK, StagesDown, Parts
      <2> QED BY <2>1, <2>2
<1> QED BY <1>1, Invariance, PTL

---------------------------------------------------------------------------
(* The teardown comes to an end.                                           *)

\* The stages of main from the flush on, and the steps of a callback under way
\* that does not send again.
StagesLeft == [flush |-> 6, disconnect |-> 5, close |-> 4, destroyEncoder |-> 3,
               destroySplitter |-> 2, destroyCamera |-> 1, exit |-> 0]
StepsLeft  == [idle |-> 0, sends |-> 1, takes |-> 2, tests |-> 3, releases |-> 4, writes |-> 5]

\* What is left to do: six steps for each header that is with the encoder.
WorkLeft == StagesLeft[pc] + StepsLeft[cb] + 6 * out

TearingDown == pc \in DOMAIN StagesLeft /\ Running

\* Each step of main or of the callback leaves less to do ...
LessToDo ==
    TearingDown => \/ pc' = "interrupted"
                   \/ pc' \in DOMAIN StagesLeft /\ WorkLeft' < WorkLeft

TeardownRuns == [][LessToDo]_vars

\* ... and one of them can always go on: main waits in mmal_port_disable (Flushed)
\* only while the encoder has a header to return or the callback is under way, and
\* none of the callback's steps waits for anything; it finds a header to send, too.
FlushMoves == pc = "flush" => WorkLeft \in Nat /\ (cb = "takes" => free > 0)

\* A step of the callback or of main, and what it leaves.
LEMMA WorkStep == IInv /\ TearingDown /\ Next /\ vars' # vars =>
    pc' = "interrupted" \/ (pc' \in DOMAIN StagesLeft /\ WorkLeft' < WorkLeft)
<1> SUFFICES ASSUME IInv, TearingDown, Next, vars' # vars
             PROVE  pc' = "interrupted" \/ (pc' \in DOMAIN StagesLeft /\ WorkLeft' < WorkLeft)
    OBVIOUS
<1>0. /\ pc \in {"flush", "disconnect", "close", "destroyEncoder", "destroySplitter",
                 "destroyCamera"}
      /\ "encoder" \notin enabled /\ out \in Nat
      /\ cb \in {"idle", "writes", "releases", "tests", "takes", "sends"}
      <2>1. pc \in {"flush", "disconnect", "close", "destroyEncoder", "destroySplitter",
                    "destroyCamera"}
            BY DEF TearingDown, Running, StagesLeft
      <2>2. "encoder" \notin enabled
            BY <2>1 DEF IInv, StagesDown, Flushing, Destroying
      <2> QED BY <2>1, <2>2, SessionAssumption DEF IInv, TypeOK
<1>1. /\ StagesLeft[pc] \in Nat /\ StepsLeft[cb] \in Nat
      BY <1>0 DEF StagesLeft, StepsLeft
<1>2. ASSUME Down
      PROVE  pc' \in DOMAIN StagesLeft /\ WorkLeft' < WorkLeft
      <2>1. /\ UNCHANGED <<out, cb>>
            /\ \/ pc = "flush" /\ pc' = "disconnect"
               \/ pc = "disconnect" /\ pc' = "close"
               \/ pc = "close" /\ pc' = "destroyEncoder"
               \/ pc = "destroyEncoder" /\ pc' = "destroySplitter"
               \/ pc = "destroySplitter" /\ pc' = "destroyCamera"
               \/ pc = "destroyCamera" /\ pc' = "exit"
            BY <1>0, <1>2 DEF Down, StopsPreview, DisablesEncoder, Flushed, Disconnects,
               ClosesFile, DestroysEncoder, DestroysSplitter, DestroysCamera, Goes, headers
      <2>2. /\ pc' \in DOMAIN StagesLeft /\ StagesLeft[pc'] \in Nat
            /\ StagesLeft[pc'] < StagesLeft[pc]
            BY <2>1 DEF StagesLeft
      <2> QED BY <1>0, <1>1, <2>1, <2>2 DEF WorkLeft
<1>3. ASSUME EncoderReturns \/ Callback
      PROVE  pc' \in DOMAIN StagesLeft /\ WorkLeft' < WorkLeft
      <2>1. /\ pc' = pc
            /\ \/ out > 0 /\ out' = out - 1 /\ cb = "idle" /\ cb' = "writes"
               \/ out' = out /\ cb = "writes" /\ cb' = "releases"
               \/ out' = out /\ cb = "releases" /\ cb' = "tests"
               \/ out' = out /\ cb = "tests" /\ cb' = "idle"
               \/ out' = out /\ cb = "takes" /\ cb' \in {"sends", "idle"}
               \/ out' = out /\ cb = "sends" /\ cb' = "idle"
            BY <1>0, <1>3 DEF EncoderReturns, Callback, CallbackWrites, CallbackReleases,
               CallbackTests, CallbackTakes, CallbackSends
      <2>2. \/ out' = out - 1 /\ StepsLeft[cb'] = StepsLeft[cb] + 5
            \/ out' = out /\ StepsLeft[cb'] \in Nat /\ StepsLeft[cb'] < StepsLeft[cb]
            BY <2>1 DEF StepsLeft
      <2>3. pc' \in DOMAIN StagesLeft /\ StagesLeft[pc'] = StagesLeft[pc]
            BY <2>1 DEF TearingDown
      <2> QED BY <1>0, <1>1, <2>2, <2>3 DEF WorkLeft
<1>4. CASE Interrupted
      BY <1>4 DEF Interrupted
<1>5. ~ (Up \/ Captures \/ IdlesOut \/ UserGoesOn)
      BY <1>0 DEF Up, CreatesCamera, CreatesEncoder, CreatesSplitter, Connects, EnablesSplitter,
         OpensFile, MakesRing, EnablesEncoder, StartsWorker, Captures, Begins, TakesHeader,
         SendsHeader, FillEnds, Toggles, Waits, Saves, SaveEnds, IdlesOut, UserGoesOn, Goes
<1>6. ~ Ended
      BY DEF Ended
<1> QED BY <1>2, <1>3, <1>4, <1>5, <1>6 DEF Next

\* Once the encoder's port is disabled (line 3027), main comes to its end in a
\* number of steps that the headers on their way bound, for any pool: the flush
\* of mmal_port_disable never waits for a header that does not come, and the
\* callback sends none again.
THEOREM TeardownIsFinite == Spec => TeardownRuns /\ []FlushMoves
<1>1. IInv /\ [Next]_vars => [LessToDo]_vars
      BY WorkStep DEF LessToDo
<1>2. IInv => FlushMoves
      <2> SUFFICES ASSUME IInv, pc = "flush" PROVE FlushMoves
          BY DEF FlushMoves
      <2>1. /\ out \in Nat /\ free \in Nat /\ hand \in 0 .. 1 /\ toSend = 0 /\ hand <= toSend
            /\ cb \in {"idle", "writes", "releases", "tests", "takes", "sends"}
            BY SessionAssumption DEF IInv, TypeOK, Quiet
      <2>2. cb = "takes" => free > 0
            BY <2>1 DEF IInv, Dry
      <2>3. StagesLeft[pc] = 6 /\ StepsLeft[cb] \in Nat
            BY <2>1 DEF StagesLeft, StepsLeft
      <2>4. WorkLeft \in Nat
            BY <2>1, <2>3 DEF WorkLeft
      <2> QED BY <2>1, <2>2, <2>4 DEF FlushMoves
<1> QED BY <1>1, <1>2, Invariance, PTL DEF Spec, TeardownRuns
=============================================================================
