# Formal model of the ball tracker

`raspiballs` (a program among the raspicam applications of this Raspberry Pi
`userland` tree) watches a foosball table: it finds the ball on the GPU in every
camera frame, works out goals, saves and scorers, and tells a Python server,
which passes the events to web clients, starts and stops the tracker at their
request, and cuts replays from the video recorded meanwhile.

This directory holds TLA+ modules of that system, the TLC runs that check them
on small instances, and TLAPS proofs of what matters most for every instance.
Line numbers refer to the files under `src/`; `PROJECT.json` gives, for every
definition, the lines it models. Short names:

| name | file |
|---|---|
| BallAnalysis.c, RaspiTexBalls.c, RaspiBalls.c, BalltrackCore.c | `src/host_applications/linux/apps/raspicam/` |
| balltrack_websocket.py, websocket_server.py, run-camera.sh, generate-replay.sh, replay.sh | `src/pythonwebsocket/` |
| mmal_port.c, mmal_component.c, mmal_pool.c, mmal_queue.c | `src/interface/mmal/core/` |
| mmal_vc_api.c, mmal_vc_client.c | `src/interface/mmal/vc/` |

## 1. Inventory

The rest of the tree (VCHIQ, VCOS, the Khronos clients, containers, device tree
tools, demos, the original raspicam programs) is vendored code that the tracker
links to or was derived from, and changes in nothing. Of the vendored code two
parts that every frame goes through are modelled: the ports of MMAL's core and
MMAL's channel to VideoCore.

| component | state | operations | who else touches it |
|---|---|---|---|
| **Ball analysis** (BallAnalysis.c) | ring of 120 sightings with their frames, `ballCur`, `ballMissing`, smoothed field, `sendSAVE`, `lastGOAL` | `analysis_update` once per frame: smoothing, shot test, goal test, search for the scorer | only the GL worker; sends lines into the FIFO |
| **GL preview pipeline** (RaspiTexBalls.c, `balltrack.c`) | pool and queue of MMAL headers, the shown buffer and its texture, `preview_stop` | `preview_worker`, `preview_output_cb`, `raspitex_start/stop/destroy` | worker, MMAL's callback thread and main |
| **Image readout** (BalltrackCore.c) | none between frames | shader passes; field edges and ball position from pixels | worker |
| **Event bridge** (`analysis_send_to_server`, `MyReadThread`, websocket_server.py) | the FIFO, lines read, list of clients, each connection | open-write-close per message; open-readline-reopen; greeting, multicast, clean-up of clients | the tracker, the read thread, one thread per client |
| **Tracker control** (balltrack_websocket.py, run-camera.sh) | `camprocess`, `heartbeatTimer`, the processes | `startTracking`, `stopTracking`, client messages, leaving, `HeartbeatThread`, `pkill` and `exec` in the script | all threads of the server; the processes |
| **Capture session** (`main` of RaspiBalls.c) | components, pools, connection, ports, files, ring, `abort`, `bCapturing` | creation with its failures, `encoder_buffer_callback`, the capture loop with five ways to wait, teardown | main, the encoder's callback thread, signals |
| **Segment recording and replay** (RaspiBalls.c, generate-replay.sh, replay.sh, `doReplay`) | `segmentNumber`, open file, modification times, the replay file | next segment, flush, close; list, copy, play | tracker, and one script per replay asked for |
| **Circular recording** (RaspiBalls.c 1298-1376, 2995-3013) | ring of encoded bytes, list of I-frames | append, wrap, save | callback and main |
| **MMAL port** (mmal_port.c, mmal_component.c, mmal_vc_api.c) | enabled, paused, the client's callback, `transit_buffer_headers`, the port's queue, the pool of contexts, the component's `callback_queue`, three locks | `send_buffer`, `enable`, `disable`, `flush`, `pause`, the action thread, the client's callback | any thread of the application, the action thread, VCHIQ's thread |
| **MMAL client** (mmal_vc_client.c) | `refcount`, `usecount`, the pool of waiters, `bulk_lock` | `sendwait_message`, `send_message`, `init`, `deinit`, VCHIQ's callback | all threads that call MMAL, VCHIQ's thread |
| MMAL pools and queues (mmal_pool.c, mmal_queue.c) | headers | get, put, release | as `PreviewPipeline` and `CameraSession` use them |
| settings, command line, framing of WebSocket messages | | pure conversion or one call into MMAL | |

How they interact: the camera fills a preview buffer → callback queues it →
worker draws it, reads the ball back and calls `analysis_update` → a line goes
into the FIFO → the read thread sends it to all clients. In parallel the encoder
returns buffers → callback writes them into segments → a client's request makes
a script copy segments into the replay file. Clients' messages and absence start
and stop the process that holds all of the first two chains. Under both chains
lie MMAL's ports, one component's with an action thread that calls the client,
and under all ports the one MMAL client of the process.

What is hard about it, and what makes each part correct:

* *Ball analysis*: one thread, but long sequences: a ring index, three counters
  and two delays kept by different branches. Correct: the newest sighting is
  where it is looked for, a SAVE is told on time and never after a goal for the
  same shot, a lost ball is one goal at most, the scorer is whom the history names.
* *Preview*: three threads, no lock but the queue's. Correct: a buffer is in
  one place, the frame on the screen is not overwritten, the round does not dry
  up, teardown ends and touches nothing it has freed.
* *Bridge*: a list changed under a walk by index, a FIFO reopened between
  messages, writers that are killed. Correct: order, at most once, nothing lost
  between FIFO and sending, everyone listed hears.
* *Control*: test-and-set of one handle from many threads, and processes that
  outlive what started them. Correct: one tracker, none without a handle, none
  left when clients or heartbeats are gone.
* *Session*: any step may fail; two threads take from one pool; the port is
  disabled under the callback. Correct: headers are accounted for, parts go in
  the order that nobody misses them, main comes back with nothing left.
* *Replay*: files listed and copied while they are rewritten. Correct: the
  latest complete chunks in order, copied as listed.

* *Circular recording*: main saves while the callback writes, both in steps.
  Correct: the ring holds the latest bytes, the list its I-frames, and the file
  begins with all there is from the oldest.
* *Port*: four kinds of threads, three locks whose order is a comment, one count
  that a disable waits for, calls that VideoCore refuses half way. Correct: the
  count is right, headers keep their order, what is lent comes back before the
  port closes, nobody waits forever.
* *Client*: answers in any order into waiters that are used again, transfers
  known by their place. Correct: each call has its own answer, each transfer
  follows its own message.

`PROJECT.json` lists these hazards one by one at their lines.

## 2. Modules

| module | models | main actions |
|---|---|---|
| `BallAnalysis` | BallAnalysis.c | `BallFound`, `BallMissing` (the two branches of `analysis_update`, whole) |
| `PreviewPipeline` | worker, callback and main around the preview's buffers | one action per access the other threads can see |
| `BufferCycle` | abstract: what the preview promises of its buffers | `Offer Fill Show …` |
| `EventBridge` | FIFO, read thread, clients' threads | writer, reader and handler step by step |
| `EventChannel` | abstract: an ordered log heard at most once, that may end | `Enter Announce Hear Close` |
| `TrackerControl` | start/stop, heartbeats, a client's clean-up, script and processes | one action per access to `camprocess` or step of a clean-up |
| `HeartbeatWatch` | `TrackerControl` with a count of the heartbeat thread's silent rounds (history) | as there |
| `CameraSession` | main's way up, capture and way down; the encoder's callback | one action per creating, waiting or destroying step, six for the callback |
| `SegmentReplay` | recording by segments, listing and copying | `NextSegment`, `SegmentEnds/Closes`, `OpenFails`, list, copy, play |
| `CircularRecording` | the ring of option -c: callback and save | `CallbackLists/Copies/Advances/KeepsHeader`, `MainSizes/WritesEnd/WritesStart` |
| `MmalPort` | one port of a VideoCore component, with its callers and its action thread | one action per lock taken or given, per call of the client, per message |
| `PortLoan` | abstract: a port that borrows headers between open and closed | `Open Lend GiveBack Refuse Reopen Close` |
| `MmalClient` | the channel to VideoCore | one action per step of a call, of a send and of VCHIQ's callback |
| `*Proofs` | theorems of the module of that name (`PreviewProofs`: PreviewPipeline; `ServerProofs`: TrackerControl and SegmentReplay) | |
| `MC*` | constants of the TLC instances | |

`PreviewPipeline` is shown to implement `BufferCycle`, `EventBridge`
`EventChannel`, and `MmalPort` `PortLoan`, each by an `INSTANCE … WITH` mapping
inside the detailed module and the abstract `Spec` as a property. The three models of raspiballs meet at
named borders: `CameraSession` makes and destroys the preview as a whole
(`worker`, `previewPool`), `PreviewPipeline` has its inside; `CallbackWrites` of
`CameraSession` stands for what `SegmentReplay` does to files; the messages
`BallAnalysis` sends are numbers in `EventBridge`. What `PreviewPipeline` and
`CameraSession` take for granted of a port (a callback for each header, a
disable that waits for all of them) is what `MmalPort` shows; a port's calls and
transfers are the calls and sends of `MmalClient`.

### Correspondence, where it is not one to one

* **BallAnalysis.** Floats are integers on a grid. The smoothed edge
  `0.98*old + 0.02*new` may become any grid value between old and new, which
  covers every rounding. `frameNumber'` is the call's frame. Every early return
  is a disjunct (`NoGoal`, `GoalTooSoon`, `GoalAnnounced`). `shotFrame` is a
  history variable. The walk for the scorer is a recursive function.
* **PreviewPipeline.** `pool`, `port`, `queue`, `hand`, `bound`, `cb` are the
  places a header may be; `fault` records who touches memory already destroyed.
  MMAL is external: a port holds what it is sent and returns it by a callback.
  Errors of drawing do not occur in the model: `update_texture` and `redraw` of
  the ball scene return 0 always.
* **EventBridge.** A message is its number. The kernel's FIFO is external: open
  without blocking fails without a reader; a reader blocked in `open` counts as
  one; a read returns nothing only when empty and without a writer. `client_left` may
  raise (`HandlerFails`): then nobody removes the client or closes the socket, and
  the thread's end leaves a closed client in the list (`stale`). A thread may
  also end with its connection up.
* **TrackerControl.** `heartbeatTimer` above 5 is one value, `Past` (it starts
  at 1000). A Python statement that reads or writes `camprocess` is one step. A
  leaving client is looked up, stops the tracker if it counts itself the last, and
  is removed; a look-up during which another thread cut the list (`jolted`) may
  miss its client, who is then `unseen`: `client['id']` raises before the stop.
* **CameraSession.** Every call that can fail has the failing disjunct, with the
  clean-up the code does at that place. A header whose send fails (main's first
  ones, the callback's) is only logged, with the port enabled or not: it is `lost`.
  The callback that runs into an empty queue sends nothing. In raw mode
  without the splitter's pool main crashes on it. Joining a thread that was never created
  is undefined behaviour: the model lets main go on or crash. A splitter is
  made and enabled but no connection leads to it (main's branch is under
  `if (0)`), so its buffers do not move.
* **SegmentReplay.** A file is the chunk in it; time is the order of last
  modification. A stdio stream modifies its file when its buffer is flushed,
  and again at `fclose`; a file opened anew is modified at once.
* **CircularRecording.** A byte is its number in the stream, a slot of the ring
  holds a byte or none. One call of the callback is three steps (list, copy,
  advance), since main looks at each part without a lock. What `fwrite` reads
  beyond the ring is the value `Outside`. `disturbed`, `sparse` and `crowded` (a
  full list) are history.
* **MmalPort.** A step is what is done under one lock, or one call out. The
  connection lock and the port lock are taken together and are one. The
  semaphore `transit_sema` is up just when the count is 0, so the wait is a guard.
  A header counts as lent until the client's callback has it. The client may
  send again from its callback, as the tracker's do, but does not enable,
  disable or flush from there. A send that fails has left no message with
  VideoCore, which is an assumption: in mmal_vc_client.c:664-671 the message is queued
  before the transfer that may fail. `MmalClient` has that case (`broken`).
* **MmalClient.** A message is its call's number; VCHIQ keeps the order of
  messages and of transfers, each for itself, and may refuse any of them; the
  server answers in any order. `broken` is history: what VCHIQ has refused.
  A buffer's port is behind `toHost`, in `MmalPort`.

## 3. Runs

Twelve runs. The two with `expect: violation` check a statement of the code's
own documentation that the code does not keep.

| run | question | instance | distinct states |
|---|---|---|---|
| `ball_analysis` | do the counters, the ring, SAVE, goals, their sides and the scorer fit together over every sequence of frames, while the field drifts? | ring 4, SAVE after 3, loss at 1, gap 4, 3 positions, 9 frames, the field anywhere between that of the start and the smallest box | 1.7 million |
| `preview_pipeline` | three threads and every moment of stopping; refinement; liveness | 3 buffers, 2 buffers without a frame | 80,282 |
| `event_bridge` | order, losses and reach with clients that come and go; refinement | 2 clients, FIFO of 2, 3 messages | 5.0 million, up to the symmetry of clients |
| `event_liveness` | does the read thread ever rest on a message it could send? | 2 clients, 2 messages | 1.9 million |
| `tracker_control` | which faults need two threads in start/stop at once, and do trackers end? | 2 clients, 2 processes | 565,831 |
| `heartbeat_comment` (violation) | does a tracker stop that went more than five rounds without heartbeats? | same, with the count of rounds | |
| `camera_session` | headers, order of teardown, every failing path, termination | 3 headers | 30,266 |
| `segment_replay` | what replays list and copy while the recording goes on | 4 files, replays of 2, 2 replays, 5 openings | 1.4 million, up to the symmetry of replays |
| `circular_recording` | ring, list and save over every stream of chunks | ring of 4, chunks of 1 or 2, list of 3, 9 bytes | 2.9 million |
| `circular_save` (violation) | is the file the recording? | same | |
| `mmal_port` | the count, order, refinement and the end of a disable under every interleaving and refusal | 2 headers, 1 context, 1 event, 1 sender, 2 controlling threads | 139,989 |
| `mmal_client` | answers, waiters, transfers, uses | 2 threads, 1 waiter, 2 buffers, 3 calls | 2.7 million, up to the symmetry of threads and buffers |

**Bounds.** In `BallAnalysis` the timing constants keep the code's order
(`MissGoal + 1 < SaveDelay < GoalGap`, `Lookback < HistoryCount`), which is all
the proofs use, and 9 frames are enough to wrap a ring of 4 twice and to hold a
possession, a shot, a goal and a second goal. The grid's step is 0.15, the depth
of a goal, so that nothing but the middle of the table lies between the goals of
the smallest box the readout reports (±0.2, on the grid ±0.3), and a sighting that was outside both goals when
it was made is in one later. Three preview buffers allow one
shown, one with the camera and one under way; two is the fewest that work. Two
clients give every race on the list (the one who leaves and the one behind);
three messages fill a FIFO of two. Two processes are the one that a race
orphans and its successor; a third could only repeat it. Three encoder headers
let main hold one, the callback one, and leave one with the encoder. Four
files with replays of two and one ignored let the recording come round while a
copy is under way, as 100, 14 and 1 do. A ring of four and chunks of one or two
bytes give every place of a chunk against the ring's end and against an I-frame;
nine bytes are two laps and one more; a list of three fills, and is all one
I-frame in two bytes needs. Two headers and one context let a header be sent,
queued and refused while the other is on its way back; two controlling threads
meet in every pair of calls. One waiter for two threads makes every call take
the one the other has just left (the code has 16); three calls are two of one
thread around one of the other's.

**Fairness.** Threads and processes are scheduled (weak fairness of each
thread's next step: they are blocked only by what their guards say); that holds for the
clean-up a client's thread has begun, too. The camera
fills buffers it holds, since a running camera does. In the preview and the
session a disabled port returns its headers, as `mmal_port_disable` demands. In
`MmalPort` VideoCore returns the headers it has (and all of them before it
answers a disable or a flush: the assertion at mmal_vc_api.c:310-312); the
caller of a control function and the action thread are strongly fair, because
the mutexes they wait for are free again and again, and VCOS's mutexes let
nobody wait forever; and whoever drains the component's queue comes to its end
(`Drained`), which needs VideoCore not to send events without pause. Not
assumed: that users type, clients speak or stay, the encoder produces, that a
wait method other than a timed one ends, or that anyone enables, disables,
flushes or sends. `MessagesGoOut`, `AllGoneStops`, `TeardownEnds` and
`DisableReturns` hold under just that.

**Deadlock** is checked except where the bounded number of frames, bytes or
messages ends the behaviour (`ball_analysis`, `circular_recording`,
`circular_save`, `event_bridge`, `event_liveness`).

Every module but the abstract ones has a type invariant `TypeOK`, which is
proved (section 4) and left out of the runs: they ask what could be wrong with
the code.

Every property has a mutant in `PROJECT.json`: a definition changed as a
plausible bug would change it, under which TLC finds the property violated.

## 4. Proofs

Proved by TLAPS for every value of the constants that meets the named
assumptions (`GeometryAssumption`, `TimingAssumption`, `BuffersAssumption`,
`BridgeAssumption`, `ControlAssumption`, `ReplayAssumption`, `SessionAssumption`,
`RingAssumption`, `PortAssumption`, `ClientAssumption`; TLC evaluates each in a run).

* **`BallAnalysisProofs`** - `TypeCorrectness`, `GoalsAreOnBallsSide`,
  `NewestSightingHolds`, `SavesOnTime`, `OneGoalPerLoss`, `ShotInGoalIsNoSave`,
  `CreditIsTheHistorys`.
  The invariant `Inv` joins to the types: each smoothed field leaves the centre
  between the goals (a sighting in one of its goals then lies on that goal's side of
  the table, whichever field it was made with: `GoalSide`, `AnnouncedGoal`); the
  ring's newest slot carries the frame that `ballMissing` counts from; and a
  pending SAVE counts from `shotFrame` with no goal announced since. The last
  is what the action properties need: a SAVE's moment and a goal's moment are
  compared through the frames both count from, and `MissGoal + 1 < SaveDelay`
  makes the goal come first. `CreditIsTheHistorys` compares a walk that counts with a
  definition that does not count. The walk is a recursive function over the
  sightings: that one exists which satisfies its equation (`WalkExists`), and what it
  has found after k steps (`WalkFinds`), is induction over k, which rests on the
  library's `WFMin` (every non-empty set of naturals has a least element:
  `LeastNatural`, `UpTo`). After k steps the walk is still `Looking`, counting the
  one `Trail` of its player while no possession has ended yet, or has `Found` the
  first end of one; the division in `getPlayerBar` keeps bars within 0..8.
* **`PreviewProofs`** - `TypeCorrectness`, `BuffersInOnePlace`, `FrameStays`,
  `RoundKeepsItsSize`, `FaultsConfined`, `PipelineImplementsCycle`, for any pool. That each buffer is in
  one place is not inductive: it needs to know when the worker holds one
  (`WorkerHolds`), what main has destroyed (`MainProgress`) and who set
  `preview_stop` (`WhoStopped`). Lemmas on sequences without repetition carry
  it through the queue. For the refinement every step of the worker, the
  callback and main is one of `BufferCycle` or leaves its variables alone; this
  needs one thing more: a worker that has not sent a
  buffer yet, or is at its end, has no frame to drop before the preview is
  stopped (`NothingYet`).
* **`EventBridgeProofs`** - `TypeCorrectness`, `NothingIsLost`, `ListedHear`,
  `OnlyRacesLeaveListed`, `BridgeImplementsChannel`, for any number of clients
  and messages and any FIFO. `IInv` ties the thread's buffer and the FIFO to the
  end of the log (`Rest`), what each client heard last to the walk's place in
  the list (`Heard`, `Walked`: the walk never comes to anyone twice, for a
  removal only moves clients towards it), and a look-up to what is still ahead
  of it (`Searched`). A closed client that is still listed was missed by the look-up of
  its own clean-up, which a removal on another thread had cut short; a clean-up
  that `client_left` broke off (`failed`, `stale`) is another case, and said so. Two lemmas say what `append` and `list.remove` do to a list
  without repetition.
* **`CameraSessionProofs`** - `TypeCorrectness`, `HeadersAreAccounted`,
  `QueueHoldsEnough`, `CallbackHasItsParts`, `PartsGoInOrder`, `LeavesNothing`,
  `TeardownIsFinite`, for any number of headers. `IInv` says which parts and ports there are at
  each stage of main (`StagesUp`, `StagesDown`), that headers travel only
  between the first send and the end of the flush (`Quiet`), that the queue
  always holds what main has yet to take and one for the callback (`Dry`), whatever
  sends have failed: a header that is `lost` was the queue's before.
  `TeardownIsFinite` gives the teardown a measure, `WorkLeft`: main's stages, the
  callback's steps, and six for each header with the encoder. Once the encoder's
  port is disabled every step makes it less, and while main waits the callback or
  the encoder has a step to take. With the fairness of section 3 that is why
  `TeardownEnds` holds; a theorem of it would need `ENABLED`.
* **`CircularRecordingProofs`** - `TypeCorrectness`, `RingIsCurrent`,
  `OverreadIsARace`, `ListIsOfIFrames`, `SaveBeginsAtOldest`, for any ring, list
  and longest chunk. The ring's content
  in the midst of a chunk is what the next lap's slots have already (`RingNow`,
  with `Laps` for the count of bytes), and main's sizes fit the read position
  they were computed from until the callback runs (`SizesHold`). Each entry of
  the list stands for a byte of the stream, the one its slot was last given
  (`ByteOf`): the entries are in the order of these bytes (`InOrder`), the last is
  the newest I-frame (`FrameIsNewest`), and no I-frame still in the ring is missing
  until the list is full (`AllThere`). So the first entry not overtaken, which the
  callback moves to, is the oldest I-frame there is; and the two copies of a save
  are the bytes from there on, whether the ring has wrapped or not (`WrapKnown`,
  `Plan`, `Written`).
* **`MmalPortProofs`** - `TypeCorrectness`, `CountIsRight`, `WayBackIsThere`,
  `QueueIsNotOvertaken`, `PortImplementsLoan`, `SomeoneCanGo`, for any number of
  headers, events and threads. `IInv`
  says that a header is in one place (`Apart`), which of the three locks each
  stage of a call has (`Held`, `Kept`), when the port's queue may hold headers
  (`Queued`), and that the count is that of `Lent` and the calls of the client.
  The steps that move headers are put into five classes first (none moves, one
  is lent, one refused, one handed to the client, one counted off); count and
  refinement are then each five short cases. `SomeoneCanGo` is about waiting: while a
  call is under way or a mutex is held, VideoCore has a header to return or some
  thread is `Ready`, which states the guard of its next step. Whoever holds a mutex is
  where its code has taken it (`SendHeld`, `ActHeld`, `PortHeld`): the holder of the
  sending lock never waits, that of the action lock waits for the sending lock only, that
  of the port lock for either or for headers in transit; and a header that came
  back has the action thread up or its event set (`Woken`). A disable that
  waits while nothing else moves would, by the count, wait for nothing.
* **`MmalClientProofs`** - `AnswersAreOwn`, `WaitersStayApart`,
  `TransfersFollow`, `ServiceIsAwake`, `StreamInOrder`, `CallsComeToAnEnd`,
  `TypeCorrectness`, for any
  number of threads, waiters, calls and buffers. `IInv` counts threads by the stage of their call: those inside are
  `refcount` (`Counted`), those that use the service at most `usecount`
  (`Awake`), and tickets, with the threads on the way between ticket and waiter,
  at most the free waiters (`Tickets`). Calls have their waiters for themselves
  (`Holders`), who has announced a transfer has the lock (`Locked`, `Followed`),
  and every message with VideoCore is the one of a call that still waits at its
  waiter (`Answered`), which makes the answer the call's own. For the way back,
  what VideoCore sent and what is under way keep in step (`InStep`): the same
  buffers but the empty ones, in the same order, although any one of them may be
  taken out; lemmas say what a sequence is without one place (`Closes`, `Taken`).
  `CallsComeToAnEnd` says that some thread is `Ready`, or VideoCore has a message to
  answer, while a call is under way or `bulk_lock` is held: tickets and free waiters
  are equal in number while the client is open (`Tickets`), every waiter in use is some
  call's (`Owned`), a lock's holder has a transfer ahead (`Spanned`), and a call that
  waits was answered or VideoCore has a message that names its waiter (`Asked`), even
  if answers went to the wrong calls after a refused transfer.
* **`ServerProofs`** - two parts, on what the server does. *Control*:
  `ControlTypes`, `SoundWhileSerial`, for any number of clients and processes. While nobody has been in `startTracking` or
  `stopTracking` together with another (`raced`), a start that found no process
  still has none to overwrite (`StartSawNone`), a stop past its test still has its
  handle (`StopHasHandle`), and every process that runs on is the one in
  `camprocess` or was terminated (`NoOrphan`, `OneStays`).
  *Recording*: `RecordingTypes`, `ListingIsLatest`, `CopyIsListing`, for any number
  of files, chunks and replays that meets `ReplayAssumption` (at least one recent
  chunk is left out, as `ignore_recent_chunks=1` in generate-replay.sh has it). A
  file of this tracker is at least as many turns old as the count is past its slot
  (`Round`), so a chunk is overwritten only `Wrap` turns after it was begun. `ls`
  finds the files in the order of recording but for the one or two still being
  written (`InOrder`, with `Loose` for those), all but these are complete
  (`Complete`), and no file is as new as the one being written, nor any other as
  new as the one being closed (`Newest`). That gives the listing. Afterwards a listed chunk that is not copied
  yet is still in its file as long as it is young enough (`Waiting`), and a copied
  one is in the replay file unless another writes that (`Copied`).

Each rests on three facts, `Init => IInv`, `IInv /\ [Next]_vars => IInv'`, and
`IInv` implies the property; the middle one has a step per action. TLC found
each `IInv` to be an invariant before it was proved.

Every invariant, action property and refinement of the passing runs is proved.
**Only model-checked:** the temporal properties that need fairness
(`FramesKeepComing`, the two `TeardownEnds`, `MessagesGoOut`, `AllGoneStops`,
`HeartbeatLossStops`, `AbortEndsTimed`, `DisableReturns`): liveness and `ENABLED` are
beyond the prover. `SomeoneCanGo`, `CallsComeToAnEnd` and `TeardownIsFinite` are what
can be proved towards them: that somebody's guard is true, and that the work gets
less. TLC found the guards they state to be those of the steps
they stand for.

## 5. What the code does otherwise than it says

With a run (see `findings`):

* `heartbeat_comment`: the tracker is stopped on one round only, when the timer
  is exactly 5; a tracker started past it runs on without heartbeats (in the
  trace for six rounds, and nothing on the way to stop it).
* `circular_save`: with the oldest I-frame before the write position of a ring
  that has wrapped, the file goes on after the newest bytes with bytes a lap
  old.

Noticed, without a run:

* BallAnalysis.c:106 says of side 1 "goal for red, scored by blue"; the walk
  passes over the bars of team 1, which are the blue ones (lines 84-91, 119), so
  that the goal is credited to a red bar.
* BallAnalysis.c:143: a goal noticed on the very frame a SAVE falls due does
  not interrupt it: both are sent (line 145). With the code's constants a
  shot that itself ends in the goal never meets this (`ShotThenGoalIsNoSave`);
  a later, slower one may.
* BallAnalysis.c:169 and 172 give different spans for the previous sighting.
* RaspiTexBalls.c:455: "all buffers returned" on exit is not so of the last
  frame shown, nor of one taken from the queue after the stop (`lost` in the
  model). The comment at line 376 says that a frame is drawn without a new
  buffer too; that code is under `#if 0`.
* RaspiBalls.c:3025 says that ports not on connections are disabled; the
  preview's is not, until the camera is destroyed.
* `raspitex_stop` says that it stops rendering; after an end of stream it does
  not join, and the pool goes under a worker that may be drawing
  (`FaultsHaveTheirCause` has it as one of the causes).
* A failed write sets `abort`, which only the timed wait reads; `-t 0`, as
  run-camera.sh starts the tracker, never does: hence `AbortEndsTimed` for the
  timed waits only.
* generate-replay.sh leaves out the newest file, as the one being recorded; the next file
  is opened before the last is closed, so that for a moment the file left out is
  the complete one (`ListsTheLatest` is about the other moments).
* RaspiBalls.c:1362: a chunk that ends exactly at the end of the ring leaves
  `cb_wrap` at 0, and a save before the next lap is full drops that lap:
  `SavesFromOldest` excepts it, as it does a list that was full: the two positions
  meet (1334), and all entries but the newest are lost. RaspiBalls.c:2833 computes the ring's length in
  an int from bit rate and time, unchecked. RaspiBalls.c:1370 looks at three bytes
  behind an entry, beyond the ring's end for the last ones.
* BallAnalysis.c:203: `lastGOAL` starts at 0, as if a goal had been scored at
  frame 0; one in the first 49 frames is dropped.
* balltrack_websocket.py:40: `camprocess` stays set when the tracker exits by
  itself; a start does nothing until a stop.
* websocket_server.py:147: when `client_left` raises (`stopTracking` may, at
  balltrack_websocket.py:47) the client stays listed and its socket open. When the
  look-up before it has missed the client (146, on a list that was cut), it is
  balltrack_websocket.py:66 that raises, and the tracker runs on with nobody there.
* RaspiBalls.c:2907 and 1503: a header whose send fails goes into no queue; each
  one makes the encoder's round smaller for good.
* A write into a full FIFO fails unnoticed (BallAnalysis.c:35): a goal may be
  dropped whose scorer is told. A tracker started again begins at the first
  file, and a replay soon after reaches into its predecessor's chunks. The scorer is
  found with the field of the moment, in which old sightings may be on other bars.
  The models have all three, and no property is against them: nothing promises
  otherwise.
* mmal_port.c:921: an event's callback is tested and called without a lock
  against a disable that clears it; only VideoCore's silence on a disabled port
  prevents it.
* mmal_vc_component_enable takes "not supported" for success, where
  mmal_vc_component_disable hands it on and the core pauses the ports instead:
  nobody resumes them then.
* mmal_vc_api.c:641-651 returns from a send without giving its context back.
* mmal_vc_client.c:589: a call that VideoCore does not answer waits forever.
* RaspiBalls.c:2940 pauses the capture before the circular buffer is saved; by
  the X key or when the time is over (2970) it is saved while capturing.

## 6. Not modelled

* *Image readout*: GL and floating point. What it may report is the input of
  `BallAnalysis`; its arithmetic on one frame (401-547) has no state.
* *Demo mode, zoom, camera settings, command line*: no state that interacts.
* *Bytes of WebSocket frames, motion vectors, timestamps, the player.*
* *A port that refuses a running preview's buffer*, and writes that fail within
  `SegmentReplay` (in `CameraSession` they fail).
* *Of MMAL*: two ports connected by a tunnel, which share their pool and take
  each other's locks; formats, parameters, statistics and clocks; an event's
  header sent back; an event's own bulk transfer; a payload inside a message; the
  components that run on the ARM.
* *The rest of the tree*: VCHIQ (its order and its refusals are assumptions of
  `MmalClient`), VCOS (mutexes, semaphores and events are guards), the Khronos
  clients, containers, device tree tools, demos and the other raspicam programs.
  They are vendored, the tracker changes none, and most are never run by it.

## 7. Plan

Written, the most important first: 1 `BallAnalysis` and its proofs; 2
`PreviewPipeline`, `BufferCycle`, proofs; 3 `EventBridge`, `EventChannel`, proofs; 4
`TrackerControl`, proofs; 5 `SegmentReplay`, proofs; 6 `CameraSession`, proofs; 7
`CircularRecording`, proofs; 8 `MmalPort`, `PortLoan`, proofs; 9 `MmalClient`, proofs.

To come:

10. The readout of a small image against a reference definition.
11. Tunnelled connections of ports.
12. `BallAnalysis` composed with `EventBridge`: what of a goal's two messages
    the clients may hear.
