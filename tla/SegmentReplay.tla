--------------------------- MODULE SegmentReplay ---------------------------
(***************************************************************************)
(* The recording the replays are cut from.  The encoder's callback of the  *)
(* tracker (encoder_buffer_callback in segment mode) writes the video into *)
(* files out0001 .. out0100, a new one at every inline header, and begins  *)
(* anew after the last.  generate-replay.sh lists them by modification     *)
(* time, leaves the most recent out, and copies the ones before it into    *)
(* one file; it runs once per request, in the thread of the client.        *)
(*                                                                         *)
(* A file is known by the chunk of video in it.  What is kept of time is   *)
(* the order of the last modifications.                                    *)
(***************************************************************************)
EXTENDS Naturals, Sequences, SequencesExt

CONSTANTS
    Wrap,           \* -wr: files to use
    Chunks,         \* replay_chunks
    Ignore,         \* ignore_recent_chunks
    Replayers,      \* replays asked for
    MaxTurns        \* bound: openings tried

ASSUME ReplayAssumption ==
    /\ Wrap \in Nat \ {0} /\ Chunks \in Nat \ {0}
    /\ Ignore \in Nat \ {0} /\ MaxTurns \in Nat

Slots == 1 .. Wrap

VARIABLES
    segmentNumber,
    handle,     \* the slot of the file being written; 0 without a tracker
    closing,    \* the slot of the last file until it is closed, or 0
    stream,     \* the stream: "fresh", "flushed", or it holds a "rest"
    file,       \* slot -> what is in the file
    recent,     \* the slots with a file, the last modified at the end
    turn,       \* history: openings tried so far; a chunk is named by its own
    first,      \* history: turn of the first chunk of this tracker
    pc, list,   \* where each replay is, and the slots it has yet to copy
    offset,     \* where in the replay file each writes next
    replay,     \* the chunks in the replay file
    seen,       \* history: what was in the files a replay listed
    calm,       \* history: replays that listed at a settled moment
    left,       \* history: the chunks in the files a replay did not list
    clash       \* history: replays whose file another emptied or wrote too

recorder  == <<segmentNumber, handle, closing, stream, file, recent, turn, first>>
observers == <<seen, calm, left>>
replays   == <<pc, list, offset, replay, seen, calm, left, clash>>
vars == <<segmentNumber, handle, closing, stream, file, recent, turn, first, pc, list,
          offset, replay, seen, calm, left, clash>>

NoChunk == [turn |-> 0, whole |-> FALSE]

Init ==
    /\ segmentNumber = 1 /\ handle = 0 /\ closing = 0 /\ stream = "fresh"
    /\ file = [s \in Slots |-> NoChunk] /\ recent = <<>>
    /\ turn = 0 /\ first = 1
    /\ pc = [r \in Replayers |-> "idle"] /\ list = [r \in Replayers |-> <<>>]
    /\ offset = [r \in Replayers |-> 0] /\ replay = <<>>
    /\ seen = [r \in Replayers |-> <<>>] /\ calm = {}
    /\ left = [r \in Replayers |-> {}] /\ clash = {}

---------------------------------------------------------------------------
(* The tracker.                                                            *)

Touch(order, s) == Append(RemoveFirst(order, s), s)

\* open_filename truncates whatever the slot held.
Opened(s) == [file EXCEPT ![s] = [turn |-> turn + 1, whole |-> FALSE]]

TrackerStarts ==
    /\ handle = 0 /\ turn < MaxTurns
    /\ segmentNumber' = 1 /\ handle' = 1 /\ stream' = "fresh"
    /\ file' = Opened(1) /\ recent' = Touch(recent, 1)
    /\ turn' = turn + 1 /\ first' = turn + 1
    /\ UNCHANGED <<closing, replays>>

\* The tracker is killed: what was not written yet is lost.
TrackerStops ==
    /\ handle # 0 /\ handle' = 0 /\ closing' = 0 /\ stream' = "fresh"
    /\ UNCHANGED <<segmentNumber, file, recent, turn, first, replays>>

\* fwrite: the stream keeps the data, or writes some of it or all into the file.
Writes ==
    /\ handle # 0 /\ closing = 0
    /\ \/ stream' = "rest" /\ recent' \in {recent, Touch(recent, handle)}
       \/ stream' = "flushed" /\ recent' = Touch(recent, handle)
    /\ UNCHANGED <<segmentNumber, handle, closing, file, turn, first, replays>>

\* Mutant: one file too few is used.
NextSegmentEarly == IF segmentNumber + 1 >= Wrap THEN 1 ELSE segmentNumber + 1
NextSegment == IF segmentNumber + 1 > Wrap THEN 1 ELSE segmentNumber + 1

\* At a header, when the segment is long enough, the next file is opened ...
SegmentEnds ==
    /\ handle # 0 /\ closing = 0 /\ stream # "fresh" /\ turn < MaxTurns
    /\ segmentNumber' = NextSegment /\ handle' = NextSegment /\ closing' = handle
    /\ file' = Opened(NextSegment) /\ recent' = Touch(recent, NextSegment)
    /\ turn' = turn + 1
    /\ UNCHANGED <<stream, first, replays>>

\* Mutant: the last file is not closed.
SegmentLeft ==
    /\ closing # 0 /\ closing' = 0 /\ stream' = "fresh"
    /\ UNCHANGED <<segmentNumber, handle, file, recent, turn, first, replays>>

\* ... and then the last one is closed, which writes the rest of it.  The header
\* is the first data of the new file.
SegmentCloses ==
    /\ closing # 0 /\ closing' = 0 /\ stream' = "rest"
    /\ file' = IF closing = handle THEN file ELSE [file EXCEPT ![closing].whole = TRUE]
    /\ recent' = IF stream = "rest" THEN Touch(recent, closing) ELSE recent
    /\ UNCHANGED <<segmentNumber, handle, turn, first, replays>>

\* The next file cannot be opened: the last one is written on, under the new
\* number.
OpenFails ==
    /\ handle # 0 /\ closing = 0 /\ stream # "fresh" /\ turn < MaxTurns
    /\ segmentNumber' = NextSegment /\ turn' = turn + 1
    /\ UNCHANGED <<handle, closing, stream, file, recent, first, replays>>

Record ==
    \/ TrackerStarts \/ TrackerStops \/ Writes
    \/ SegmentEnds \/ SegmentCloses \/ OpenFails

---------------------------------------------------------------------------
(* generate-replay.sh.                                                     *)

Over(s, n) == IF Len(s) > n THEN Len(s) - n ELSE 0

\* ls -tr | head -n-$ignore_recent_chunks | tail -n$replay_chunks
Fragments ==
    LET older == SubSeq(recent, 1, Over(recent, Ignore))
    IN  SubSeq(older, 1 + Over(older, Chunks), Len(older))

\* The order of modification is that of the chunks: all of them are of one
\* tracker, and the one being written was the last to be touched.
Settled ==
    /\ handle # 0 /\ closing = 0 /\ recent[Len(recent)] = handle
    /\ \A i \in DOMAIN Fragments : file[Fragments[i]].turn >= first

Lists(r) ==
    /\ pc[r] = "idle"
    /\ list' = [list EXCEPT ![r] = Fragments]
    /\ pc' = [pc EXCEPT ![r] = IF Fragments = <<>> THEN "done" ELSE "listed"]
    /\ seen' = [seen EXCEPT ![r] = [i \in DOMAIN Fragments |-> file[Fragments[i]]]]
    /\ calm' = IF Settled THEN calm \cup {r} ELSE calm \ {r}
    /\ left' = [left EXCEPT ![r] = {file[s].turn : s \in ToSet(recent) \ ToSet(Fragments)}]
    /\ UNCHANGED <<recorder, offset, replay, clash>>

\* The shell empties the replay file before cat begins.
Truncates(r) ==
    /\ pc[r] = "listed" /\ pc' = [pc EXCEPT ![r] = "copy"]
    /\ replay' = <<>> /\ offset' = [offset EXCEPT ![r] = 0]
    /\ clash' = LET others == {q \in Replayers : pc[q] \in {"copy", "done"}}
                IN  IF others = {} THEN clash \ {r} ELSE clash \cup others \cup {r}
    /\ UNCHANGED <<recorder, list, observers>>

\* Mutant: every file is written at the start.
CopiesOver(r) ==
    /\ pc[r] = "copy" /\ list[r] # <<>>
    /\ replay' = <<file[Head(list[r])]>>
    /\ list' = [list EXCEPT ![r] = Tail(@)] /\ offset' = [offset EXCEPT ![r] = 1]
    /\ UNCHANGED <<recorder, pc, observers, clash>>

\* cat copies file after file, to where it is in the replay file; what another
\* has emptied meanwhile reads as nothing.
Copies(r) ==
    /\ pc[r] = "copy" /\ list[r] # <<>>
    /\ replay' = [i \in 1 .. (IF offset[r] + 1 > Len(replay) THEN offset[r] + 1
                              ELSE Len(replay)) |->
                    IF i = offset[r] + 1 THEN file[Head(list[r])]
                    ELSE IF i <= Len(replay) THEN replay[i] ELSE NoChunk]
    /\ list' = [list EXCEPT ![r] = Tail(@)]
    /\ offset' = [offset EXCEPT ![r] = @ + 1]
    /\ UNCHANGED <<recorder, pc, observers, clash>>

Ends(r) ==
    /\ pc[r] = "copy" /\ list[r] = <<>> /\ pc' = [pc EXCEPT ![r] = "done"]
    /\ UNCHANGED <<recorder, list, offset, replay, observers, clash>>

\* The player has been started; another replay may be asked for.
Plays(r) ==
    /\ pc[r] = "done" /\ pc' = [pc EXCEPT ![r] = "idle"]
    /\ offset' = [offset EXCEPT ![r] = 0] /\ seen' = [seen EXCEPT ![r] = <<>>]
    /\ left' = [left EXCEPT ![r] = {}]
    /\ calm' = calm \ {r} /\ clash' = clash \ {r}
    /\ UNCHANGED <<recorder, list, replay>>

Generate(r) == Lists(r) \/ Truncates(r) \/ Copies(r) \/ Ends(r) \/ Plays(r)

Next == Record \/ \E r \in Replayers : Generate(r)

Spec == Init /\ [][Next]_vars

---------------------------------------------------------------------------
(* Properties.                                                             *)

ChunkType == [turn : 0 .. MaxTurns, whole : BOOLEAN]

\* Every variable keeps its type; in particular the count never leaves the
\* slots, and each slot is listed once.
TypeOK ==
    /\ segmentNumber \in Slots /\ handle \in Slots \cup {0}
    /\ closing \in Slots \cup {0} /\ stream \in {"fresh", "rest", "flushed"}
    /\ file \in [Slots -> ChunkType]
    /\ recent \in Seq(Slots) /\ IsInjective(recent)
    /\ turn \in 0 .. MaxTurns /\ first \in 1 .. MaxTurns + 1
    /\ pc \in [Replayers -> {"idle", "listed", "copy", "done"}]
    /\ list \in [Replayers -> Seq(Slots)] /\ offset \in [Replayers -> 0 .. Chunks]
    /\ replay \in Seq(ChunkType) /\ seen \in [Replayers -> Seq(ChunkType)]
    /\ calm \subseteq Replayers /\ clash \subseteq Replayers
    /\ left \in [Replayers -> SUBSET (0 .. MaxTurns)]

\* At a settled moment the files listed are complete chunks in their order, and
\* the latest but those ignored: none of the files left out falls between.
ListsTheLatest ==
    \A r \in calm : pc[r] = "listed" =>
        /\ \A i \in DOMAIN seen[r] : seen[r][i].whole
        /\ \A i, j \in DOMAIN seen[r] : i < j => seen[r][i].turn < seen[r][j].turn
        /\ LET later == {t \in left[r] : t > seen[r][1].turn}
           IN  /\ Cardinality(later) = Ignore
               /\ \A t \in later, i \in DOMAIN seen[r] : seen[r][i].turn < t

\* What a replay copied is what it listed, chunk by chunk, unless another
\* used the replay file before it was played, the tracker was started again, or
\* the recording has come round to one of its files.
CopiesWhatItListed ==
    \A r \in Replayers \ clash :
        (/\ pc[r] = "done" /\ seen[r] # <<>>
         /\ \A i \in DOMAIN seen[r] :
                first <= seen[r][i].turn /\ turn - seen[r][i].turn < Wrap)
            => /\ Len(replay) = Len(seen[r])
               /\ \A i \in DOMAIN replay :
                    /\ replay[i].turn = seen[r][i].turn
                    /\ seen[r][i].whole => replay[i].whole
=============================================================================
