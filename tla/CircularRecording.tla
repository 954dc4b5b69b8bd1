------------------------- MODULE CircularRecording -------------------------
(***************************************************************************)
(* The recording into a ring in memory (option -c): the encoder's callback *)
(* copies each chunk of the video into cb_buff, round and round, and keeps *)
(* a list of where I-frames start; main, when it is told to, writes the    *)
(* ring to the file, from the oldest I-frame on.  main takes no lock and   *)
(* the encoder is still enabled then.                                      *)
(*                                                                         *)
(* A byte is known by its number in the stream, counted from 0.            *)
(***************************************************************************)
EXTENDS Integers, Sequences

CONSTANTS
    BufLen,         \* cb_len, in bytes
    ListLen,        \* IFRAME_BUFSIZE
    MaxChunk,       \* the longest chunk the encoder returns
    HeaderRoom,     \* sizeof header_bytes
    MaxBytes        \* bound: bytes encoded

ASSUME RingAssumption ==
    /\ BufLen \in Nat \ {0} /\ MaxChunk \in 1 .. BufLen
    /\ ListLen \in Nat \ {0}
    /\ HeaderRoom \in Nat /\ MaxBytes \in Nat

Slots   == 0 .. BufLen - 1
Entries == 0 .. ListLen - 1
None    == -1       \* frame_start between frames; a slot never written
Outside == -2       \* what is read beyond the end of the ring

VARIABLES
    cb_buff, cb_wptr, cb_wrap,
    iframe_buff, iframe_buff_wpos, iframe_buff_rpos,
    header_wptr,
    frame_start,    \* static in the callback
    chunk,          \* the buffer in the callback, or the last: [length, key]
    cb,             \* where the callback is
    total,          \* history: bytes in the ring so far, the overwritten ones too
    starts,         \* history: the bytes that start an I-frame
    sparse,         \* history: a chunk ran over the newest I-frame before it
    crowded,        \* history: an entry was added to a list that was full
    filled,         \* history: a chunk ended exactly at the end of the ring
    main,           \* where main is
    copy_from_end, copy_from_start,
    origin,         \* history: the read position when main computed the sizes
    upto,           \* history: total at that moment
    saved,          \* the bytes written to the file, without the header
    disturbed       \* history: the callback ran while main was saving

list     == <<iframe_buff, iframe_buff_wpos, iframe_buff_rpos>>
writing  == <<cb_buff, cb_wptr, cb_wrap, total, filled>>
incoming == <<list, writing, header_wptr, frame_start, chunk, cb, starts, sparse, crowded>>
saving   == <<main, copy_from_end, copy_from_start, origin, upto, saved>>
vars     == <<incoming, saving, disturbed>>

Init ==
    /\ cb_buff = [s \in Slots |-> None] /\ cb_wptr = 0 /\ cb_wrap = FALSE
    /\ iframe_buff = [e \in Entries |-> 0]
    /\ iframe_buff_wpos = 0 /\ iframe_buff_rpos = 0 /\ header_wptr = 0
    /\ frame_start = None /\ chunk = [length |-> 1, key |-> TRUE] /\ cb = "idle"
    /\ total = 0 /\ starts = {}
    /\ sparse = FALSE /\ crowded = FALSE /\ filled = FALSE
    /\ main = "capture" /\ copy_from_end = 0 /\ copy_from_start = 0
    /\ origin = 0 /\ upto = 0 /\ saved = <<>> /\ disturbed = FALSE

Saving == main \in {"sized", "half"}

---------------------------------------------------------------------------
(* encoder_buffer_callback with a ring, for the three kinds of buffers.    *)

\* Mutant: an entry is passed a byte late.
OvertakenLate(p, length) ==
    \/ cb_wptr <= p /\ cb_wptr + length > p + 1
    \/ cb_wptr > p /\ cb_wptr + length > p + BufLen + 1

\* The chunk to be written covers the I-frame that starts in slot p.
Overtaken(p, length) ==
    \/ cb_wptr <= p /\ cb_wptr + length > p
    \/ cb_wptr > p /\ cb_wptr + length > p + BufLen

NextEntry(e) == (e + 1) % ListLen

\* The read position after "move the rptr along": the first entry not overtaken.
Passes(entries, length, r) ==
    \E k \in Entries :
        /\ r = (iframe_buff_rpos + k) % ListLen
        /\ ~Overtaken(entries[r], length)
        /\ \A j \in 0 .. k - 1 :
               Overtaken(entries[(iframe_buff_rpos + j) % ListLen], length)

\* Once anything is in the list the two positions meet only when it is full.
Full == iframe_buff_wpos = iframe_buff_rpos

\* Mutant: every chunk of a key frame is listed where it starts itself.
ChunkStart == cb_wptr

\* Where the frame of the chunk being written starts.
FrameStart == IF frame_start = None THEN cb_wptr ELSE frame_start

\* The encoder's stream begins with an I-frame, and all chunks of a frame
\* carry the frame's flag.  What comes after the save is not followed.
CallbackLists ==
    /\ cb = "idle" /\ main # "saved"
    /\ \E length \in 1 .. MaxChunk, key \in BOOLEAN :
        LET entries == IF key THEN [iframe_buff EXCEPT ![iframe_buff_wpos] = FrameStart]
                              ELSE iframe_buff
            wpos    == IF key THEN NextEntry(iframe_buff_wpos) ELSE iframe_buff_wpos
        IN  /\ total + length <= MaxBytes
            /\ total = 0 => key
            /\ frame_start # None => key = chunk.key
            /\ chunk' = [length |-> length, key |-> key]
            /\ iframe_buff' = entries /\ iframe_buff_wpos' = wpos
            /\ starts' = IF key /\ frame_start = None THEN starts \union {total} ELSE starts
            /\ sparse' = (sparse \/ \E s \in starts : /\ \A t \in starts : t <= s
                                                      /\ total + length > s + BufLen)
            /\ crowded' = (crowded \/ (key /\ total > 0 /\ Full))
            /\ frame_start' \in {FrameStart, None}
            /\ \/ /\ NextEntry(iframe_buff_rpos) = wpos
                  /\ cb' = "copies" /\ UNCHANGED iframe_buff_rpos
               \/ /\ NextEntry(iframe_buff_rpos) # wpos
                  /\ \/ /\ Passes(entries, length, iframe_buff_rpos') /\ cb' = "copies"
                     \/ /\ \A e \in Entries : Overtaken(entries[e], length)
                        /\ cb' = "spins" /\ UNCHANGED iframe_buff_rpos
    /\ disturbed' = (disturbed \/ Saving)
    /\ UNCHANGED <<writing, header_wptr, saving>>

\* Mutant: the part that does not fit at the end is not copied to the start.
CallbackCopiesToEnd ==
    /\ cb = "copies" /\ cb' = "advances"
    /\ cb_buff' = [s \in Slots |-> IF s >= cb_wptr /\ s < cb_wptr + chunk.length
                                   THEN total + (s - cb_wptr) ELSE cb_buff[s]]
    /\ disturbed' = (disturbed \/ Saving)
    /\ UNCHANGED <<cb_wptr, cb_wrap, total, filled, list, header_wptr, frame_start, chunk,
                   starts, sparse, crowded, saving>>

CallbackCopies ==
    LET space  == BufLen - cb_wptr
        to_end == IF space > chunk.length THEN chunk.length ELSE space
        to_start == chunk.length - to_end
    IN  /\ cb = "copies" /\ cb' = "advances"
        /\ cb_buff' = [s \in Slots |->
               IF s < to_start THEN total + to_end + s
               ELSE IF s >= cb_wptr /\ s < cb_wptr + to_end THEN total + (s - cb_wptr)
               ELSE cb_buff[s]]
        /\ disturbed' = (disturbed \/ Saving)
        /\ UNCHANGED <<cb_wptr, cb_wrap, total, filled, list, header_wptr, frame_start,
                       chunk, starts, sparse, crowded, saving>>

CallbackAdvances ==
    /\ cb = "advances" /\ cb' = "idle"
    /\ cb_wrap' = (cb_wrap \/ cb_wptr + chunk.length > BufLen)
    /\ cb_wptr' = (cb_wptr + chunk.length) % BufLen
    /\ total' = total + chunk.length
    /\ filled' = (filled \/ cb_wptr + chunk.length = BufLen)
    /\ disturbed' = (disturbed \/ Saving)
    /\ UNCHANGED <<cb_buff, list, header_wptr, frame_start, chunk, starts, sparse, crowded,
                   saving>>

\* A buffer of header bytes is kept apart if there is room for it; one with
\* motion vectors is dropped.
CallbackKeepsHeader ==
    /\ cb = "idle" /\ frame_start = None /\ main = "capture"
    /\ \E length \in 1 .. HeaderRoom :
        /\ header_wptr + length <= HeaderRoom
        /\ header_wptr' = header_wptr + length
    /\ UNCHANGED <<list, writing, frame_start, chunk, cb, starts, sparse, crowded, saving,
                   disturbed>>

---------------------------------------------------------------------------
(* main, after the loop.  A pause before it changes nothing here: what is  *)
(* encoded already still comes to the callback.                            *)

\* Mutant: what is left to the end is counted from where the callback writes.
MainSizesFromWritten ==
    /\ main = "capture" /\ main' = "sized"
    /\ origin' = iframe_buff[iframe_buff_rpos]
    /\ copy_from_end' = IF cb_wrap THEN BufLen - cb_wptr ELSE 0
    /\ copy_from_start' = IF cb_wrap /\ origin' <= cb_wptr THEN origin' ELSE cb_wptr
    /\ upto' = total /\ disturbed' = (cb # "idle")
    /\ UNCHANGED <<incoming, saved>>

MainSizes ==
    /\ main = "capture" /\ main' = "sized"
    /\ origin' = iframe_buff[iframe_buff_rpos]
    /\ copy_from_end' = IF cb_wrap THEN BufLen - origin' ELSE 0
    /\ copy_from_start' = IF cb_wrap /\ origin' <= cb_wptr THEN origin' ELSE cb_wptr
    /\ upto' = total /\ disturbed' = (cb # "idle")
    /\ UNCHANGED <<incoming, saved>>

Slot(s) == IF s \in Slots THEN cb_buff[s] ELSE Outside

\* The read position is read again for the copy.
MainWritesEnd ==
    /\ main = "sized" /\ main' = "half"
    /\ LET from == iframe_buff[iframe_buff_rpos]
       IN  saved' = [i \in 1 .. copy_from_end |-> Slot(from + i - 1)]
    /\ UNCHANGED <<incoming, copy_from_end, copy_from_start, origin, upto, disturbed>>

MainWritesStart ==
    /\ main = "half" /\ main' = "saved"
    /\ saved' = saved \o [i \in 1 .. copy_from_start |-> Slot(i - 1)]
    /\ UNCHANGED <<incoming, copy_from_end, copy_from_start, origin, upto, disturbed>>

Callback == CallbackLists \/ CallbackCopies \/ CallbackAdvances \/ CallbackKeepsHeader
Main     == MainSizes \/ MainWritesEnd \/ MainWritesStart

Next == Callback \/ Main
Spec == Init /\ [][Next]_vars

---------------------------------------------------------------------------
(* Properties.                                                             *)

Bytes == 0 .. MaxBytes

\* Every variable keeps its type: the write position and the entries of the
\* list stay within the ring.
TypeOK ==
    /\ cb_buff \in [Slots -> Bytes \union {None}] /\ cb_wptr \in Slots
    /\ cb_wrap \in BOOLEAN
    /\ iframe_buff \in [Entries -> Slots]
    /\ iframe_buff_wpos \in Entries /\ iframe_buff_rpos \in Entries
    /\ header_wptr \in 0 .. HeaderRoom /\ frame_start \in Slots \union {None}
    /\ chunk \in [length : 1 .. MaxChunk, key : BOOLEAN]
    /\ cb \in {"idle", "copies", "advances", "spins"}
    /\ total \in Bytes /\ starts \in SUBSET Bytes
    /\ sparse \in BOOLEAN /\ crowded \in BOOLEAN /\ filled \in BOOLEAN
    /\ main \in {"capture", "sized", "half", "saved"}
    /\ copy_from_end \in 0 .. BufLen /\ copy_from_start \in Slots
    /\ origin \in Slots /\ upto \in Bytes /\ disturbed \in BOOLEAN

LapStart == total - cb_wptr

Holds(ring, wptr, lap) ==
    \A s \in Slots : ring[s] = IF s < wptr THEN lap + s
                               ELSE IF lap = 0 THEN None ELSE lap - BufLen + s

\* Between two chunks the ring holds the last BufLen bytes of the stream: before
\* the write position those of this lap, from it on those of the lap before.
RingHoldsLatest == cb = "idle" => Holds(cb_buff, cb_wptr, LapStart)

\* The entries between the two positions.
Listed == {e \in Entries : \E k \in Entries :
               /\ e = (iframe_buff_rpos + k) % ListLen
               /\ \A j \in 0 .. k : (iframe_buff_rpos + j) % ListLen # iframe_buff_wpos}

\* What the callback itself checks at its end ("Error in iframe list"): every
\* entry of the list is the place of an I-frame that is still there.  It, and
\* that the search for the oldest one ends, depend on I-frames that come often
\* enough for one chunk never to run over the newest.
ListHoldsIFrames ==
    ~sparse =>
        /\ cb # "spins"
        /\ cb = "idle" => \A e \in Listed : cb_buff[iframe_buff[e]] \in starts

\* The bytes from the oldest I-frame that is in the ring in full, up to the last.
Recent == LET oldest == CHOOSE s \in starts :
                            /\ s + BufLen >= upto
                            /\ \A t \in starts : t + BufLen >= upto => s <= t
          IN  [i \in 1 .. upto - oldest |-> oldest + i - 1]

Undisturbed == /\ main = "saved" /\ upto > 0
               /\ ~disturbed /\ ~sparse /\ ~crowded /\ ~filled

\* The file begins with all of the stream from the oldest I-frame left up to the
\* newest byte, unless the callback ran during the save, the list had no room for
\* an entry, or a chunk ended exactly at the end of the ring.
SavesFromOldest ==
    Undisturbed => /\ Len(saved) >= Len(Recent)
                   /\ SubSeq(saved, 1, Len(Recent)) = Recent

\* main reads beyond the end of the ring only if the callback moved the read
\* position between the computation of the sizes and the copy.
OverreadNeedsRace ==
    (\E i \in DOMAIN saved : saved[i] = Outside) => disturbed

\* The option's help: "Run encoded data through circular buffer until triggered
\* then save".  The file is what the ring holds and no byte of it twice or late.
SavesTheRing == Undisturbed => saved = Recent
=============================================================================
