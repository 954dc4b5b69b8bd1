---------------------- MODULE CircularRecordingProofs ----------------------
(***************************************************************************)
(* For any ring, list and length of chunks: the types, that the ring holds *)
(* the latest bytes and the list its I-frames, that main reads beyond the  *)
(* ring only in a race, and with what the file it saves begins.            *)
(***************************************************************************)
EXTENDS CircularRecording, TLAPS

\* The chunk under way is within the bound.
ChunkFits == cb # "idle" => total + chunk.length <= MaxBytes

\* The count of bytes and the write position agree on the laps done.
Laps == /\ total >= cb_wptr
        /\ LapStart = 0 \/ LapStart >= BufLen

\* Before the copy the ring is as the last chunk left it; after it, as the
\* next lap's slots and this chunk's have it.
RingNow ==
    /\ cb \in {"idle", "copies", "spins"} => Holds(cb_buff, cb_wptr, LapStart)
    /\ cb = "advances" =>
        IF cb_wptr + chunk.length < BufLen
        THEN Holds(cb_buff, cb_wptr + chunk.length, LapStart)
        ELSE Holds(cb_buff, cb_wptr + chunk.length - BufLen, LapStart + BufLen)

\* What main computed is what it reads, while nobody disturbs it.
SizesHold ==
    /\ main = "sized" /\ ~disturbed =>
           /\ origin = iframe_buff[iframe_buff_rpos]
           /\ cb = "idle"
    /\ main = "sized" => copy_from_end \in {0, BufLen - origin}
    /\ main \in {"capture", "sized"} => saved = <<>>
    /\ main = "half" => /\ saved \in Seq(Int)
                        /\ ~disturbed => \A i \in DOMAIN saved : saved[i] # Outside
    /\ main = "saved" => OverreadNeedsRace

IInv == TypeOK /\ ChunkFits /\ Laps /\ RingNow /\ SizesHold

---------------------------------------------------------------------------
\* An index of the list taken on goes round within it.
LEMMA ModInRange == ASSUME NEW n \in Nat, n > 0, NEW x \in Nat
                    PROVE  x % n \in 0 .. n - 1
  OBVIOUS

\* The new write position: at most one lap ahead.
LEMMA ModOnce == ASSUME NEW n \in Nat, n > 0, NEW x \in 0 .. 2 * n - 1
                 PROVE  x % n = IF x < n THEN x ELSE x - n
  OBVIOUS

\* A value in neither of two sequences is not in the two together.
LEMMA NotInConcat ==
    ASSUME NEW s \in Seq(Int), NEW t \in Seq(Int), NEW v,
           \A i \in DOMAIN s : s[i] # v, \A i \in DOMAIN t : t[i] # v
    PROVE  \A i \in DOMAIN (s \o t) : (s \o t)[i] # v
<1> SUFFICES ASSUME NEW i \in 1 .. Len(s) + Len(t) PROVE (s \o t)[i] # v
  OBVIOUS
<1>1. CASE i <= Len(s)
  BY <1>1
<1>2. CASE i > Len(s)
  <2>1. i - Len(s) \in DOMAIN t /\ (s \o t)[i] = t[i - Len(s)]
    BY <1>2
  <2> QED
    BY <2>1
<1> QED
  BY <1>1, <1>2

LEMMA IsSeq == ASSUME NEW n \in Nat, NEW f \in [1 .. n -> Int]
               PROVE  f \in Seq(Int) /\ DOMAIN f = 1 .. n
  OBVIOUS

LEMMA InitInv == Init => IInv
<1> SUFFICES ASSUME Init PROVE IInv
  OBVIOUS
<1> USE RingAssumption
<1>1. TypeOK
  <2>1. /\ 0 \in Slots /\ 0 \in Entries /\ 0 \in Bytes /\ 0 \in 0 .. HeaderRoom
        /\ 0 \in 0 .. BufLen /\ 1 \in 1 .. MaxChunk
    BY DEF Slots, Entries, Bytes
  <2>2. /\ cb_buff \in [Slots -> Bytes \union {None}]
        /\ iframe_buff \in [Entries -> Slots]
    BY <2>1 DEF Init
  <2>3. chunk \in [length : 1 .. MaxChunk, key : BOOLEAN]
    BY <2>1 DEF Init
  <2> QED
    BY <2>1, <2>2, <2>3 DEF Init, TypeOK
<1>2. ChunkFits /\ Laps /\ RingNow
  BY DEF Init, ChunkFits, Laps, RingNow, Holds, LapStart, Slots, None
<1>3. SizesHold
  BY DEF Init, SizesHold
<1> QED
  BY <1>1, <1>2, <1>3 DEF IInv

\* Where the list is changed nothing else of the ring is.
LEMMA ListsKeeps == IInv /\ CallbackLists => IInv'
<1> SUFFICES ASSUME IInv, CallbackLists PROVE IInv'
  OBVIOUS
<1> USE RingAssumption
<1>1. PICK length \in 1 .. MaxChunk, key \in BOOLEAN :
        LET entries == IF key THEN [iframe_buff EXCEPT ![iframe_buff_wpos] = FrameStart]
                              ELSE iframe_buff
            wpos    == IF key THEN NextEntry(iframe_buff_wpos) ELSE iframe_buff_wpos
        IN  /\ total + length <= MaxBytes
            /\ chunk' = [length |-> length, key |-> key]
            /\ iframe_buff' = entries /\ iframe_buff_wpos' = wpos
            /\ starts' = IF key /\ frame_start = None THEN starts \union {total} ELSE starts
            /\ sparse' \in BOOLEAN /\ crowded' \in BOOLEAN
            /\ frame_start' \in {FrameStart, None}
            /\ cb' \in {"copies", "spins"}
            /\ \/ iframe_buff_rpos' = iframe_buff_rpos
               \/ Passes(entries, length, iframe_buff_rpos')
  BY DEF CallbackLists, IInv, TypeOK
<1>2. FrameStart \in Slots
  BY DEF FrameStart, IInv, TypeOK, Slots, None
<1>3. \A e \in Entries : NextEntry(e) \in Entries
  BY ModInRange DEF NextEntry, Entries
<1>4. iframe_buff_rpos' \in Entries
  <2>1. CASE iframe_buff_rpos' = iframe_buff_rpos
    BY <2>1 DEF IInv, TypeOK
  <2>2. ASSUME NEW k \in Entries, iframe_buff_rpos' = (iframe_buff_rpos + k) % ListLen
        PROVE  iframe_buff_rpos' \in Entries
    BY <2>2, ModInRange DEF IInv, TypeOK, Entries
  <2> QED
    BY <1>1, <2>1, <2>2 DEF Passes
<1>5. TypeOK'
  <2>1. /\ iframe_buff' \in [Entries -> Slots] /\ iframe_buff_wpos' \in Entries
        /\ frame_start' \in Slots \union {None}
    BY <1>1, <1>2, <1>3 DEF IInv, TypeOK
  <2>2. /\ chunk' \in [length : 1 .. MaxChunk, key : BOOLEAN]
        /\ cb' \in {"idle", "copies", "advances", "spins"}
        /\ sparse' \in BOOLEAN /\ crowded' \in BOOLEAN
    BY <1>1
  <2>3. starts' \in SUBSET Bytes
    BY <1>1 DEF IInv, TypeOK, Bytes
  <2>4. disturbed' \in BOOLEAN
    BY DEF CallbackLists, IInv, TypeOK
  <2> QED
    BY <1>4, <2>1, <2>2, <2>3, <2>4 DEF CallbackLists, IInv, TypeOK, writing, saving, Bytes
<1>6. ChunkFits'
  BY <1>1 DEF CallbackLists, ChunkFits, writing
<1>7. Laps' /\ RingNow'
  BY <1>1 DEF CallbackLists, IInv, Laps, RingNow, LapStart, Holds, writing
<1>8. SizesHold'
  BY <1>1 DEF CallbackLists, IInv, SizesHold, Saving, saving, OverreadNeedsRace
<1> QED
  BY <1>5, <1>6, <1>7, <1>8 DEF IInv

LEMMA CopiesKeeps == IInv /\ CallbackCopies => IInv'
<1> SUFFICES ASSUME IInv, CallbackCopies PROVE IInv'
  OBVIOUS
<1> USE RingAssumption
<1> DEFINE len == chunk.length
<1>1. /\ cb = "copies" /\ cb' = "advances"
      /\ disturbed' = (disturbed \/ Saving)
      /\ UNCHANGED <<cb_wptr, cb_wrap, total, filled, list, header_wptr, frame_start,
                     chunk, starts, sparse, crowded, saving>>
  BY DEF CallbackCopies
<1>2. /\ cb_wptr \in 0 .. BufLen - 1 /\ len \in 1 .. BufLen /\ total \in Nat
      /\ total + len <= MaxBytes /\ total >= cb_wptr
      /\ LapStart = 0 \/ LapStart >= BufLen
      /\ cb_buff \in [Slots -> Bytes \union {None}]
      /\ Holds(cb_buff, cb_wptr, LapStart)
  BY <1>1 DEF IInv, TypeOK, ChunkFits, Laps, RingNow, Bytes, Slots
<1>3. ASSUME NEW s \in Slots
      PROVE  cb_buff'[s] = IF s < cb_wptr + len - BufLen THEN total - cb_wptr + BufLen + s
                           ELSE IF s >= cb_wptr /\ s < cb_wptr + len THEN total - cb_wptr + s
                           ELSE cb_buff[s]
  <2> s \in Int /\ 0 <= s /\ s < BufLen
    BY <1>3 DEF Slots
  <2>1. CASE BufLen - cb_wptr > len
    <3>1. cb_buff'[s] = IF s < len - len THEN total + len + s
                        ELSE IF s >= cb_wptr /\ s < cb_wptr + len THEN total + (s - cb_wptr)
                        ELSE cb_buff[s]
      BY <1>3, <2>1 DEF CallbackCopies
    <3> QED
      BY <1>2, <2>1, <3>1
  <2>2. CASE ~(BufLen - cb_wptr > len)
    <3>1. cb_buff'[s] = IF s < len - (BufLen - cb_wptr) THEN total + (BufLen - cb_wptr) + s
                        ELSE IF s >= cb_wptr /\ s < cb_wptr + (BufLen - cb_wptr)
                             THEN total + (s - cb_wptr)
                        ELSE cb_buff[s]
      BY <1>3, <2>2 DEF CallbackCopies
    <3> QED
      BY <1>2, <2>2, <3>1
  <2> QED
    BY <2>1, <2>2
<1>4. cb_buff' \in [Slots -> Bytes \union {None}]
  <2>1. ASSUME NEW s \in Slots PROVE cb_buff'[s] \in Bytes \union {None}
    <3> s \in Int /\ 0 <= s /\ s < BufLen
      BY <2>1 DEF Slots
    <3>1. cb_buff[s] \in Bytes \union {None}
      BY <1>2
    <3> QED
      BY <1>2, <1>3, <3>1 DEF Bytes
  <2>2. cb_buff' = [s \in Slots |-> cb_buff'[s]]
    BY DEF CallbackCopies
  <2> QED
    BY <2>1, <2>2
<1>5. TypeOK'
  <2>1. disturbed' \in BOOLEAN /\ cb' = "advances"
    BY <1>1 DEF IInv, TypeOK, Saving
  <2>2. UNCHANGED <<cb_wptr, cb_wrap, iframe_buff, iframe_buff_wpos, iframe_buff_rpos,
                    header_wptr, frame_start, chunk, total, starts, sparse, crowded,
                    filled, main, copy_from_end, copy_from_start, origin, upto>>
    BY <1>1 DEF list, saving
  <2> QED BY <1>4, <2>1, <2>2 DEF IInv, TypeOK
<1>6. ChunkFits' /\ Laps'
  BY <1>1 DEF IInv, ChunkFits, Laps, LapStart
<1>7. RingNow'
  <2>1. LapStart' = LapStart /\ cb_wptr' = cb_wptr /\ chunk' = chunk
    BY <1>1 DEF LapStart
  <2>2. CASE cb_wptr + len < BufLen
    <3>1. ASSUME NEW s \in Slots
          PROVE  cb_buff'[s] = IF s < cb_wptr + len THEN LapStart + s
                               ELSE IF LapStart = 0 THEN None ELSE LapStart - BufLen + s
      <4> s \in Int /\ 0 <= s /\ s < BufLen
        BY <3>1 DEF Slots
      <4>1. cb_buff[s] = IF s < cb_wptr THEN LapStart + s
                         ELSE IF LapStart = 0 THEN None ELSE LapStart - BufLen + s
        BY <1>2 DEF Holds
      <4> QED
        BY <1>2, <1>3, <2>2, <4>1 DEF LapStart
    <3> QED
      BY <1>1, <2>1, <2>2, <3>1 DEF RingNow, Holds
  <2>3. CASE ~(cb_wptr + len < BufLen)
    <3>1. ASSUME NEW s \in Slots
          PROVE  cb_buff'[s] = IF s < cb_wptr + len - BufLen THEN LapStart + BufLen + s
                               ELSE IF LapStart + BufLen = 0 THEN None
                               ELSE LapStart + BufLen - BufLen + s
      <4> s \in Int /\ 0 <= s /\ s < BufLen
        BY <3>1 DEF Slots
      <4>1. s < cb_wptr => cb_buff[s] = LapStart + s
        BY <1>2 DEF Holds
      <4> QED
        BY <1>2, <1>3, <2>3, <4>1 DEF LapStart
    <3>2. Holds(cb_buff', cb_wptr + len - BufLen, LapStart + BufLen)
      BY <1>2, <3>1 DEF Holds, LapStart
    <3>3. ~(cb_wptr' + chunk'.length < BufLen)
      BY <2>1, <2>3
    <3> QED
      BY <1>1, <2>1, <3>2, <3>3 DEF RingNow, Holds
  <2> QED
    BY <2>2, <2>3
<1>8. SizesHold'
  BY <1>1 DEF IInv, SizesHold, Saving, saving, list, OverreadNeedsRace
<1> QED
  BY <1>5, <1>6, <1>7, <1>8 DEF IInv

\* A chunk takes the write position on, once round the ring at most.
LEMMA NewPosition ==
    ASSUME IInv, CallbackAdvances
    PROVE  cb_wptr' = IF cb_wptr + chunk.length < BufLen THEN cb_wptr + chunk.length
                      ELSE cb_wptr + chunk.length - BufLen
<1>1. /\ BufLen \in Nat /\ BufLen > 0 /\ cb_wptr \in Int /\ chunk.length \in Int
      /\ cb_wptr + chunk.length \in 0 .. 2 * BufLen - 1
  <2>1. cb_wptr \in 0 .. BufLen - 1 /\ chunk.length \in 1 .. BufLen
    BY RingAssumption DEF IInv, TypeOK, Slots
  <2> QED BY <2>1, RingAssumption
<1>2. (cb_wptr + chunk.length) % BufLen
         = IF cb_wptr + chunk.length < BufLen THEN cb_wptr + chunk.length
           ELSE cb_wptr + chunk.length - BufLen
  BY <1>1, ModOnce
<1> QED BY <1>2 DEF CallbackAdvances

LEMMA AdvancesKeeps == IInv /\ CallbackAdvances => IInv'
<1> SUFFICES ASSUME IInv, CallbackAdvances PROVE IInv'
  OBVIOUS
<1> USE RingAssumption
<1>1. /\ cb_wptr \in Slots /\ chunk.length \in 1 .. MaxChunk /\ total \in Nat
      /\ total + chunk.length <= MaxBytes /\ total >= cb_wptr
      /\ LapStart = 0 \/ LapStart >= BufLen
  BY DEF CallbackAdvances, IInv, TypeOK, ChunkFits, Laps, Bytes
<1>2. cb_wptr' = IF cb_wptr + chunk.length < BufLen THEN cb_wptr + chunk.length
                 ELSE cb_wptr + chunk.length - BufLen
  BY NewPosition
<1>3. cb_wptr' \in Slots /\ total' \in Bytes
  BY <1>1, <1>2 DEF CallbackAdvances, Slots, Bytes
<1>4. TypeOK'
  BY <1>3 DEF CallbackAdvances, IInv, TypeOK, list, saving
<1>5. ChunkFits'
  BY DEF CallbackAdvances, ChunkFits
<1>6. Laps' /\ RingNow'
  <2>1. LapStart' = IF cb_wptr + chunk.length < BufLen THEN LapStart ELSE LapStart + BufLen
    BY <1>1, <1>2 DEF CallbackAdvances, LapStart, Slots
  <2>2. Laps'
    BY <1>1, <1>2, <2>1 DEF CallbackAdvances, Laps, LapStart, Slots
  <2>3. RingNow'
    BY <1>2, <2>1 DEF CallbackAdvances, IInv, RingNow, Holds
  <2> QED
    BY <2>2, <2>3
<1>7. SizesHold'
  BY DEF CallbackAdvances, IInv, SizesHold, Saving, saving, list, OverreadNeedsRace
<1> QED
  BY <1>4, <1>5, <1>6, <1>7 DEF IInv

LEMMA HeaderKeeps == IInv /\ CallbackKeepsHeader => IInv'
  BY RingAssumption DEF CallbackKeepsHeader, IInv, TypeOK, ChunkFits, Laps, RingNow, Holds,
     LapStart, SizesHold, OverreadNeedsRace, list, writing, saving

\* main reads slots only, or knows why not.
LEMMA MainKeeps == IInv /\ Main => IInv'
<1> SUFFICES ASSUME IInv, Main PROVE IInv'
  OBVIOUS
<1> USE RingAssumption
<1>1. ChunkFits' /\ Laps' /\ RingNow'
  BY DEF Main, MainSizes, MainWritesEnd, MainWritesStart, incoming, list, writing,
     IInv, ChunkFits, Laps, RingNow, Holds, LapStart
<1>2. ASSUME NEW s \in Slots PROVE Slot(s) \in Int /\ Slot(s) # Outside
  BY <1>2 DEF Slot, IInv, TypeOK, Bytes, None, Outside
<1>3. CASE MainSizes
  <2>1. /\ iframe_buff[iframe_buff_rpos] \in Slots /\ cb_wptr \in Slots
        /\ saved = <<>> /\ main = "capture"
    BY <1>3 DEF MainSizes, IInv, TypeOK, SizesHold
  <2>2. TypeOK'
    BY <1>3, <2>1 DEF MainSizes, IInv, TypeOK, incoming, list, writing, Slots
  <2>3. SizesHold'
    BY <1>3, <2>1 DEF MainSizes, SizesHold, incoming, list, writing, Slots
  <2> QED
    BY <1>1, <2>2, <2>3 DEF IInv
<1>4. CASE MainWritesEnd
  <2> DEFINE from == iframe_buff[iframe_buff_rpos]
  <2>1. /\ saved' = [i \in 1 .. copy_from_end |-> Slot(from + i - 1)]
        /\ copy_from_end \in {0, BufLen - origin} /\ copy_from_end \in 0 .. BufLen
        /\ main' = "half" /\ main = "sized"
        /\ from \in Slots
        /\ ~disturbed => origin = from
    BY <1>4 DEF MainWritesEnd, IInv, TypeOK, SizesHold
  <2>2. /\ saved' \in Seq(Int) /\ DOMAIN saved' = 1 .. copy_from_end
    <3>1. \A s \in Int : Slot(s) \in Int
      BY <1>2 DEF Slot, Outside
    <3>2. \A i \in 1 .. copy_from_end : from + i - 1 \in Int
      BY <2>1 DEF Slots
    <3>3. saved' \in [1 .. copy_from_end -> Int]
      BY <2>1, <3>1, <3>2
    <3> QED
      BY <2>1, <3>3, IsSeq
  <2>3. ASSUME ~disturbed, NEW i \in DOMAIN saved' PROVE saved'[i] # Outside
    <3>1. from + i - 1 \in Slots
      <4>1. i \in 1 .. copy_from_end /\ origin = from
        BY <2>1, <2>2, <2>3
      <4>2. copy_from_end = BufLen - from
        BY <2>1, <4>1
      <4> HIDE DEF from
      <4> QED
        BY <2>1, <4>1, <4>2 DEF Slots
    <3> QED
      BY <1>2, <2>1, <2>2, <3>1
  <2>4. TypeOK'
    BY <1>4 DEF MainWritesEnd, IInv, TypeOK, incoming, list, writing
  <2>5. SizesHold'
    BY <1>4, <2>1, <2>2, <2>3 DEF MainWritesEnd, SizesHold
  <2> QED
    BY <1>1, <2>4, <2>5 DEF IInv
<1>5. CASE MainWritesStart
  <2> DEFINE rest == [i \in 1 .. copy_from_start |-> Slot(i - 1)]
  <2>1. /\ saved \in Seq(Int) /\ copy_from_start \in Slots
        /\ ~disturbed => \A i \in DOMAIN saved : saved[i] # Outside
        /\ saved' = saved \o rest /\ main' = "saved" /\ disturbed' = disturbed
    BY <1>5 DEF MainWritesStart, IInv, TypeOK, SizesHold
  <2>2. \A i \in 1 .. copy_from_start : Slot(i - 1) \in Int /\ Slot(i - 1) # Outside
    BY <1>2, <2>1 DEF Slots
  <2>3. rest \in Seq(Int) /\ DOMAIN rest = 1 .. copy_from_start
    <3>1. rest \in [1 .. copy_from_start -> Int]
      BY <2>2
    <3> QED
      BY <2>1, <3>1, IsSeq DEF Slots
  <2>4. ASSUME ~disturbed
        PROVE  \A i \in DOMAIN saved' : saved'[i] # Outside
    <3>1. \A i \in DOMAIN rest : rest[i] # Outside
      BY <2>2, <2>3
    <3> HIDE DEF rest
    <3> QED
      BY <2>1, <2>3, <2>4, <3>1, NotInConcat
  <2>5. TypeOK'
    BY <1>5 DEF MainWritesStart, IInv, TypeOK, incoming, list, writing
  <2>6. OverreadNeedsRace'
    BY <2>1, <2>4 DEF OverreadNeedsRace
  <2>7. SizesHold'
    BY <2>1, <2>6 DEF SizesHold
  <2> QED
    BY <1>1, <2>5, <2>7 DEF IInv
<1> QED
  BY <1>3, <1>4, <1>5 DEF Main

LEMMA NextInv == IInv /\ [Next]_vars => IInv'
<1>1. IInv /\ UNCHANGED vars => IInv'
  BY DEF vars, incoming, list, writing, saving, IInv, TypeOK, ChunkFits, Laps, RingNow,
     Holds, LapStart, SizesHold, OverreadNeedsRace
<1> QED
  BY <1>1, ListsKeeps, CopiesKeeps, AdvancesKeeps, HeaderKeeps, MainKeeps DEF Next, Callback

---------------------------------------------------------------------------
(* The list of I-frames.                                                   *)

\* How far slot p is ahead of the write position w.
Ahead(p, w) == IF p >= w THEN p - w ELSE p - w + BufLen

\* The byte in slot p, once len bytes are written at w after the first n.
ByteOf(p, w, n, len) == IF Ahead(p, w) < len THEN n + Ahead(p, w)
                        ELSE n + Ahead(p, w) - BufLen

\* The bytes of the chunk under way.
Under == IF cb = "idle" THEN 0 ELSE chunk.length

\* The number of entries between the read position r and the write position w of
\* a list that is not empty, and the j-th of them.
Live(r, w) == IF w > r THEN w - r ELSE w - r + ListLen
Nth(j, r)  == IF r + j < ListLen THEN r + j ELSE r + j - ListLen

Count    == Live(iframe_buff_rpos, iframe_buff_wpos)
Place(j) == iframe_buff[Nth(j, iframe_buff_rpos)]

\* The byte the j-th entry stands for.
StartOf(j) == ByteOf(Place(j), cb_wptr, total, Under)

\* The stream begins with an I-frame, and the list with it.
Begins ==
    /\ starts = {} => /\ total = 0 /\ cb = "idle" /\ frame_start = None
                      /\ iframe_buff_rpos = 0 /\ iframe_buff_wpos = 0
    /\ starts # {} => 0 \in starts
    /\ \A t \in starts : t < total + Under

\* The entries are I-frames, in the order of the stream, up to the newest.
InOrder ==
    /\ \A j \in 0 .. Count - 1 : StartOf(j) \in starts
    /\ \A i, j \in 0 .. Count - 1 : i <= j => StartOf(i) <= StartOf(j)
    /\ \A j \in {Count - 1} : \A t \in starts : t <= StartOf(j)

\* Every I-frame whose start is still in the ring has its entry.
AllThere ==
    ~crowded => \A t \in starts : t + BufLen >= total + Under
                                    => \E j \in 0 .. Count - 1 : StartOf(j) = t

\* The frame being received starts at the newest I-frame, if it is one.
FrameIsNewest ==
    frame_start # None /\ chunk.key
        => /\ ByteOf(frame_start, cb_wptr, total, Under) \in starts
           /\ \A t \in starts : t <= ByteOf(frame_start, cb_wptr, total, Under)

Listing == /\ cb # "spins"
           /\ starts # {} => InOrder /\ AllThere /\ FrameIsNewest

LInv == Begins /\ (~sparse => Listing)

\* Whether the ring has wrapped, but for a chunk that ended at its end.
WrapKnown == /\ ~cb_wrap /\ ~filled => LapStart = 0
             /\ cb_wrap => LapStart > 0

\* What main is to save, and has saved, while the callback is at rest.
Plan ==
    main # "capture" /\ ~disturbed =>
        /\ cb = "idle" /\ upto = total /\ origin = iframe_buff[iframe_buff_rpos]
        /\ copy_from_end = IF cb_wrap THEN BufLen - origin ELSE 0
        /\ copy_from_start = IF cb_wrap /\ origin <= cb_wptr THEN origin ELSE cb_wptr

Written ==
    /\ main \in {"half", "saved"} => saved \in Seq(Int)
    /\ main \in {"half", "saved"} /\ ~disturbed =>
          \A i \in 1 .. copy_from_end : saved[i] = cb_buff[origin + i - 1]
    /\ main = "half" /\ ~disturbed => Len(saved) = copy_from_end
    /\ main = "saved" /\ ~disturbed =>
          /\ Len(saved) = copy_from_end + copy_from_start
          /\ \A i \in 1 .. copy_from_start : saved[copy_from_end + i] = cb_buff[i - 1]

SInv == WrapKnown /\ Plan /\ Written

---------------------------------------------------------------------------
\* What the callback tests of an entry is whether the chunk reaches its slot.
LEMMA OvertakenIsNear ==
    ASSUME NEW p \in Slots, NEW len \in 1 .. BufLen, cb_wptr \in Slots
    PROVE  Overtaken(p, len) <=> Ahead(p, cb_wptr) < len
  BY RingAssumption DEF Overtaken, Ahead, Slots

\* A slot the chunk does not reach keeps its byte; one it reaches held a byte
\* that is BufLen or more behind the end of the chunk.
LEMMA ByteKept ==
    ASSUME NEW p \in Slots, NEW w \in Slots, NEW n \in Nat, NEW len \in 0 .. BufLen
    PROVE  /\ Ahead(p, w) \in 0 .. BufLen - 1
           /\ ByteOf(p, w, n, len) \in Int
           /\ ByteOf(p, w, n, 0) = n + Ahead(p, w) - BufLen
           /\ ~(Ahead(p, w) < len) => ByteOf(p, w, n, len) = ByteOf(p, w, n, 0)
           /\ ByteOf(p, w, n, 0) + BufLen >= n + len <=> ~(Ahead(p, w) < len)
           /\ len > 0 => ByteOf(w, w, n, len) = n
  BY RingAssumption DEF ByteOf, Ahead, Slots

\* The same bytes, seen from before and after the write position moves.
LEMMA ByteMoves ==
    ASSUME NEW p \in Slots, NEW w \in Slots, NEW n \in Nat, NEW len \in 1 .. BufLen
    PROVE  ByteOf(p, IF w + len < BufLen THEN w + len ELSE w + len - BufLen, n + len, 0)
              = ByteOf(p, w, n, len)
<1> p \in Int /\ 0 <= p /\ p < BufLen /\ w \in Int /\ 0 <= w /\ w < BufLen
  BY RingAssumption DEF Slots
<1>1. CASE w + len < BufLen
  BY <1>1, RingAssumption DEF ByteOf, Ahead
<1>2. CASE ~(w + len < BufLen)
  BY <1>2, RingAssumption DEF ByteOf, Ahead
<1> QED BY <1>1, <1>2

\* A byte that is in the ring is in its slot.
LEMMA ByteInSlot ==
    ASSUME NEW p \in Slots, TypeOK, Laps, Holds(cb_buff, cb_wptr, LapStart),
           0 <= ByteOf(p, cb_wptr, total, 0)
    PROVE  cb_buff[p] = ByteOf(p, cb_wptr, total, 0)
<1> /\ p \in Int /\ 0 <= p /\ p < BufLen /\ cb_wptr \in Int /\ 0 <= cb_wptr
    /\ cb_wptr < BufLen /\ total \in Nat
  BY RingAssumption DEF TypeOK, Slots, Bytes
<1>1. cb_buff[p] = IF p < cb_wptr THEN LapStart + p
                   ELSE IF LapStart = 0 THEN None ELSE LapStart - BufLen + p
  BY DEF Holds
<1>2. CASE p < cb_wptr
  BY <1>1, <1>2, RingAssumption DEF ByteOf, Ahead, LapStart
<1>3. CASE p >= cb_wptr
  <2>1. ByteOf(p, cb_wptr, total, 0) = total + p - cb_wptr - BufLen
    BY <1>3, RingAssumption DEF ByteOf, Ahead
  <2>2. LapStart # 0
    BY <2>1, RingAssumption DEF LapStart
  <2> QED BY <1>1, <1>3, <2>1, <2>2, RingAssumption DEF LapStart
<1> QED BY <1>2, <1>3

---------------------------------------------------------------------------
\* Places in the list: round it once.
LEMMA NthPlace ==
    ASSUME NEW r \in Entries, NEW j \in 0 .. ListLen
    PROVE  Nth(j, r) \in Entries /\ (r + j) % ListLen = Nth(j, r)
<1>1. ListLen \in Nat /\ ListLen > 0 /\ r + j \in 0 .. 2 * ListLen - 1
      /\ r \in 0 .. ListLen - 1
  BY RingAssumption DEF Entries
<1>2. (r + j) % ListLen = IF r + j < ListLen THEN r + j ELSE r + j - ListLen
  BY <1>1, ModOnce
<1> QED BY <1>1, <1>2 DEF Nth, Entries

LEMMA NthApart ==
    ASSUME NEW r \in Entries, NEW i \in 0 .. ListLen - 1, NEW j \in 0 .. ListLen - 1,
           Nth(i, r) = Nth(j, r)
    PROVE  i = j
  BY RingAssumption DEF Nth, Entries

\* Starting later in the list.
LEMMA NthFrom ==
    ASSUME NEW r \in Entries, NEW k \in 0 .. ListLen - 1, NEW j \in 0 .. ListLen,
           k + j <= ListLen
    PROVE  Nth(j, Nth(k, r)) = Nth(k + j, r)
  BY RingAssumption DEF Nth, Entries

\* The read position comes to the write position after the live entries, and
\* moves up by what it passes.
LEMMA LiveCount ==
    ASSUME NEW r \in Entries, NEW w \in Entries
    PROVE  /\ Live(r, w) \in 1 .. ListLen /\ Nth(Live(r, w), r) = w
           /\ Live(r, w) = ListLen <=> r = w
           /\ \A k \in 0 .. Live(r, w) - 1 : Live(Nth(k, r), w) = Live(r, w) - k
  BY RingAssumption DEF Live, Nth, Entries

\* An entry more; in a list that is full it is the only one that is left.
LEMMA OneMore ==
    ASSUME NEW r \in Entries, NEW w \in Entries
    PROVE  /\ NextEntry(w) \in Entries
           /\ Live(r, NextEntry(w)) = IF r = w THEN 1 ELSE Live(r, w) + 1
           /\ Live(r, w) = 1 <=> NextEntry(r) = w
<1>1. /\ ListLen \in Nat /\ ListLen > 0 /\ r \in 0 .. ListLen - 1 /\ w \in 0 .. ListLen - 1
  BY RingAssumption DEF Entries
<1>2. \A e \in 0 .. ListLen - 1 :
          (e + 1) % ListLen = IF e + 1 < ListLen THEN e + 1 ELSE 0
  <2> TAKE e \in 0 .. ListLen - 1
  <2>1. e + 1 \in 0 .. 2 * ListLen - 1
    BY <1>1
  <2>2. (e + 1) % ListLen = IF e + 1 < ListLen THEN e + 1 ELSE e + 1 - ListLen
    BY <1>1, <2>1, ModOnce
  <2> QED BY <1>1, <2>2
<1> QED BY <1>1, <1>2 DEF NextEntry, Live, Entries

---------------------------------------------------------------------------
\* The list before any entry is passed, with the next chunk's in it if that one is
\* of a key frame: the j-th entry is the I-frame P(j).  A new frame's is the last,
\* and starts with the chunk.
Added(entries, wpos, bytes, length, key) ==
    LET r == iframe_buff_rpos
        n == Live(r, wpos)
        fresh == key /\ frame_start = None
        e(j) == entries[Nth(j, r)]
        P(j) == IF fresh /\ j = n - 1 THEN total ELSE ByteOf(e(j), cb_wptr, total, 0)
    IN  /\ n \in 1 .. ListLen /\ wpos \in Entries
        /\ \A j \in 0 .. n - 1 : e(j) \in Slots /\ P(j) \in bytes
        /\ \A i, j \in 0 .. n - 1 : i <= j => P(i) <= P(j)
        /\ \A t \in bytes : t <= P(n - 1)
        /\ ~(crowded \/ (key /\ total > 0 /\ Full)) =>
              \A t \in bytes : t + BufLen >= total + length
                                 => \E j \in 0 .. n - 1 : P(j) = t
        /\ fresh => e(n - 1) = cb_wptr
        /\ n > 1 => \E q \in 0 .. n - 1 : ~Overtaken(e(q), length)
        /\ n = 1 /\ ~fresh => ~Overtaken(e(0), length)

LEMMA EntryAdded ==
    ASSUME IInv, LInv, cb = "idle", ~sparse, NEW length \in 1 .. MaxChunk, NEW key \in BOOLEAN,
           NEW entries, NEW wpos, NEW bytes,
           total = 0 => key,
           frame_start # None => key = chunk.key,
           entries = IF key THEN [iframe_buff EXCEPT ![iframe_buff_wpos] = FrameStart]
                     ELSE iframe_buff,
           wpos = IF key THEN NextEntry(iframe_buff_wpos) ELSE iframe_buff_wpos,
           bytes = IF key /\ frame_start = None THEN starts \union {total} ELSE starts,
           \A s \in starts : (\A t \in starts : t <= s) => total + length <= s + BufLen
    PROVE  Added(entries, wpos, bytes, length, key)
<1> DEFINE r == iframe_buff_rpos
           w == iframe_buff_wpos
           n == Live(r, wpos)
           fresh == key /\ frame_start = None
           e(j) == entries[Nth(j, r)]
           P(j) == IF fresh /\ j = n - 1 THEN total ELSE ByteOf(e(j), cb_wptr, total, 0)
<1> SUFFICES
       /\ n \in 1 .. ListLen /\ wpos \in Entries
       /\ \A j \in 0 .. n - 1 : e(j) \in Slots /\ P(j) \in bytes
       /\ \A i, j \in 0 .. n - 1 : i <= j => P(i) <= P(j)
       /\ \A t \in bytes : t <= P(n - 1)
       /\ ~(crowded \/ (key /\ total > 0 /\ Full)) =>
             \A t \in bytes : t + BufLen >= total + length
                                => \E j \in 0 .. n - 1 : P(j) = t
       /\ fresh => e(n - 1) = cb_wptr
       /\ n > 1 => \E q \in 0 .. n - 1 : ~Overtaken(e(q), length)
       /\ n = 1 /\ ~fresh => ~Overtaken(e(0), length)
  BY DEF Added
<1>1. /\ r \in Entries /\ w \in Entries /\ iframe_buff \in [Entries -> Slots]
      /\ cb_wptr \in Slots /\ total \in Nat /\ starts \subseteq Nat
      /\ length \in 1 .. BufLen /\ BufLen \in Nat /\ ListLen \in Nat
      /\ frame_start \in Slots \union {None}
  BY RingAssumption DEF IInv, TypeOK, Bytes
<1>2. Under = 0 /\ Begins /\ (starts # {} => InOrder /\ AllThere /\ FrameIsNewest)
  BY DEF LInv, Listing, Under
<1>3. FrameStart \in Slots /\ (frame_start # None => FrameStart = frame_start)
      /\ (frame_start = None => FrameStart = cb_wptr)
  BY <1>1 DEF FrameStart
<1>4. entries \in [Entries -> Slots] /\ wpos \in Entries
  BY <1>1, <1>3, OneMore
<1>5. n \in 1 .. ListLen /\ (\A j \in 0 .. n - 1 : Nth(j, r) \in Entries /\ e(j) \in Slots)
  <2>1. n \in 1 .. ListLen
    BY <1>1, <1>4, LiveCount
  <2> HIDE DEF n
  <2> QED BY <1>1, <1>4, <2>1, NthPlace
<1>6. \A p \in Slots : /\ ByteOf(p, cb_wptr, total, 0) \in Int
                       /\ ByteOf(p, cb_wptr, total, 0) + BufLen >= total + length
                             <=> ~Overtaken(p, length)
  <2> TAKE p \in Slots
  <2>1. length \in 0 .. BufLen
    BY <1>1
  <2>2. Overtaken(p, length) <=> Ahead(p, cb_wptr) < length
    BY <1>1, OvertakenIsNear
  <2>3. /\ Ahead(p, cb_wptr) \in 0 .. BufLen - 1
        /\ ByteOf(p, cb_wptr, total, 0) = total + Ahead(p, cb_wptr) - BufLen
        /\ ByteOf(p, cb_wptr, total, 0) + BufLen >= total + length
              <=> ~(Ahead(p, cb_wptr) < length)
    BY <1>1, <2>1, ByteKept
  <2>4. ByteOf(p, cb_wptr, total, 0) \in Int
    BY <1>1, <2>3
  <2> QED BY <2>2, <2>3, <2>4
<1>7. CASE starts = {}
  <2>1. total = 0 /\ fresh /\ r = 0 /\ w = 0 /\ bytes = {0} /\ key
    BY <1>2, <1>7 DEF Begins
  <2>2. n = 1
    <3>1. n = IF r = w THEN 1 ELSE Live(r, w) + 1
      BY <1>1, <2>1, OneMore
    <3> QED BY <2>1, <3>1
  <2>3. Nth(0, r) = w /\ e(0) = cb_wptr
    BY <1>1, <1>3, <2>1 DEF Nth, Entries
  <2> HIDE DEF n
  <2> QED BY <1>4, <1>5, <2>1, <2>2, <2>3
<1>8. CASE starts # {}
  <2> DEFINE m == Count
             Old(j) == ByteOf(iframe_buff[Nth(j, r)], cb_wptr, total, 0)
  <2>1. /\ m \in 1 .. ListLen /\ (m = ListLen <=> r = w) /\ Nth(m, r) = w
        /\ \A j \in 0 .. m - 1 : Nth(j, r) \in Entries
    <3>1. m \in 1 .. ListLen /\ (m = ListLen <=> r = w) /\ Nth(m, r) = w
      BY <1>1, LiveCount DEF Count
    <3> HIDE DEF m
    <3> QED BY <1>1, <3>1, NthPlace
  <2>2. /\ \A j \in 0 .. m - 1 : Old(j) \in starts
        /\ \A i, j \in 0 .. m - 1 : i <= j => Old(i) <= Old(j)
        /\ \A t \in starts : t <= Old(m - 1)
        /\ ~crowded => \A t \in starts : t + BufLen >= total + 0
                                           => \E j \in 0 .. m - 1 : Old(j) = t
    BY <1>2, <1>8 DEF InOrder, AllThere, StartOf, Place
  <2>3. 0 \in starts /\ (\A t \in starts : t < total)
    BY <1>1, <1>2, <1>8 DEF Begins
  <2>4. total > 0 /\ total + length <= Old(m - 1) + BufLen
        /\ ~Overtaken(iframe_buff[Nth(m - 1, r)], length)
    <3>1. m - 1 \in 0 .. m - 1
      BY <2>1
    <3>2. Old(m - 1) \in starts /\ (\A t \in starts : t <= Old(m - 1))
      BY <2>2, <3>1
    <3>3. iframe_buff[Nth(m - 1, r)] \in Slots
      BY <1>1, <2>1, <3>1
    <3> HIDE DEF m
    <3> QED BY <1>1, <1>6, <2>3, <3>2, <3>3
  <2>5. CASE ~key
    <3>1. /\ entries = iframe_buff /\ bytes = starts /\ n = m /\ ~fresh
          /\ \A j \in 0 .. n - 1 : P(j) = Old(j) /\ e(j) = iframe_buff[Nth(j, r)]
      BY <2>5 DEF Count
    <3> HIDE DEF n, m, P, e, Old
    <3> QED BY <1>1, <1>4, <1>5, <2>2, <2>4, <3>1
  <2>6. ASSUME key, ~fresh
        PROVE  /\ FrameStart \in Slots /\ bytes = starts
               /\ ByteOf(FrameStart, cb_wptr, total, 0) \in starts
               /\ ByteOf(FrameStart, cb_wptr, total, 0) = Old(m - 1)
               /\ ~Overtaken(FrameStart, length)
    <3>1. frame_start # None /\ chunk.key /\ FrameStart = frame_start
      BY <1>3, <2>6
    <3>2. /\ ByteOf(frame_start, cb_wptr, total, 0) \in starts
          /\ \A t \in starts : t <= ByteOf(frame_start, cb_wptr, total, 0)
      BY <1>2, <1>8, <3>1 DEF FrameIsNewest
    <3>3. m - 1 \in 0 .. m - 1
      BY <2>1
    <3>4. Old(m - 1) \in starts
      BY <2>2, <3>3
    <3> HIDE DEF Old, m
    <3>5. ByteOf(frame_start, cb_wptr, total, 0) = Old(m - 1)
      <4>1. /\ ByteOf(frame_start, cb_wptr, total, 0) <= Old(m - 1)
            /\ Old(m - 1) <= ByteOf(frame_start, cb_wptr, total, 0)
        BY <2>2, <3>2, <3>4
      <4>2. /\ ByteOf(frame_start, cb_wptr, total, 0) \in Nat
            /\ Old(m - 1) \in Nat
        BY <1>1, <3>2, <3>4
      <4> QED BY <4>1, <4>2
    <3> QED BY <1>1, <1>3, <1>6, <2>4, <2>6, <3>1, <3>2, <3>5
  <2>7. CASE key /\ r = w
    <3>1. n = 1 /\ Nth(0, r) = w /\ e(0) = FrameStart
      <4>1. n = 1
        BY <1>1, <2>7, OneMore
      <4>2. Nth(0, r) = w
        BY <1>1, <2>7 DEF Nth, Entries
      <4> QED BY <1>1, <2>7, <4>1, <4>2
    <3>2. Full
      BY <2>7 DEF Full
    <3>3. CASE fresh
      <4>1. P(0) = total /\ bytes = starts \union {total} /\ e(0) = cb_wptr
        BY <1>3, <3>1, <3>3
      <4> HIDE DEF n, e, P
      <4> QED BY <1>1, <1>4, <1>5, <2>3, <2>4, <2>7, <3>1, <3>2, <3>3, <4>1
    <3>4. CASE ~fresh
      <4>1. P(0) = Old(m - 1) /\ P(0) \in bytes /\ bytes = starts /\ ~Overtaken(e(0), length)
        BY <2>6, <2>7, <3>1, <3>4
      <4>2. m - 1 \in 0 .. m - 1
        BY <2>1
      <4> HIDE DEF n, e, P, Old, m
      <4>3. P(0) \in Nat /\ (\A t \in bytes : t <= P(0))
        BY <1>1, <2>2, <4>1
      <4>4. \A j \in 0 .. n - 1 : j = 0
        BY <3>1
      <4>5. P(0) <= P(0) /\ n - 1 = 0
        BY <3>1, <4>3
      <4> QED BY <1>4, <1>5, <2>4, <2>7, <3>1, <3>2, <3>4, <4>1, <4>3, <4>4, <4>5
    <3> QED BY <3>3, <3>4
  <2>8. CASE key /\ r # w
    <3>1. n = m + 1 /\ m < ListLen
      BY <1>1, <2>1, <2>8, OneMore DEF Count
    <3>2. \A j \in 0 .. m - 1 : Nth(j, r) # w
      <4> HIDE DEF m
      <4> TAKE j \in 0 .. m - 1
      <4>1. j \in 0 .. ListLen - 1 /\ m \in 0 .. ListLen - 1 /\ j # m
        BY <1>1, <2>1, <3>1
      <4> QED BY <1>1, <2>1, <4>1, NthApart
    <3>3. /\ \A j \in 0 .. m - 1 : e(j) = iframe_buff[Nth(j, r)]
          /\ e(m) = FrameStart
      BY <1>1, <2>1, <2>8, <3>2
    <3>4. \A j \in 0 .. m - 1 : P(j) = Old(j)
      <4> HIDE DEF n, m
      <4> TAKE j \in 0 .. m - 1
      <4>1. j # n - 1
        BY <2>1, <3>1
      <4> QED BY <3>3, <4>1
    <3>5. /\ P(m) \in bytes /\ Old(m - 1) <= P(m) /\ starts \subseteq bytes
          /\ bytes \subseteq starts \union {P(m)} /\ (fresh => e(m) = cb_wptr)
      <4>1. m = n - 1 /\ m - 1 \in 0 .. m - 1
        BY <2>1, <3>1
      <4>2. CASE fresh
        <5>1. P(m) = total /\ bytes = starts \union {total}
          BY <4>1, <4>2
        <5>2. Old(m - 1) \in starts
          BY <2>2, <4>1
        <5>3. e(m) = cb_wptr
          BY <1>3, <3>3, <4>2
        <5> HIDE DEF P, Old, m, e
        <5>4. Old(m - 1) \in Nat /\ Old(m - 1) < total
          BY <1>1, <2>3, <5>2
        <5>5. Old(m - 1) <= P(m)
          BY <1>1, <5>1, <5>4
        <5> QED BY <5>1, <5>3, <5>5
      <4>3. CASE ~fresh
        <5>1. P(m) = Old(m - 1) /\ bytes = starts
          BY <2>6, <2>8, <3>3, <4>3
        <5>2. Old(m - 1) \in starts
          BY <2>2, <4>1
        <5> HIDE DEF P, Old, m
        <5>3. Old(m - 1) \in Nat /\ P(m) \in starts
          BY <1>1, <5>1, <5>2
        <5>4. Old(m - 1) <= P(m)
          BY <5>1, <5>3
        <5> QED BY <4>3, <5>1, <5>3, <5>4
      <4> QED BY <4>2, <4>3
    <3>6. \A j \in 0 .. n - 1 : j \in 0 .. m - 1 \/ j = m
      <4> HIDE DEF n, m
      <4> QED BY <2>1, <3>1
    <3> HIDE DEF n, m, P, Old, e
    <3>7. \A j \in 0 .. n - 1 : P(j) \in bytes /\ P(j) \in Int
      <4>1. \A j \in 0 .. n - 1 : P(j) \in bytes
        BY <2>2, <3>4, <3>5, <3>6
      <4>2. bytes \subseteq Int
        BY <1>1
      <4> QED BY <4>1, <4>2
    <3>8. \A j \in 0 .. m - 1 : P(j) <= P(m - 1) /\ P(m - 1) = Old(m - 1)
      BY <2>1, <2>2, <3>4
    <3>9. \A i, j \in 0 .. n - 1 : i <= j => P(i) <= P(j)
      <4> TAKE i, j \in 0 .. n - 1
      <4>1. CASE j \in 0 .. m - 1
        BY <2>1, <2>2, <3>4, <3>6, <4>1
      <4>2. CASE j = m /\ i = m
        BY <3>7, <4>2
      <4>3. CASE j = m /\ i \in 0 .. m - 1
        <5>1. P(i) \in Int /\ P(m) \in Int /\ m - 1 \in 0 .. n - 1
          BY <2>1, <3>1, <3>7, <4>3
        <5>2. P(m - 1) \in Int
          BY <3>7, <5>1
        <5> QED BY <3>5, <3>8, <4>3, <5>1, <5>2
      <4> QED BY <3>6, <4>1, <4>2, <4>3
    <3>10. \A t \in bytes : t <= P(n - 1)
      <4>1. n - 1 = m /\ m - 1 \in 0 .. m - 1 /\ m - 1 \in 0 .. n - 1 /\ m \in 0 .. n - 1
        BY <2>1, <3>1
      <4>2. P(m) \in Int /\ Old(m - 1) \in Int
        BY <3>7, <3>8, <4>1
      <4>3. \A t \in bytes : t \in Int /\ (t <= Old(m - 1) \/ t = P(m))
        BY <1>1, <2>2, <3>5, <4>2
      <4> QED BY <3>5, <4>1, <4>2, <4>3
    <3>11. ~crowded => \A t \in bytes : t + BufLen >= total + length
                                           => \E j \in 0 .. n - 1 : P(j) = t
      <4> SUFFICES ASSUME ~crowded, NEW t \in bytes, t + BufLen >= total + length
                   PROVE  \E j \in 0 .. n - 1 : P(j) = t
        OBVIOUS
      <4>1. m \in 0 .. n - 1 /\ 0 .. m - 1 \subseteq 0 .. n - 1
        BY <2>1, <3>1
      <4>2. CASE t = P(m)
        BY <4>1, <4>2
      <4>3. CASE t \in starts
        <5>1. t + BufLen >= total + 0
          BY <1>1, <4>3
        <5>2. PICK j \in 0 .. m - 1 : Old(j) = t
          BY <2>2, <4>3, <5>1
        <5> QED BY <3>4, <4>1, <5>2
      <4> QED BY <3>5, <4>2, <4>3
    <3>12. /\ n > 1 /\ m - 1 \in 0 .. n - 1 /\ n - 1 = m
           /\ ~Overtaken(e(m - 1), length)
      <4>1. n > 1 /\ m - 1 \in 0 .. n - 1 /\ n - 1 = m /\ m - 1 \in 0 .. m - 1
        BY <2>1, <3>1
      <4> QED BY <2>4, <3>3, <4>1
    <3> QED BY <1>4, <1>5, <3>5, <3>7, <3>9, <3>10, <3>11, <3>12
  <2> QED BY <2>5, <2>7, <2>8
<1> QED BY <1>7, <1>8

\* The chunk's entry is added, and the entries it runs over are passed.
LEMMA ListsKeepsList == IInv /\ IInv' /\ LInv /\ CallbackLists => LInv'
<1> SUFFICES ASSUME IInv, IInv', LInv, CallbackLists PROVE LInv'
  OBVIOUS
<1> USE RingAssumption
<1>1. PICK length \in 1 .. MaxChunk, key \in BOOLEAN :
        /\ total = 0 => key
        /\ frame_start # None => key = chunk.key
        /\ chunk' = [length |-> length, key |-> key]
        /\ iframe_buff' = IF key THEN [iframe_buff EXCEPT ![iframe_buff_wpos] = FrameStart]
                          ELSE iframe_buff
        /\ iframe_buff_wpos' = IF key THEN NextEntry(iframe_buff_wpos) ELSE iframe_buff_wpos
        /\ starts' = IF key /\ frame_start = None THEN starts \union {total} ELSE starts
        /\ sparse' = (sparse \/ \E s \in starts : /\ \A t \in starts : t <= s
                                                  /\ total + length > s + BufLen)
        /\ crowded' = (crowded \/ (key /\ total > 0 /\ Full))
        /\ frame_start' \in {FrameStart, None}
        /\ \/ /\ NextEntry(iframe_buff_rpos) = iframe_buff_wpos'
              /\ cb' = "copies" /\ iframe_buff_rpos' = iframe_buff_rpos
           \/ /\ NextEntry(iframe_buff_rpos) # iframe_buff_wpos'
              /\ \/ Passes(iframe_buff', length, iframe_buff_rpos') /\ cb' = "copies"
                 \/ /\ \A e \in Entries : Overtaken(iframe_buff'[e], length)
                    /\ cb' = "spins"
  BY DEF CallbackLists
<1>2. cb = "idle" /\ cb' # "idle" /\ UNCHANGED <<cb_wptr, total>>
  BY <1>1 DEF CallbackLists, writing
<1>3. /\ iframe_buff_rpos \in Entries /\ iframe_buff_wpos \in Entries
      /\ iframe_buff_rpos' \in Entries /\ iframe_buff_wpos' \in Entries
      /\ iframe_buff' \in [Entries -> Slots] /\ cb_wptr \in Slots /\ total \in Nat
      /\ starts \subseteq Nat /\ starts' \subseteq Nat /\ starts' \subseteq Int
      /\ length \in 1 .. BufLen /\ BufLen \in Nat /\ ListLen \in Nat
      /\ sparse \in BOOLEAN /\ sparse' \in BOOLEAN
  BY DEF IInv, TypeOK, Bytes
<1>4. Under = 0 /\ Under' = length
  BY <1>1, <1>2 DEF Under
<1>5. Begins'
  <2>1. \A t \in starts : t < total
    BY <1>3, <1>4 DEF LInv, Begins
  <2>2. starts # {} => 0 \in starts /\ starts' # {}
    BY <1>1 DEF LInv, Begins
  <2>3. starts = {} => starts' = {0}
    BY <1>1 DEF LInv, Begins
  <2>4. \A t \in starts' : t \in starts \/ t = total
    BY <1>1
  <2>5. \A t \in starts' : t < total + length
    BY <1>3, <2>1, <2>4
  <2>6. 0 \in starts'
    BY <1>1, <2>2, <2>3
  <2> QED BY <1>2, <1>4, <2>5, <2>6 DEF Begins
<1>6. ASSUME ~sparse' PROVE Listing'
  <2> DEFINE r == iframe_buff_rpos
             n == Live(r, iframe_buff_wpos')
             fresh == key /\ frame_start = None
             e(j) == iframe_buff'[Nth(j, r)]
             P(j) == IF fresh /\ j = n - 1 THEN total ELSE ByteOf(e(j), cb_wptr, total, 0)
  <2>1. ~sparse /\ \A s \in starts : (\A t \in starts : t <= s) => total + length <= s + BufLen
    <3>1. ~sparse /\ ~\E s \in starts : /\ \A t \in starts : t <= s
                                       /\ total + length > s + BufLen
      BY <1>1, <1>3, <1>6
    <3>2. \A s \in starts : total + length > s + BufLen \/ total + length <= s + BufLen
      BY <1>3
    <3> QED BY <3>1, <3>2
  <2>2. /\ n \in 1 .. ListLen
        /\ \A j \in 0 .. n - 1 : e(j) \in Slots /\ P(j) \in starts'
        /\ \A i, j \in 0 .. n - 1 : i <= j => P(i) <= P(j)
        /\ \A t \in starts' : t <= P(n - 1)
        /\ ~crowded' => \A t \in starts' : t + BufLen >= total + length
                                              => \E j \in 0 .. n - 1 : P(j) = t
        /\ fresh => e(n - 1) = cb_wptr
        /\ n > 1 => \E q \in 0 .. n - 1 : ~Overtaken(e(q), length)
        /\ n = 1 /\ ~fresh => ~Overtaken(e(0), length)
    <3>1. Added(iframe_buff', iframe_buff_wpos', starts', length, key)
      BY <1>1, <1>2, <2>1, EntryAdded
    <3> QED BY <1>1, <3>1 DEF Added
  <2>3. \A p \in Slots :
           /\ Overtaken(p, length) <=> Ahead(p, cb_wptr) < length
           /\ ByteOf(p, cb_wptr, total, 0) + BufLen >= total + length
                 <=> ~(Ahead(p, cb_wptr) < length)
           /\ ~(Ahead(p, cb_wptr) < length)
                 => ByteOf(p, cb_wptr, total, length) = ByteOf(p, cb_wptr, total, 0)
    <3>1. length \in 0 .. BufLen
      BY <1>3
    <3> QED BY <1>3, <3>1, ByteKept, OvertakenIsNear
  <2>4. ByteOf(cb_wptr, cb_wptr, total, length) = total
    <3>1. length \in 0 .. BufLen /\ length > 0
      BY <1>3
    <3> QED BY <1>3, <3>1, ByteKept
  \* What has been passed, and where that ends.
  <2>5. PICK k \in 0 .. n - 1 :
           /\ iframe_buff_rpos' = Nth(k, r) /\ cb' = "copies"
           /\ \A j \in 0 .. k - 1 : Overtaken(e(j), length)
           /\ n > 1 => ~Overtaken(e(k), length)
    <3>1. n = 1 <=> NextEntry(r) = iframe_buff_wpos'
      BY <1>3, OneMore
    <3>2. CASE n = 1
      <4>1. Nth(0, r) = r
        BY <1>3 DEF Nth, Entries
      <4>2. iframe_buff_rpos' = r /\ cb' = "copies"
        BY <1>1, <3>1, <3>2
      <4> HIDE DEF n
      <4> QED BY <3>2, <4>1, <4>2
    <3>3. CASE n # 1
      <4>1. PICK q \in 0 .. n - 1 : ~Overtaken(e(q), length)
        BY <2>2, <3>3
      <4>2. q \in 0 .. ListLen /\ Nth(q, r) \in Entries
        BY <1>3, <2>2, NthPlace
      <4>3. Passes(iframe_buff', length, iframe_buff_rpos') /\ cb' = "copies"
        BY <1>1, <3>1, <3>3, <4>1, <4>2
      <4>4. PICK k \in Entries :
               /\ iframe_buff_rpos' = (r + k) % ListLen
               /\ ~Overtaken(iframe_buff'[iframe_buff_rpos'], length)
               /\ \A j \in 0 .. k - 1 : Overtaken(iframe_buff'[(r + j) % ListLen], length)
        BY <4>3 DEF Passes
      <4>5. k \in 0 .. ListLen - 1 /\ \A j \in 0 .. k - 1 : j \in 0 .. ListLen
        BY <1>3 DEF Entries
      <4>6. iframe_buff_rpos' = Nth(k, r)
        BY <1>3, <4>4, <4>5, NthPlace
      <4>7. \A j \in 0 .. k - 1 : Overtaken(e(j), length)
        BY <1>3, <4>4, <4>5, NthPlace
      <4> HIDE DEF n, e
      <4>8. ~(q < k)
        BY <4>1, <4>5, <4>7
      <4>9. k \in 0 .. n - 1
        BY <2>2, <4>1, <4>5, <4>8
      <4> USE DEF e
      <4> QED BY <4>3, <4>4, <4>6, <4>7, <4>9
    <3> QED BY <3>2, <3>3
  <2>6. /\ n - k \in 1 .. n /\ Count' = n - k
        /\ \A j \in 0 .. n - k - 1 : k + j \in 0 .. n - 1 /\ Place(j)' = e(k + j)
    <3>1. Live(Nth(k, r), iframe_buff_wpos') = n - k
      BY <1>3, LiveCount
    <3> HIDE DEF n
    <3>2. n - k \in 1 .. n /\ k \in 0 .. ListLen - 1
      BY <1>3, <2>2
    <3>3. ASSUME NEW j \in 0 .. n - k - 1
          PROVE  k + j \in 0 .. n - 1 /\ Place(j)' = e(k + j)
      <4>1. k + j \in 0 .. n - 1 /\ k + j <= ListLen /\ j \in 0 .. ListLen
        BY <1>3, <2>2
      <4>2. Nth(j, Nth(k, r)) = Nth(k + j, r)
        BY <1>3, <3>2, <4>1, NthFrom
      <4> QED BY <2>5, <4>1, <4>2 DEF Place
    <3> QED BY <2>5, <3>1, <3>2, <3>3 DEF Count
  <2>7. P(k) + BufLen >= total + length
    <3>1. CASE fresh /\ k = n - 1
      BY <1>3, <3>1
    <3>2. CASE ~(fresh /\ k = n - 1)
      <4>1. ~Overtaken(e(k), length)
        <5>1. n > 1 => ~Overtaken(e(k), length)
          BY <2>5
        <5>2. n = 1 => k = 0 /\ ~fresh
          BY <3>2
        <5> HIDE DEF n, e
        <5> QED BY <2>2, <5>1, <5>2
      <4>2. P(k) = ByteOf(e(k), cb_wptr, total, 0) /\ e(k) \in Slots
        BY <2>2, <3>2
      <4> HIDE DEF n, e, P
      <4> QED BY <2>3, <4>1, <4>2
    <3> QED BY <3>1, <3>2
  <2>8. ASSUME NEW j \in 0 .. n - k - 1 PROVE StartOf(j)' = P(k + j)
    <3>1. StartOf(j)' = ByteOf(e(k + j), cb_wptr, total, length)
      BY <1>2, <1>4, <2>6 DEF StartOf
    <3>2. k + j \in 0 .. n - 1 /\ e(k + j) \in Slots
      BY <2>2, <2>6
    <3>3. CASE fresh /\ k + j = n - 1
      BY <2>2, <2>4, <3>1, <3>3
    <3>4. CASE ~(fresh /\ k + j = n - 1)
      <4>1. P(k + j) = ByteOf(e(k + j), cb_wptr, total, 0)
        BY <3>4
      <4> HIDE DEF n, P, e
      <4>2. P(k) <= P(k + j) /\ P(k) \in Int /\ P(k + j) \in Int
        <5>1. k <= k + j
          BY <2>5
        <5>2. P(k) \in starts' /\ P(k + j) \in starts'
          BY <2>2, <2>5, <3>2
        <5>3. P(k) <= P(k + j)
          BY <2>2, <2>5, <3>2, <5>1
        <5> QED BY <1>3, <5>2, <5>3
      <4>3. P(k + j) + BufLen >= total + length
        BY <1>3, <2>7, <4>2
      <4> QED BY <2>3, <3>1, <3>2, <4>1, <4>3
    <3> QED BY <3>3, <3>4
  <2> HIDE DEF n, P
  <2>9. InOrder'
    <3>1. \A j \in 0 .. Count' - 1 : StartOf(j)' = P(k + j) /\ k + j \in 0 .. n - 1
      BY <2>6, <2>8
    <3>2. \A j \in 0 .. Count' - 1 : StartOf(j)' \in starts'
      BY <2>2, <3>1
    <3>3. ASSUME NEW i \in 0 .. Count' - 1, NEW j \in 0 .. Count' - 1, i <= j
          PROVE  StartOf(i)' <= StartOf(j)'
      <4>1. k + i <= k + j
        BY <2>5, <2>6, <3>3
      <4> QED BY <2>2, <3>1, <4>1
    <3>4. ASSUME NEW j \in {Count' - 1} PROVE \A t \in starts' : t <= StartOf(j)'
      <4>1. j \in 0 .. Count' - 1 /\ k + j = n - 1
        BY <1>3, <2>2, <2>5, <2>6
      <4>2. StartOf(j)' = P(n - 1)
        BY <3>1, <4>1
      <4> QED BY <2>2, <4>2
    <3> QED BY <3>2, <3>3, <3>4 DEF InOrder
  <2>10. AllThere'
    <3> SUFFICES ASSUME ~crowded', NEW t \in starts', t + BufLen >= total + length
                 PROVE  \E j \in 0 .. Count' - 1 : StartOf(j)' = t
      BY <1>2, <1>4 DEF AllThere
    <3>1. PICK i \in 0 .. n - 1 : P(i) = t
      BY <2>2
    <3>2. ~(i < k)
      <4> SUFFICES ASSUME i < k PROVE FALSE
        OBVIOUS
      <4>1. Overtaken(e(i), length) /\ i # n - 1 /\ e(i) \in Slots
        BY <2>2, <2>5, <3>1
      <4>2. P(i) = ByteOf(e(i), cb_wptr, total, 0)
        BY <4>1 DEF P
      <4> QED BY <2>3, <3>1, <4>1, <4>2
    <3>3. i - k \in 0 .. Count' - 1 /\ k + (i - k) = i
      BY <2>2, <2>5, <2>6, <3>1, <3>2
    <3> QED BY <2>6, <2>8, <3>1, <3>3
  <2>11. FrameIsNewest'
    <3> SUFFICES ASSUME frame_start' # None, key
                 PROVE  /\ ByteOf(FrameStart, cb_wptr, total, length) \in starts'
                        /\ \A t \in starts' : t <= ByteOf(FrameStart, cb_wptr, total, length)
      BY <1>1, <1>2, <1>4 DEF FrameIsNewest
    <3>1. n - 1 \in 0 .. n - 1 /\ P(n - 1) \in starts' /\ (\A t \in starts' : t <= P(n - 1))
      BY <2>2
    <3>2. CASE fresh
      <4>1. FrameStart = cb_wptr
        BY <3>2 DEF FrameStart
      <4>2. P(n - 1) = total
        BY <3>2 DEF P
      <4> QED BY <2>4, <3>1, <4>1, <4>2
    <3>3. CASE ~fresh
      <4>1. /\ FrameStart = frame_start /\ frame_start # None /\ chunk.key
            /\ starts' = starts /\ starts # {}
        BY <1>1, <3>3 DEF FrameStart, LInv, Begins
      <4>2. FrameStart \in Slots
        BY <4>1 DEF IInv, TypeOK
      <4>3. /\ ByteOf(FrameStart, cb_wptr, total, 0) \in starts
            /\ \A t \in starts : t <= ByteOf(FrameStart, cb_wptr, total, 0)
        BY <1>4, <2>1, <4>1 DEF LInv, Listing, FrameIsNewest
      <4>4. total + length <= ByteOf(FrameStart, cb_wptr, total, 0) + BufLen
        BY <2>1, <4>3
      <4>5. ByteOf(FrameStart, cb_wptr, total, length) = ByteOf(FrameStart, cb_wptr, total, 0)
        <5>1. ByteOf(FrameStart, cb_wptr, total, 0) \in Int
          BY <1>3, <4>1, <4>3
        <5>2. ByteOf(FrameStart, cb_wptr, total, 0) + BufLen >= total + length
          BY <1>3, <4>4, <5>1
        <5> QED BY <2>3, <4>2, <5>2
      <4> QED BY <4>1, <4>3, <4>5
    <3> QED BY <3>2, <3>3
  <2> QED BY <2>5, <2>9, <2>10, <2>11 DEF Listing
<1> QED BY <1>5, <1>6 DEF LInv

\* When the write position moves on, the same slots stand for the same bytes.
LEMMA AdvancesKeepsList == IInv /\ LInv /\ CallbackAdvances => LInv'
<1> SUFFICES ASSUME IInv, LInv, CallbackAdvances PROVE LInv'
  OBVIOUS
<1>1. /\ cb = "advances" /\ cb' = "idle" /\ total' = total + chunk.length
      /\ UNCHANGED <<frame_start, chunk, starts, sparse, crowded,
                     iframe_buff, iframe_buff_wpos, iframe_buff_rpos>>
  BY DEF CallbackAdvances, list
<1>2. /\ Under = chunk.length /\ Under' = 0 /\ total + Under = total' + Under'
      /\ chunk.length \in 1 .. BufLen /\ total \in Nat /\ cb_wptr \in Slots
      /\ iframe_buff \in [Entries -> Slots] /\ iframe_buff_rpos \in Entries
      /\ iframe_buff_wpos \in Entries /\ frame_start \in Slots \union {None}
  BY <1>1, RingAssumption DEF Under, IInv, TypeOK, Bytes
<1>3. ASSUME NEW p \in Slots
      PROVE  ByteOf(p, cb_wptr', total', Under') = ByteOf(p, cb_wptr, total, Under)
  <2>1. cb_wptr' = IF cb_wptr + chunk.length < BufLen THEN cb_wptr + chunk.length
                   ELSE cb_wptr + chunk.length - BufLen
    BY NewPosition
  <2> QED BY <1>1, <1>2, <2>1, ByteMoves
<1>4. Begins'
  BY <1>1, <1>2 DEF LInv, Begins
<1>5. Count \in 1 .. ListLen /\ Count' = Count
  BY <1>1, <1>2, LiveCount DEF Count
<1>6. ASSUME NEW j \in 0 .. Count - 1 PROVE StartOf(j)' = StartOf(j)
  <2>1. j \in 0 .. ListLen
    BY <1>5, RingAssumption
  <2>2. Nth(j, iframe_buff_rpos) \in Entries
    BY <1>2, <2>1, NthPlace
  <2>3. Place(j) \in Slots /\ Place(j)' = Place(j)
    BY <1>1, <1>2, <2>2 DEF Place
  <2> QED BY <1>3, <2>3 DEF StartOf
<1>7. ASSUME ~sparse, starts # {} PROVE InOrder' /\ AllThere' /\ FrameIsNewest'
  <2>1. InOrder /\ AllThere /\ FrameIsNewest
    BY <1>7 DEF LInv, Listing
  <2>2. InOrder'
    <3>1. \A j \in {Count - 1} : j \in 0 .. Count - 1
      BY <1>5, RingAssumption
    <3> QED BY <1>1, <1>5, <1>6, <2>1, <3>1 DEF InOrder
  <2>3. AllThere'
    BY <1>1, <1>2, <1>5, <1>6, <2>1 DEF AllThere
  <2>4. FrameIsNewest'
    BY <1>1, <1>2, <1>3, <2>1 DEF FrameIsNewest
  <2> QED BY <2>2, <2>3, <2>4
<1>8. ~sparse' => Listing'
  BY <1>1, <1>7 DEF Listing
<1> QED BY <1>4, <1>8 DEF LInv

\* Nobody else touches the list, or moves the write position.
LEMMA OthersKeepList ==
    IInv /\ LInv /\ (CallbackCopies \/ CallbackKeepsHeader \/ Main \/ UNCHANGED vars) => LInv'
<1> SUFFICES ASSUME IInv, LInv,
                    CallbackCopies \/ CallbackKeepsHeader \/ Main \/ UNCHANGED vars
             PROVE  LInv'
  OBVIOUS
<1>1. UNCHANGED <<cb_wptr, total, frame_start, chunk, starts, sparse, crowded,
                  iframe_buff, iframe_buff_wpos, iframe_buff_rpos>>
  BY DEF CallbackCopies, CallbackKeepsHeader, Main, MainSizes, MainWritesEnd,
     MainWritesStart, vars, incoming, list, writing
<1>2. cb' = cb \/ (cb = "copies" /\ cb' = "advances")
  <2>1. CASE CallbackCopies
    BY <2>1 DEF CallbackCopies
  <2>2. CASE CallbackKeepsHeader
    BY <2>2 DEF CallbackKeepsHeader
  <2>3. CASE Main \/ UNCHANGED vars
    BY <2>3 DEF Main, MainSizes, MainWritesEnd, MainWritesStart, vars, incoming
  <2> QED BY <2>1, <2>2, <2>3
<1>3. Under' = Under /\ Count' = Count /\ (\A j : StartOf(j)' = StartOf(j))
  BY <1>1, <1>2 DEF Under, Count, StartOf, Place
<1>4. Begins'
  BY <1>1, <1>2, <1>3 DEF LInv, Begins
<1>5. InOrder => InOrder'
  BY <1>1, <1>3 DEF InOrder
<1>6. AllThere => AllThere'
  BY <1>1, <1>3 DEF AllThere
<1>7. FrameIsNewest => FrameIsNewest'
  BY <1>1, <1>3 DEF FrameIsNewest
<1> QED BY <1>1, <1>2, <1>4, <1>5, <1>6, <1>7 DEF LInv, Listing

LEMMA InitList == Init => LInv
  BY DEF Init, LInv, Begins, Listing

LEMMA NextList == IInv /\ IInv' /\ LInv /\ [Next]_vars => LInv'
  BY ListsKeepsList, AdvancesKeepsList, OthersKeepList DEF Next, Callback

---------------------------------------------------------------------------
(* What is saved.                                                          *)

LEMMA InitSave == Init => SInv
  BY DEF Init, SInv, WrapKnown, Plan, Written, LapStart

\* The callback moves the position and the wrap together, and leaves the save
\* alone or disturbs it.
LEMMA CallbackKeepsSave == IInv /\ SInv /\ Callback => SInv'
<1> SUFFICES ASSUME IInv, SInv, Callback PROVE SInv'
  OBVIOUS
<1>1. /\ UNCHANGED saving
      /\ ~disturbed' => main \notin {"sized", "half"} \/ (cb = "idle" /\ UNCHANGED incoming)
  <2>1. CASE CallbackLists \/ CallbackCopies \/ CallbackAdvances
    BY <2>1 DEF CallbackLists, CallbackCopies, CallbackAdvances, Saving
  <2>2. CASE CallbackKeepsHeader
    BY <2>2 DEF CallbackKeepsHeader
  <2> QED BY <2>1, <2>2 DEF Callback
<1>2. main = "saved" => disturbed /\ disturbed'
  <2>1. CASE CallbackLists \/ CallbackKeepsHeader
    BY <2>1 DEF CallbackLists, CallbackKeepsHeader
  <2>2. CASE CallbackCopies \/ CallbackAdvances
    <3>1. cb # "idle" /\ (disturbed => disturbed')
      BY <2>2 DEF CallbackCopies, CallbackAdvances
    <3> QED BY <3>1 DEF SInv, Plan
  <2> QED BY <2>1, <2>2 DEF Callback
<1>3. WrapKnown'
  <2>1. CASE CallbackAdvances
    <3>1. /\ cb_wptr \in Slots /\ chunk.length \in 1 .. BufLen /\ total \in Nat
          /\ LapStart = 0 \/ LapStart >= BufLen
          /\ BufLen \in Nat /\ BufLen > 0
      BY RingAssumption DEF IInv, TypeOK, Laps, Bytes
    <3>3. LapStart' = IF cb_wptr + chunk.length < BufLen THEN LapStart ELSE LapStart + BufLen
      <4>1. cb_wptr' = IF cb_wptr + chunk.length < BufLen THEN cb_wptr + chunk.length
                       ELSE cb_wptr + chunk.length - BufLen
        BY <2>1, NewPosition
      <4>2. total' = total + chunk.length
        BY <2>1 DEF CallbackAdvances
      <4> QED BY <3>1, <4>1, <4>2 DEF LapStart, Slots
    <3>4. /\ cb_wrap' = (cb_wrap \/ cb_wptr + chunk.length > BufLen)
          /\ filled' = (filled \/ cb_wptr + chunk.length = BufLen)
          /\ cb_wrap \in BOOLEAN /\ filled \in BOOLEAN
      BY <2>1 DEF CallbackAdvances, IInv, TypeOK
    <3>5. LapStart \in Int /\ cb_wptr + chunk.length \in Int
      BY <3>1 DEF LapStart, Slots
    <3>6. /\ ~cb_wrap /\ ~filled => LapStart = 0
          /\ cb_wrap => LapStart > 0
      BY DEF SInv, WrapKnown
    <3>7. CASE cb_wptr + chunk.length < BufLen
      BY <3>1, <3>3, <3>4, <3>5, <3>6, <3>7 DEF WrapKnown
    <3>8. CASE cb_wptr + chunk.length >= BufLen
      <4>1. LapStart' = LapStart + BufLen
        BY <3>3, <3>5, <3>8, RingAssumption
      <4>2. LapStart' > 0
        BY <3>1, <3>5, <4>1
      <4>3. cb_wrap' \/ filled'
        <5>1. cb_wptr + chunk.length = BufLen \/ cb_wptr + chunk.length > BufLen
          BY <3>1, <3>5, <3>8
        <5> QED BY <3>4, <5>1
      <4> QED BY <4>2, <4>3 DEF WrapKnown
    <3> QED BY <3>1, <3>5, <3>7, <3>8
  <2>2. CASE ~CallbackAdvances
    <3>1. UNCHANGED <<cb_wrap, filled, total, cb_wptr>>
      BY <2>2 DEF Callback, CallbackLists, CallbackCopies, CallbackKeepsHeader, writing
    <3> QED BY <3>1 DEF SInv, WrapKnown, LapStart
  <2> QED BY <2>1, <2>2
<1>4. Plan' /\ Written'
  <2>1. CASE main = "capture"
    BY <1>1, <2>1 DEF saving, SInv, Plan, Written
  <2>2. CASE main # "capture"
    <3>1. main \in {"sized", "half", "saved"}
      BY <2>2 DEF IInv, TypeOK
    <3>2. disturbed'
      <4> SUFFICES ASSUME ~disturbed', main \in {"sized", "half"} PROVE FALSE
        BY <1>2, <3>1
      <4>1. CASE CallbackKeepsHeader
        BY <2>2, <4>1 DEF CallbackKeepsHeader
      <4>2. CASE ~CallbackKeepsHeader
        BY <4>2 DEF Callback, CallbackLists, CallbackCopies, CallbackAdvances, Saving
      <4> QED BY <4>1, <4>2
    <3> QED BY <1>1, <3>2 DEF saving, SInv, Plan, Written
  <2> QED BY <2>1, <2>2
<1> QED BY <1>3, <1>4 DEF SInv

\* main does as planned.
LEMMA MainKeepsSave == IInv /\ IInv' /\ SInv /\ Main => SInv'
<1> SUFFICES ASSUME IInv, IInv', SInv, Main PROVE SInv'
  OBVIOUS
<1> USE RingAssumption
<1>1. UNCHANGED incoming
  BY DEF Main, MainSizes, MainWritesEnd, MainWritesStart
<1>2. WrapKnown'
  BY <1>1 DEF incoming, writing, SInv, WrapKnown, LapStart
<1>3. CASE MainSizes
  <2>1. Plan'
    <3>1. UNCHANGED <<cb, total, cb_wrap, cb_wptr, iframe_buff, iframe_buff_rpos>>
      BY <1>1 DEF incoming, writing, list
    <3>2. /\ origin' = iframe_buff[iframe_buff_rpos] /\ upto' = total
          /\ copy_from_end' = IF cb_wrap THEN BufLen - origin' ELSE 0
          /\ copy_from_start' = IF cb_wrap /\ origin' <= cb_wptr THEN origin' ELSE cb_wptr
          /\ ~disturbed' => cb = "idle"
      BY <1>3 DEF MainSizes
    <3> QED BY <3>1, <3>2 DEF Plan
  <2>2. Written'
    BY <1>3 DEF MainSizes, Written
  <2> QED BY <1>2, <2>1, <2>2 DEF SInv
<1>4. CASE MainWritesEnd
  <2> DEFINE from == iframe_buff[iframe_buff_rpos]
  <2>1. /\ main = "sized" /\ main' = "half"
        /\ saved' = [i \in 1 .. copy_from_end |-> Slot(from + i - 1)]
        /\ UNCHANGED <<copy_from_end, copy_from_start, origin, upto, disturbed>>
    BY <1>4 DEF MainWritesEnd
  <2>2. Plan'
    BY <1>1, <2>1 DEF incoming, writing, list, SInv, Plan
  <2>3. saved' \in Seq(Int) /\ copy_from_end \in Nat
    BY <2>1 DEF IInv, TypeOK, SizesHold
  <2>4. Len(saved') = copy_from_end
    BY <2>1, <2>3
  <2>5. ASSUME ~disturbed, NEW i \in 1 .. copy_from_end
        PROVE  saved'[i] = cb_buff'[origin' + i - 1]
    <3>1. origin = from /\ copy_from_end \in {0, BufLen - origin} /\ origin \in Slots
      BY <2>1, <2>5 DEF SInv, Plan, IInv, TypeOK, SizesHold
    <3>2. from + i - 1 \in Slots
      <4> HIDE DEF from
      <4> QED BY <3>1 DEF Slots
    <3>3. saved'[i] = cb_buff[from + i - 1]
      BY <2>1, <3>2 DEF Slot
    <3> QED BY <1>1, <2>1, <3>1, <3>3 DEF incoming, writing
  <2>6. Written'
    BY <2>1, <2>3, <2>4, <2>5 DEF Written
  <2> QED BY <1>2, <2>2, <2>6 DEF SInv
<1>5. CASE MainWritesStart
  <2> DEFINE rest == [i \in 1 .. copy_from_start |-> Slot(i - 1)]
  <2>1. /\ main = "half" /\ main' = "saved" /\ saved' = saved \o rest
        /\ UNCHANGED <<copy_from_end, copy_from_start, origin, upto, disturbed>>
    BY <1>5 DEF MainWritesStart
  <2>2. Plan'
    BY <1>1, <2>1 DEF incoming, writing, list, SInv, Plan
  <2>3. /\ copy_from_end \in Nat /\ copy_from_start \in Slots /\ saved \in Seq(Int)
        /\ ~disturbed => Len(saved) = copy_from_end
        /\ ~disturbed => \A i \in 1 .. copy_from_end : saved[i] = cb_buff[origin + i - 1]
    BY <2>1 DEF SInv, Written, IInv, TypeOK
  <2>4. \A i \in 1 .. copy_from_start : i - 1 \in Slots /\ rest[i] = cb_buff[i - 1]
    BY <2>3 DEF Slots, Slot
  <2>5. \A s \in Slots : cb_buff[s] \in Int
    BY DEF IInv, TypeOK, Bytes, None
  <2>6. rest \in Seq(Int) /\ Len(rest) = copy_from_start
    <3>1. rest \in [1 .. copy_from_start -> Int]
      BY <2>4, <2>5
    <3>2. copy_from_start \in Nat
      BY <2>3 DEF Slots
    <3> HIDE DEF rest
    <3>3. rest \in Seq(Int) /\ DOMAIN rest = 1 .. copy_from_start
      BY <3>1, <3>2, IsSeq
    <3> QED BY <3>2, <3>3
  <2> HIDE DEF rest
  <2>7. /\ saved' \in Seq(Int)
        /\ Len(saved') = Len(saved) + copy_from_start
        /\ \A i \in 1 .. Len(saved) : saved'[i] = saved[i]
        /\ \A i \in 1 .. copy_from_start : saved'[Len(saved) + i] = rest[i]
    <3>1. Len(saved) \in Nat /\ Len(rest) \in Nat /\ saved' = saved \o rest
      BY <2>1, <2>3, <2>6
    <3>2. saved \o rest \in Seq(Int) /\ Len(saved \o rest) = Len(saved) + Len(rest)
      BY <2>3, <2>6
    <3>3. \A i \in 1 .. Len(saved) + Len(rest) :
             (saved \o rest)[i] = IF i <= Len(saved) THEN saved[i] ELSE rest[i - Len(saved)]
      BY <2>3, <2>6
    <3>4. \A i \in 1 .. Len(saved) : saved'[i] = saved[i]
      BY <3>1, <3>3
    <3>5. ASSUME NEW i \in 1 .. copy_from_start PROVE saved'[Len(saved) + i] = rest[i]
      <4>1. /\ Len(saved) + i \in 1 .. Len(saved) + Len(rest)
            /\ ~(Len(saved) + i <= Len(saved)) /\ Len(saved) + i - Len(saved) = i
        BY <2>6, <3>1
      <4> QED BY <3>1, <3>3, <4>1
    <3> QED BY <2>6, <3>1, <3>2, <3>4, <3>5
  <2>8. cb_buff' = cb_buff
    BY <1>1 DEF incoming, writing
  <2>9. Written'
    BY <2>1, <2>3, <2>4, <2>7, <2>8 DEF Written
  <2> QED BY <1>2, <2>2, <2>9 DEF SInv
<1> QED BY <1>3, <1>4, <1>5 DEF Main

LEMMA NextSave == IInv /\ IInv' /\ SInv /\ [Next]_vars => SInv'
<1>1. SInv /\ UNCHANGED vars => SInv'
  BY DEF vars, incoming, list, writing, saving, SInv, WrapKnown, Plan, Written, LapStart
<1> QED BY <1>1, CallbackKeepsSave, MainKeepsSave DEF Next

---------------------------------------------------------------------------
(* The theorems.                                                           *)

Inv == IInv /\ LInv /\ SInv

\* In every state callback and main reach, ring, list and save fit together.
THEOREM Invariance == Spec => []Inv
<1>1. Init => Inv
  BY InitInv, InitList, InitSave DEF Inv
<1>2. Inv /\ [Next]_vars => Inv'
  BY NextInv, NextList, NextSave DEF Inv
<1> QED
  BY <1>1, <1>2, PTL DEF Spec

\* All variables keep their types: the write position and every entry of the
\* list stay within the ring, whatever chunks come.
THEOREM TypeCorrectness == Spec => []TypeOK
<1>1. Inv => TypeOK
  BY DEF Inv, IInv
<1> QED
  BY <1>1, Invariance, PTL

\* Between two chunks every slot of the ring holds the latest byte for it.
THEOREM RingIsCurrent == Spec => []RingHoldsLatest
<1>1. Inv => RingHoldsLatest
  BY DEF Inv, IInv, RingNow, RingHoldsLatest
<1> QED
  BY <1>1, Invariance, PTL

\* A save that reads beyond the ring was run into by the callback.
THEOREM OverreadIsARace == Spec => []OverreadNeedsRace
<1>1. Inv => OverreadNeedsRace
  BY DEF Inv, IInv, TypeOK, SizesHold, OverreadNeedsRace
<1> QED
  BY <1>1, Invariance, PTL

\* What Listed collects are the live entries' places.
LEMMA ListedLive ==
    ASSUME TypeOK, NEW e \in Listed PROVE \E j \in 0 .. Count - 1 : e = Nth(j, iframe_buff_rpos)
<1> DEFINE r == iframe_buff_rpos
<1>1. /\ r \in Entries /\ iframe_buff_wpos \in Entries /\ ListLen \in Nat
  BY RingAssumption DEF TypeOK
<1>2. Count \in 1 .. ListLen /\ Nth(Count, r) = iframe_buff_wpos
  BY <1>1, LiveCount DEF Count
<1>3. PICK k \in Entries : /\ e = (r + k) % ListLen
                           /\ \A j \in 0 .. k : (r + j) % ListLen # iframe_buff_wpos
  BY DEF Listed
<1>4. k \in 0 .. ListLen - 1 /\ k \in 0 .. ListLen /\ e = Nth(k, r)
  <2>1. k \in 0 .. ListLen - 1 /\ k \in 0 .. ListLen
    BY <1>1 DEF Entries
  <2> QED BY <1>1, <1>3, <2>1, NthPlace
<1>5. ~(Count <= k)
  <2> SUFFICES ASSUME Count <= k PROVE FALSE
    OBVIOUS
  <2>1. Count \in 0 .. k /\ Count \in 0 .. ListLen
    BY <1>2, <1>4
  <2>2. (r + Count) % ListLen = iframe_buff_wpos
    BY <1>1, <1>2, <2>1, NthPlace
  <2> QED BY <1>3, <2>1, <2>2
<1>6. k \in 0 .. Count - 1
  BY <1>2, <1>4, <1>5
<1> QED BY <1>4, <1>6

\* For any ring, list and length of chunks: as long as a chunk never runs over
\* the newest I-frame, the callback's search for the oldest entry comes to an end
\* and every entry of the list is the place of an I-frame that is still there.
THEOREM ListIsOfIFrames == Spec => []ListHoldsIFrames
<1>1. Inv => ListHoldsIFrames
  <2> SUFFICES ASSUME Inv, ~sparse
               PROVE  /\ cb # "spins"
                      /\ cb = "idle" => \A e \in Listed : cb_buff[iframe_buff[e]] \in starts
    BY DEF ListHoldsIFrames
  <2>1. /\ TypeOK /\ Laps /\ Listing /\ Begins
        /\ cb = "idle" => Holds(cb_buff, cb_wptr, LapStart)
    BY DEF Inv, IInv, LInv, RingNow
  <2>2. ASSUME cb = "idle", NEW e \in Listed PROVE cb_buff[iframe_buff[e]] \in starts
    <3>1. PICK j \in 0 .. Count - 1 : e = Nth(j, iframe_buff_rpos)
      BY <2>1, ListedLive
    <3>2. iframe_buff[e] \in Slots
      BY <2>1 DEF TypeOK, Listed
    <3>3. starts # {}
      <4> SUFFICES ASSUME starts = {} PROVE FALSE
        OBVIOUS
      <4>1. iframe_buff_rpos = 0 /\ iframe_buff_wpos = 0
        BY <2>1 DEF Begins
      <4>2. PICK k \in Entries : \A i \in 0 .. k : (0 + i) % ListLen # 0
        BY <4>1 DEF Listed
      <4>3. 0 \in 0 .. k /\ 0 \in Entries /\ 0 \in 0 .. ListLen /\ Nth(0, 0) = 0
        BY RingAssumption DEF Entries, Nth
      <4>4. (0 + 0) % ListLen = 0
        BY <4>3, NthPlace
      <4> QED BY <4>2, <4>3, <4>4
    <3>4. ByteOf(iframe_buff[e], cb_wptr, total, 0) \in starts
      BY <2>1, <2>2, <3>1, <3>3 DEF Listing, InOrder, StartOf, Place, Under
    <3>5. 0 <= ByteOf(iframe_buff[e], cb_wptr, total, 0)
      <4>1. starts \subseteq Bytes
        BY <2>1 DEF TypeOK
      <4>2. \A b \in Bytes : 0 <= b
        BY DEF Bytes
      <4> QED BY <3>4, <4>1, <4>2
    <3> QED BY <2>1, <2>2, <3>2, <3>4, <3>5, ByteInSlot
  <2> QED BY <2>1, <2>2 DEF Listing
<1> QED
  BY <1>1, Invariance, PTL

\* The I-frame the read position stands for is the oldest that is in the ring.
LEMMA ReadsOldest ==
    ASSUME Inv, Undisturbed
    PROVE  LET s == ByteOf(origin, cb_wptr, total, 0)
           IN  /\ s \in starts /\ s \in Nat /\ s < total /\ s + BufLen >= total
               /\ \A t \in starts : t + BufLen >= total => s <= t
               /\ 0 \in starts /\ upto = total
<1> DEFINE s == ByteOf(origin, cb_wptr, total, 0)
<1>1. /\ cb = "idle" /\ upto = total /\ total > 0 /\ origin = iframe_buff[iframe_buff_rpos]
      /\ ~sparse /\ ~crowded /\ Begins /\ Listing /\ TypeOK
  BY DEF Inv, SInv, Plan, Undisturbed, LInv, IInv
<1>2. starts # {} /\ 0 \in starts /\ Under = 0
  BY <1>1 DEF Begins, Under
<1>3. InOrder /\ AllThere
  BY <1>1, <1>2 DEF Listing
<1>4. /\ iframe_buff_rpos \in Entries /\ iframe_buff_wpos \in Entries /\ total \in Nat
      /\ origin \in Slots /\ cb_wptr \in Slots
  BY <1>1 DEF TypeOK, Bytes
<1>5. starts \subseteq Nat
  BY <1>1 DEF TypeOK, Bytes
<1>6. Count \in 1 .. ListLen /\ 0 \in 0 .. Count - 1
  <2>1. Count \in 1 .. ListLen
    BY <1>4, LiveCount DEF Count
  <2> QED BY <2>1, RingAssumption
<1>7. StartOf(0) = s
  <2>1. Nth(0, iframe_buff_rpos) = iframe_buff_rpos
    BY <1>4, RingAssumption DEF Nth, Entries
  <2> QED BY <1>1, <1>2, <2>1 DEF StartOf, Place
<1>8. s \in starts /\ s \in Nat
  BY <1>3, <1>5, <1>6, <1>7 DEF InOrder
<1>9. s < total
  BY <1>1, <1>2, <1>4, <1>8 DEF Begins
<1>10. s + BufLen >= total
  <2>1. Ahead(origin, cb_wptr) \in 0 .. BufLen - 1 /\ s = total + Ahead(origin, cb_wptr) - BufLen
    BY <1>4, ByteKept, RingAssumption
  <2> QED BY <1>4, <2>1, RingAssumption
<1>11. ASSUME NEW t \in starts, t + BufLen >= total PROVE s <= t
  <2>1. t + BufLen >= total + Under
    BY <1>2, <1>4, <1>11
  <2>2. PICK j \in 0 .. Count - 1 : StartOf(j) = t
    BY <1>1, <1>3, <2>1 DEF AllThere
  <2>3. 0 <= j
    BY <1>6
  <2> QED BY <1>3, <1>6, <1>7, <2>2, <2>3 DEF InOrder
<1> QED BY <1>1, <1>2, <1>8, <1>9, <1>10, <1>11

\* The file's first bytes are those of the stream, one by one.
LEMMA SavedInOrder ==
    ASSUME Inv, Undisturbed
    PROVE  LET s == ByteOf(origin, cb_wptr, total, 0)
           IN  /\ saved \in Seq(Int) /\ Len(saved) >= total - s
               /\ \A i \in 1 .. total - s : saved[i] = s + i - 1
<1> DEFINE s == ByteOf(origin, cb_wptr, total, 0)
<1>1. /\ cb = "idle"
      /\ copy_from_end = IF cb_wrap THEN BufLen - origin ELSE 0
      /\ copy_from_start = IF cb_wrap /\ origin <= cb_wptr THEN origin ELSE cb_wptr
      /\ Len(saved) = copy_from_end + copy_from_start
      /\ \A i \in 1 .. copy_from_end : saved[i] = cb_buff[origin + i - 1]
      /\ \A i \in 1 .. copy_from_start : saved[copy_from_end + i] = cb_buff[i - 1]
      /\ saved \in Seq(Int)
  BY DEF Inv, SInv, Plan, Written, Undisturbed
<1>2. /\ ~cb_wrap => LapStart = 0
      /\ cb_wrap => LapStart > 0
      /\ Laps /\ Holds(cb_buff, cb_wptr, LapStart)
  BY <1>1 DEF Inv, SInv, WrapKnown, IInv, RingNow, Undisturbed
<1>3. /\ origin \in Int /\ 0 <= origin /\ origin < BufLen
      /\ cb_wptr \in Int /\ 0 <= cb_wptr /\ cb_wptr < BufLen /\ total \in Nat
      /\ BufLen \in Nat /\ LapStart = total - cb_wptr
  BY RingAssumption DEF Inv, IInv, TypeOK, Slots, Bytes, LapStart
<1>4. ASSUME NEW p \in Int, 0 <= p, p < BufLen
      PROVE  cb_buff[p] = IF p < cb_wptr THEN LapStart + p
                          ELSE IF LapStart = 0 THEN None ELSE LapStart - BufLen + p
  BY <1>2, <1>3, <1>4 DEF Holds, Slots
<1>5. CASE ~cb_wrap
  <2>1. s = 0 /\ total = cb_wptr
    <3>1. s \in Nat /\ s <= 0
      <4>1. 0 \in starts /\ 0 + BufLen >= total
        BY <1>2, <1>3, <1>5, ReadsOldest
      <4> QED BY <4>1, ReadsOldest
    <3>2. total = cb_wptr
      BY <1>2, <1>3, <1>5
    <3> HIDE DEF s
    <3> QED BY <3>1, <3>2
  <2>2. copy_from_end = 0 /\ copy_from_start = cb_wptr
    BY <1>1, <1>5
  <2> HIDE DEF s
  <2>3. ASSUME NEW i \in 1 .. total - s PROVE saved[i] = s + i - 1
    <3>1. i \in 1 .. copy_from_start /\ copy_from_end + i = i
      BY <1>3, <2>1, <2>2
    <3>2. cb_buff[i - 1] = i - 1
      <4>1. i - 1 \in Int /\ 0 <= i - 1 /\ i - 1 < cb_wptr /\ i - 1 < BufLen
        BY <1>3, <2>1
      <4> QED BY <1>2, <1>4, <1>5, <4>1
    <3>3. saved[copy_from_end + i] = cb_buff[i - 1]
      BY <1>1, <3>1
    <3> QED BY <2>1, <3>1, <3>2, <3>3
  <2>4. Len(saved) >= total - s
    BY <1>1, <1>3, <2>1, <2>2
  <2> USE DEF s
  <2> QED BY <1>1, <2>3, <2>4
<1>6. CASE cb_wrap /\ origin < cb_wptr
  <2>1. s = LapStart + origin /\ total - s = cb_wptr - origin
    BY <1>3, <1>6 DEF ByteOf, Ahead
  <2>2. copy_from_end = BufLen - origin /\ copy_from_start = origin
    BY <1>1, <1>3, <1>6
  <2> HIDE DEF s
  <2>3. ASSUME NEW i \in 1 .. total - s PROVE saved[i] = s + i - 1
    <3>1. /\ i \in 1 .. copy_from_end /\ origin + i - 1 \in Int
          /\ 0 <= origin + i - 1 /\ origin + i - 1 < cb_wptr /\ origin + i - 1 < BufLen
      BY <1>3, <2>1, <2>2
    <3>2. cb_buff[origin + i - 1] = LapStart + (origin + i - 1)
      BY <1>4, <3>1
    <3>3. LapStart + (origin + i - 1) = s + i - 1
      BY <1>3, <2>1
    <3> QED BY <1>1, <3>1, <3>2, <3>3
  <2>4. Len(saved) >= total - s
    BY <1>1, <1>3, <2>1, <2>2
  <2> USE DEF s
  <2> QED BY <1>1, <2>3, <2>4
<1>7. CASE cb_wrap /\ origin >= cb_wptr
  <2>1. s = LapStart - BufLen + origin /\ total - s = BufLen - origin + cb_wptr
    BY <1>3, <1>7 DEF ByteOf, Ahead
  <2>2. copy_from_end = BufLen - origin /\ copy_from_start = cb_wptr
    BY <1>1, <1>3, <1>7
  <2> HIDE DEF s
  <2>3. ASSUME NEW i \in 1 .. total - s PROVE saved[i] = s + i - 1
    <3>1. CASE i <= copy_from_end
      <4>1. /\ i \in 1 .. copy_from_end /\ origin + i - 1 \in Int
            /\ cb_wptr <= origin + i - 1 /\ 0 <= origin + i - 1 /\ origin + i - 1 < BufLen
        BY <1>3, <1>7, <2>1, <2>2, <3>1
      <4>2. cb_buff[origin + i - 1] = LapStart - BufLen + (origin + i - 1)
        BY <1>2, <1>3, <1>4, <1>7, <4>1
      <4>3. LapStart - BufLen + (origin + i - 1) = s + i - 1
        BY <1>3, <2>1
      <4> QED BY <1>1, <4>1, <4>2, <4>3
    <3>2. CASE i > copy_from_end
      <4> DEFINE h == i - copy_from_end
      <4>1. /\ h \in 1 .. copy_from_start /\ copy_from_end + h = i
            /\ h - 1 \in Int /\ 0 <= h - 1 /\ h - 1 < cb_wptr /\ h - 1 < BufLen
        BY <1>3, <2>1, <2>2, <3>2
      <4>2. LapStart + (h - 1) = s + i - 1
        BY <1>3, <2>1, <2>2
      <4> HIDE DEF h
      <4>3. saved[copy_from_end + h] = cb_buff[h - 1]
        BY <1>1, <4>1
      <4>4. cb_buff[h - 1] = LapStart + (h - 1)
        BY <1>4, <4>1
      <4> QED BY <4>1, <4>2, <4>3, <4>4
    <3>3. i \in Int /\ copy_from_end \in Int
      BY <1>3, <2>2
    <3> QED BY <3>1, <3>2, <3>3
  <2>4. Len(saved) >= total - s
    BY <1>1, <1>3, <2>1, <2>2
  <2> USE DEF s
  <2> QED BY <1>1, <2>3, <2>4
<1> QED BY <1>3, <1>5, <1>6, <1>7

\* For any ring, list and length of chunks: unless the callback runs during the
\* save, or before it a chunk ran over the newest I-frame, met a full list or ended
\* at the very end of the ring, main writes all of the stream from the oldest
\* I-frame left up to the newest byte.
THEOREM SaveBeginsAtOldest == Spec => []SavesFromOldest
<1>1. Inv => SavesFromOldest
  <2> SUFFICES ASSUME Inv, Undisturbed
               PROVE  /\ Len(saved) >= Len(Recent)
                      /\ SubSeq(saved, 1, Len(Recent)) = Recent
    BY DEF SavesFromOldest
  <2> DEFINE s == ByteOf(origin, cb_wptr, total, 0)
             IsOldest(b) == /\ b + BufLen >= upto
                            /\ \A t \in starts : t + BufLen >= upto => b <= t
             oldest == CHOOSE b \in starts : IsOldest(b)
  <2>1. /\ s \in starts /\ s \in Nat /\ s < total /\ IsOldest(s) /\ upto = total
        /\ total \in Nat /\ starts \subseteq Nat
    BY ReadsOldest DEF Inv, IInv, TypeOK, Bytes
  <2>2. oldest \in starts /\ IsOldest(oldest)
    BY <2>1, Zenon
  <2>3. oldest = s
    <3>1. oldest <= s /\ s <= oldest /\ oldest \in Nat
      BY <2>1, <2>2
    <3> HIDE DEF oldest, s
    <3> QED BY <2>1, <3>1
  <2>4. Recent = [i \in 1 .. total - s |-> s + i - 1]
    BY <2>1, <2>3 DEF Recent
  <2>5. /\ saved \in Seq(Int) /\ Len(saved) >= total - s
        /\ \A i \in 1 .. total - s : saved[i] = s + i - 1
    BY SavedInOrder
  <2> HIDE DEF s, oldest
  <2>6. total - s \in Nat /\ Len(Recent) = total - s
    <3>1. total - s \in Nat
      BY <2>1
    <3> QED BY <2>4, <3>1
  <2>7. SubSeq(saved, 1, total - s) = [i \in 1 .. total - s |-> saved[i]]
    BY <2>5, <2>6
  <2>8. SubSeq(saved, 1, total - s) = Recent
    BY <2>4, <2>5, <2>7
  <2> QED BY <2>5, <2>6, <2>8
<1> QED
  BY <1>1, Invariance, PTL
=============================================================================
