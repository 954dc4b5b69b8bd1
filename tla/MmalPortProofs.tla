--------------------------- MODULE MmalPortProofs ---------------------------
(***************************************************************************)
(* Proofs about MmalPort, for any number of headers, events and threads:   *)
(* the count a disable waits for, what a header needs on its way back, the *)
(* order of headers, that the port implements PortLoan, and that its locks *)
(* and waits never leave every thread waiting.                             *)
(***************************************************************************)
EXTENDS MmalPort, FiniteSetTheorems, TLAPS

Places  == {"idle", "woken", "drains", "enables", "refuses", "locks", "tells", "salvages",
            "empties", "reopens", "half", "locked", "returns", "resumes"}
Calling == {"drains", "salvages", "returns", "empties"}     \* where a caller calls the client
Closing == {"locks", "tells", "drains", "salvages", "reopens", "empties"}
Undrained == Closing \ {"empties"}  \* the port's queue is not detached yet

\* A sequence without repetition.
Once(q) == \A i, j \in DOMAIN q : q[i] = q[j] => i = j

Typed ==
    /\ transit \in Int /\ queue \in Seq(Headers) /\ back \in Seq(Headers \cup Events)
    /\ away \subseteq Headers
    /\ list \in [Callers -> Seq(Headers)] /\ pc \in [Callers -> Places]
    /\ item \in [Threads -> Headers \cup Events \cup {NoOne}]
    /\ call \in [Threads -> {"none", "hand", "resend", "count", "event"}]

\* What a thread has in its hand is a matter of what it does.
Carries == \A t \in Threads :
    /\ call[t] \in {"hand", "resend"} => item[t] \in Headers
    /\ call[t] = "event" => item[t] \in Events
    /\ call[t] \in {"none", "count"} => item[t] = NoOne
    /\ t \in Senders => call[t] \in {"none", "hand"}

\* No header, and no event, is in two places.
Apart ==
    /\ Once(queue) /\ Once(back) /\ \A c \in Callers : Once(list[c])
    /\ \A h \in away : h \notin ToSet(queue) \cup ToSet(back)
    /\ \A h \in ToSet(queue) : h \notin ToSet(back)
    /\ \A c \in Callers : \A h \in ToSet(list[c]) :
           /\ h \notin away \cup ToSet(queue) \cup ToSet(back)
           /\ \A d \in Callers : h \in ToSet(list[d]) => c = d
    /\ \A t \in Threads : item[t] # NoOne =>
           /\ item[t] \notin away \cup ToSet(queue) \cup ToSet(back)
           /\ \A c \in Callers : item[t] \notin ToSet(list[c])
           /\ \A u \in Threads : item[u] = item[t] => t = u

\* A caller is in a call of the client, or has a list to give back, only where
\* its code calls.
Working == \A c \in Callers :
    /\ call[c] # "none" => pc[c] \in Calling
    /\ list[c] # <<>> => pc[c] \in {"returns", "empties"}

Parts == Typed /\ Carries /\ Apart /\ Working

\* Who holds a lock.
Held ==
    /\ \A c \in Controls : pc[c] \in {"enables", "refuses"} \cup Closing => portLock = c
    /\ \A c \in Controls : pc[c] \in {"locked", "resumes"} => sendLock = c
    /\ \A t \in Threads : call[t] = "hand" => sendLock = t

\* What the locks keep of the port.
Kept ==
    /\ \A c \in Controls : pc[c] \in Closing \cup {"enables"} => ~enabled
    /\ \A c \in Controls : pc[c] = "refuses" => enabled
    /\ \A t \in Threads : call[t] = "hand" => enabled
    /\ enabled \/ (\E c \in Controls : pc[c] \in {"enables"} \cup Closing) => callback
    /\ \A c \in Controls : pc[c] \in {"salvages", "reopens"} => ~hasPool

\* Only a port whose disable is not through yet, or that is enabled, has a queue,
\* and a port that sends past its queue has no contexts to send with.
Queued ==
    /\ queue # <<>> => enabled \/ \E c \in Controls : pc[c] \in Undrained
    /\ queue # <<>> /\ enabled /\ hasPool => paused

IInv == Parts /\ Held /\ Kept /\ Queued /\ TransitCounts /\ WayBackStands

---------------------------------------------------------------------------
(* Sequences without repetition.                                           *)

LEMMA Empty == ToSet(<<>>) = {} /\ Once(<<>>)
  BY DEF ToSet, Once

LEMMA Longer ==
    ASSUME NEW S, NEW q \in Seq(S), NEW x \in S, Once(q), x \notin ToSet(q)
    PROVE  /\ Append(q, x) \in Seq(S) /\ Once(Append(q, x))
           /\ ToSet(Append(q, x)) = ToSet(q) \cup {x}
<1> DEFINE r == Append(q, x)
<1>1. /\ r \in Seq(S) /\ Len(q) \in Nat /\ DOMAIN q = 1 .. Len(q) /\ DOMAIN r = 1 .. Len(q) + 1
      /\ \A i \in 1 .. Len(q) : r[i] = q[i]
      /\ r[Len(q) + 1] = x
  OBVIOUS
<1> HIDE DEF r
<1>2. \A i \in DOMAIN r : (i \in DOMAIN q /\ r[i] = q[i]) \/ (i = Len(q) + 1 /\ r[i] = x)
  BY <1>1
<1>3. DOMAIN q \subseteq DOMAIN r /\ Len(q) + 1 \in DOMAIN r
  BY <1>1
<1>4. ToSet(r) = ToSet(q) \cup {x}
  BY <1>1, <1>2, <1>3 DEF ToSet
<1>5. Once(r)
  BY <1>2 DEF Once, ToSet
<1> QED
  BY <1>1, <1>4, <1>5 DEF r

LEMMA Shorter ==
    ASSUME NEW S, NEW q \in Seq(S), Once(q), q # <<>>
    PROVE  /\ Head(q) \in S /\ Head(q) \in ToSet(q)
           /\ Tail(q) \in Seq(S) /\ Once(Tail(q))
           /\ ToSet(Tail(q)) = ToSet(q) \ {Head(q)}
<1> DEFINE r == Tail(q)
<1>1. /\ r \in Seq(S) /\ Len(q) \in Nat /\ Len(q) >= 1
      /\ DOMAIN q = 1 .. Len(q) /\ DOMAIN r = 1 .. Len(q) - 1
      /\ Head(q) = q[1] /\ Head(q) \in S
      /\ \A i \in 1 .. Len(q) - 1 : r[i] = q[i + 1]
  OBVIOUS
<1> HIDE DEF r
<1>2. \A i \in DOMAIN r : i + 1 \in DOMAIN q /\ i + 1 # 1 /\ r[i] = q[i + 1]
  BY <1>1
<1>3. \A k \in DOMAIN q : k = 1 \/ (k - 1 \in DOMAIN r /\ r[k - 1] = q[k])
  BY <1>1
<1>4. 1 \in DOMAIN q
  BY <1>1
<1>5. ToSet(r) \subseteq ToSet(q) \ {Head(q)}
  BY <1>1, <1>2, <1>4 DEF ToSet, Once
<1>6. ToSet(q) \ {Head(q)} \subseteq ToSet(r)
  BY <1>1, <1>3 DEF ToSet
<1>7. Once(r)
  BY <1>1, <1>2 DEF Once
<1>8. Head(q) \in ToSet(q)
  BY <1>1, <1>4 DEF ToSet
<1> QED
  BY <1>1, <1>5, <1>6, <1>7, <1>8 DEF r

---------------------------------------------------------------------------
(* The count, and what changes it.                                         *)

LEMMA Counts0 == /\ IsFiniteSet(Threads) /\ IsFiniteSet(Returning)
                 /\ Cardinality(Returning) \in Nat
<1>1. IsFiniteSet(Threads)
  BY PortAssumption, FS_Union, FS_Singleton DEF Threads, Callers
<1> QED
  BY <1>1, FS_Subset, FS_CardinalityType DEF Returning

\* The headers in the callers' lists, and those a send has in its hand.
Lists == UNION {ToSet(list[c]) : c \in Callers}
Hands == {item[t] : t \in {u \in Threads : call[u] = "hand"}}

\* Where a header is that is with the port.
Whole == away \cup ToSet(queue) \cup (ToSet(back) \cap Headers) \cup Lists \cup Hands

LEMMA LentWhole == Lent = Whole
  BY DEF Lent, Whole, Lists, Hands

LEMMA LentWholeNext == Lent' = Whole'
  BY DEF Lent, Whole, Lists, Hands

LEMMA LentHeaders == Typed /\ Carries =>
    Lent \subseteq Headers /\ IsFiniteSet(Lent) /\ Cardinality(Lent) \in Nat
<1> SUFFICES ASSUME Typed, Carries PROVE Lent \subseteq Headers
  BY FS_Subset, FS_CardinalityType, PortAssumption
<1>1. ToSet(queue) \subseteq Headers
  BY DEF Typed, ToSet
<1>2. \A c \in Callers : ToSet(list[c]) \subseteq Headers
  BY DEF Typed, ToSet
<1> QED
  BY <1>1, <1>2, LentWhole DEF Typed, Carries, Whole, Lists, Hands

Still   == UNCHANGED <<Lent, Returning, transit>>
Lends   == /\ enabled /\ transit' = transit + 1 /\ UNCHANGED Returning
           /\ \E h \in Headers \ Lent : Lent' = Lent \cup {h}
Rejects == /\ transit' = transit - 1 /\ UNCHANGED Returning
           /\ \E h \in Lent : Lent' = Lent \ {h}
CallsBack == /\ UNCHANGED transit
             /\ \E h \in Lent : Lent' = Lent \ {h}
             /\ \E c \in Threads \ Returning : Returning' = Returning \cup {c}
CountsOff == /\ transit' = transit - 1 /\ UNCHANGED Lent
             /\ \E c \in Returning : Returning' = Returning \ {c}

\* Each of these keeps the count right.
LEMMA Balance ==
    ASSUME Parts, TransitCounts, Still \/ Lends \/ Rejects \/ CallsBack \/ CountsOff
    PROVE  TransitCounts'
<1>1. /\ IsFiniteSet(Lent) /\ Cardinality(Lent) \in Nat
      /\ IsFiniteSet(Returning) /\ Cardinality(Returning) \in Nat
  BY LentHeaders, Counts0 DEF Parts
<1>2. CASE Still
  BY <1>2 DEF Still, TransitCounts
<1>3. CASE Lends
  <2>1. Cardinality(Lent') = Cardinality(Lent) + 1
    BY <1>1, <1>3, FS_AddElement DEF Lends
  <2> QED
    BY <1>1, <1>3, <2>1 DEF Lends, TransitCounts
<1>4. CASE Rejects
  <2>1. Cardinality(Lent') = Cardinality(Lent) - 1
    BY <1>1, <1>4, FS_RemoveElement DEF Rejects
  <2> QED
    BY <1>1, <1>4, <2>1 DEF Rejects, TransitCounts
<1>5. CASE CallsBack
  <2>1. Cardinality(Lent') = Cardinality(Lent) - 1
    BY <1>1, <1>5, FS_RemoveElement DEF CallsBack
  <2>2. Cardinality(Returning') = Cardinality(Returning) + 1
    BY <1>1, <1>5, FS_AddElement DEF CallsBack
  <2> QED
    BY <1>1, <1>5, <2>1, <2>2 DEF CallsBack, TransitCounts
<1>6. CASE CountsOff
  <2>1. Cardinality(Returning') = Cardinality(Returning) - 1
    BY <1>1, <1>6, FS_RemoveElement DEF CountsOff
  <2> QED
    BY <1>1, <1>6, <2>1 DEF CountsOff, TransitCounts
<1> QED
  BY <1>2, <1>3, <1>4, <1>5, <1>6

---------------------------------------------------------------------------
(* The steps that move a header, or that call the client.                  *)

\* All but t stay in their calls.
OnlyThread(t) == \A u \in Threads \ {t} : call'[u] = call[u] /\ item'[u] = item[u]

LEMMA AtIs ==
    ASSUME Typed, NEW t \in Threads, NEW what \in Headers \cup Events \cup {NoOne},
           NEW where \in {"none", "hand", "resend", "count", "event"}, At(t, where, what)
    PROVE  /\ call'[t] = where /\ item'[t] = what /\ OnlyThread(t)
           /\ item' \in [Threads -> Headers \cup Events \cup {NoOne}]
           /\ call' \in [Threads -> {"none", "hand", "resend", "count", "event"}]
  BY DEF At, Typed, OnlyThread

LEMMA HandsStay ==
    ASSUME NEW t \in Threads, OnlyThread(t), call[t] # "hand", call'[t] # "hand"
    PROVE  Hands' = Hands
  BY DEF Hands, OnlyThread

LEMMA HandsTake ==
    ASSUME NEW t \in Threads, OnlyThread(t), call[t] # "hand", call'[t] = "hand"
    PROVE  Hands' = Hands \cup {item'[t]}
  BY DEF Hands, OnlyThread

LEMMA HandsGive ==
    ASSUME NEW t \in Threads, OnlyThread(t), call[t] = "hand", call'[t] # "hand",
           \A u \in Threads : item[u] = item[t] => u = t
    PROVE  Hands' = Hands \ {item[t]}
  BY DEF Hands, OnlyThread

LEMMA ReturningStays ==
    ASSUME NEW t \in Threads, OnlyThread(t),
           (call[t] \in {"resend", "count"} \/ (call[t] = "hand" /\ t \notin Senders))
           <=> (call'[t] \in {"resend", "count"} \/ (call'[t] = "hand" /\ t \notin Senders))
    PROVE  Returning' = Returning
  BY DEF Returning, OnlyThread

\* Threads and what they carry, as sets of their own.
LEMMA Threading ==
    /\ Callers \subseteq Threads /\ Senders \subseteq Threads /\ Callers \cap Senders = {}
    /\ NoOne \notin Headers \cup Events /\ Headers \cap Events = {}
    /\ NoOne \notin Threads /\ Controls \subseteq Callers
    /\ Action \in Callers /\ Action \notin Controls /\ Controls \cap Senders = {}
  BY PortAssumption DEF Threads, Callers

\* A send counts the header it takes.
LEMMA SendMoves ==
    ASSUME IInv, NEW s \in Senders, NEW h \in Headers, Send(s, h)
    PROVE  Parts' /\ Lends
<1>0. Typed /\ Carries /\ Apart /\ Working /\ s \in Threads
  BY Threading DEF IInv, Parts
<1>1. /\ call[s] = "none" /\ h \notin Lent /\ \A t \in Threads : item[t] # h
      /\ enabled /\ transit' = transit + 1 /\ At(s, "hand", h)
      /\ UNCHANGED <<queue, away, back, pc, list>>
  BY DEF Send, Accepts, vc, stage
<1>2. /\ call'[s] = "hand" /\ item'[s] = h /\ OnlyThread(s)
      /\ item' \in [Threads -> Headers \cup Events \cup {NoOne}]
      /\ call' \in [Threads -> {"none", "hand", "resend", "count", "event"}]
  BY <1>0, <1>1, AtIs
<1>3. Typed' /\ Carries' /\ Working'
  <2>1. Typed'
    BY <1>0, <1>1, <1>2 DEF Typed
  <2>2. Carries'
    BY <1>0, <1>2 DEF Carries, OnlyThread
  <2>3. Working'
    BY <1>0, <1>1, <1>2, Threading DEF Working, OnlyThread
  <2> QED
    BY <2>1, <2>2, <2>3
<1>4. Apart'
  <2>1. h \notin away \cup ToSet(queue) \cup ToSet(back) /\ \A c \in Callers : h \notin ToSet(list[c])
    BY <1>1, LentWhole DEF Whole, Lists
  <2> QED
    BY <1>0, <1>1, <1>2, <2>1 DEF Apart, OnlyThread
<1>5. Lent' = Lent \cup {h}
  <2>1. Hands' = Hands \cup {h} /\ Lists' = Lists
    BY <1>0, <1>1, <1>2, HandsTake DEF Lists
  <2> QED
    BY <1>1, <2>1, LentWhole, LentWholeNext DEF Whole
<1>6. Returning' = Returning
  BY <1>0, <1>1, <1>2, ReturningStays
<1> QED
  BY <1>1, <1>3, <1>4, <1>5, <1>6 DEF Parts, Lends

\* So does one from the client's callback.
LEMMA ResendMoves ==
    ASSUME IInv, NEW c \in Callers, Resends(c)
    PROVE  Parts' /\ (Lends \/ Still)
<1>0. Typed /\ Carries /\ Apart /\ Working /\ c \in Threads /\ c \notin Senders
  BY Threading DEF IInv, Parts
<1>1. UNCHANGED <<queue, away, back, pc, list>> /\ call[c] = "resend" /\ item[c] \in Headers
  BY <1>0 DEF Resends, vc, stage, Carries
<1>2. ASSUME NEW where \in {"hand", "count"}, NEW what, At(c, where, what),
             what = IF where = "hand" THEN item[c] ELSE NoOne,
             transit' \in Int
      PROVE  /\ Parts' /\ OnlyThread(c) /\ Returning' = Returning
             /\ call'[c] = where /\ item'[c] = what
  <2>1. /\ call'[c] = where /\ item'[c] = what /\ OnlyThread(c)
        /\ item' \in [Threads -> Headers \cup Events \cup {NoOne}]
        /\ call' \in [Threads -> {"none", "hand", "resend", "count", "event"}]
    BY <1>0, <1>1, <1>2, AtIs
  <2>2. Typed'
    BY <1>0, <1>1, <1>2, <2>1 DEF Typed
  <2>3. Carries'
    BY <1>0, <1>1, <1>2, <2>1 DEF Carries, OnlyThread
  <2>4. Working'
    BY <1>0, <1>1, <2>1, Threading DEF Working, OnlyThread
  <2>5. \A u \in Threads : item'[u] = item[u] \/ item'[u] = NoOne
    BY <1>2, <2>1 DEF OnlyThread
  <2>6. Apart'
    BY <1>0, <1>1, <2>5 DEF Apart
  <2>7. Returning' = Returning
    BY <1>0, <1>1, <1>2, <2>1, ReturningStays
  <2> QED
    BY <2>1, <2>2, <2>3, <2>4, <2>6, <2>7 DEF Parts
<1>3. CASE Accepts(c, item[c])
  <2>1. enabled /\ transit' = transit + 1 /\ At(c, "hand", item[c]) /\ transit' \in Int
    BY <1>0, <1>3 DEF Accepts, Typed
  <2>2. Parts' /\ OnlyThread(c) /\ Returning' = Returning /\ call'[c] = "hand" /\ item'[c] = item[c]
    BY <1>2, <2>1
  <2>3. item[c] \notin Lent
    <3>1. item[c] \notin Hands
      BY <1>0, <1>1, Threading DEF Hands, Apart
    <3> QED
      BY <1>0, <1>1, <3>1, Threading, LentWhole DEF Apart, Whole, Lists
  <2>4. Hands' = Hands \cup {item[c]} /\ Lists' = Lists
    BY <1>0, <1>1, <2>2, HandsTake DEF Lists
  <2>5. Lent' = Lent \cup {item[c]}
    BY <1>1, <2>4, LentWhole, LentWholeNext DEF Whole
  <2> QED
    BY <1>1, <2>1, <2>2, <2>3, <2>5 DEF Lends
<1>4. CASE ~ Accepts(c, item[c])
  <2>1. transit' = transit /\ At(c, "count", NoOne) /\ transit' \in Int
    BY <1>0, <1>4 DEF Resends, Typed
  <2>2. Parts' /\ OnlyThread(c) /\ Returning' = Returning /\ call'[c] = "count"
    BY <1>2, <2>1
  <2>3. Hands' = Hands /\ Lists' = Lists
    BY <1>0, <1>1, <2>2, HandsStay DEF Lists
  <2>4. Lent' = Lent
    BY <1>1, <2>3, LentWhole, LentWholeNext DEF Whole
  <2> QED
    BY <2>1, <2>2, <2>4 DEF Still
<1> QED
  BY <1>3, <1>4

\* A header accepted is queued, goes to VideoCore, or is refused and not counted.
LEMMA HandMoves ==
    ASSUME IInv, NEW t \in Threads, Hand(t)
    PROVE  Parts' /\ (Still \/ Rejects)
<1>0. Typed /\ Carries /\ Apart /\ Working
  BY DEF IInv, Parts
<1> DEFINE where == IF t \in Senders THEN "none" ELSE "count"
<1>1. /\ call[t] = "hand" /\ item[t] \in Headers /\ item[t] # NoOne
      /\ At(t, where, NoOne) /\ UNCHANGED <<back, pc, list>>
  BY <1>0, Threading DEF Hand, Returns, stage, Carries
<1>2. /\ call'[t] = where /\ item'[t] = NoOne /\ OnlyThread(t)
      /\ item' \in [Threads -> Headers \cup Events \cup {NoOne}]
      /\ call' \in [Threads -> {"none", "hand", "resend", "count", "event"}]
  BY <1>0, <1>1, AtIs
<1>3. Returning' = Returning
  BY <1>0, <1>1, <1>2, ReturningStays DEF Carries
<1>4. /\ item[t] \notin away \cup ToSet(queue) \cup ToSet(back)
      /\ \A c \in Callers : item[t] \notin ToSet(list[c])
      /\ \A u \in Threads : item[u] = item[t] => u = t
  BY <1>0, <1>1 DEF Apart
<1>5. Carries' /\ Working'
  <2>1. Carries'
    BY <1>0, <1>2 DEF Carries, OnlyThread
  <2>2. Working'
    BY <1>0, <1>1, <1>2, Threading DEF Working, OnlyThread
  <2> QED
    BY <2>1, <2>2
<1>6. \A u \in Threads : item'[u] = item[u] \/ item'[u] = NoOne
  BY <1>2 DEF OnlyThread
<1>7. \A u \in Threads : item'[u] # item[t]
  BY <1>1, <1>2, <1>4 DEF OnlyThread
<1>8. Hands' = Hands \ {item[t]} /\ Lists' = Lists /\ item[t] \in Hands /\ item[t] \notin Lists
  BY <1>1, <1>2, <1>4, HandsGive DEF Lists, Hands
<1>9. item[t] \in Lent
  BY <1>8, LentWhole DEF Whole
<1> HIDE DEF where
<1>10. CASE queue' = Append(queue, item[t]) /\ UNCHANGED <<away, transit>>
  <2>1. /\ queue' \in Seq(Headers) /\ Once(queue')
        /\ ToSet(queue') = ToSet(queue) \cup {item[t]}
    BY <1>0, <1>1, <1>4, <1>10, Longer DEF Typed, Apart
  <2>2. Typed'
    BY <1>0, <1>1, <1>2, <1>10, <2>1 DEF Typed
  <2>3. Apart'
    <3>1. /\ Once(queue') /\ Once(back') /\ \A c \in Callers : Once(list'[c])
          /\ \A h \in away' : h \notin ToSet(queue') \cup ToSet(back')
          /\ \A h \in ToSet(queue') : h \notin ToSet(back')
      BY <1>0, <1>1, <1>4, <1>10, <2>1 DEF Apart
    <3>2. \A c \in Callers : \A h \in ToSet(list'[c]) :
           /\ h \notin away' \cup ToSet(queue') \cup ToSet(back')
           /\ \A d \in Callers : h \in ToSet(list'[d]) => c = d
      BY <1>0, <1>1, <1>4, <1>10, <2>1 DEF Apart
    <3>3. \A u \in Threads : item'[u] # NoOne =>
           /\ item'[u] \notin away' \cup ToSet(queue') \cup ToSet(back')
           /\ \A c \in Callers : item'[u] \notin ToSet(list'[c])
           /\ \A v \in Threads : item'[v] = item'[u] => u = v
      BY <1>0, <1>1, <1>6, <1>7, <1>10, <2>1 DEF Apart
    <3> QED
      BY <3>1, <3>2, <3>3 DEF Apart
  <2>4. Lent' = Lent
    BY <1>1, <1>4, <1>8, <1>10, <2>1, LentWhole, LentWholeNext DEF Whole
  <2> QED
    BY <1>3, <1>5, <1>10, <2>2, <2>3, <2>4 DEF Parts, Still
<1>11. CASE away' = away \cup {item[t]} /\ UNCHANGED <<queue, transit>>
  <2>1. Typed'
    BY <1>0, <1>1, <1>2, <1>11 DEF Typed
  <2>2. Apart'
    BY <1>0, <1>1, <1>4, <1>6, <1>7, <1>11 DEF Apart
  <2>3. Lent' = Lent
    BY <1>1, <1>4, <1>8, <1>11, LentWhole, LentWholeNext DEF Whole
  <2> QED
    BY <1>3, <1>5, <1>11, <2>1, <2>2, <2>3 DEF Parts, Still
<1>12. CASE transit' = transit - 1 /\ UNCHANGED <<queue, away>>
  <2>1. Typed'
    BY <1>0, <1>1, <1>2, <1>12 DEF Typed
  <2>2. Apart'
    BY <1>0, <1>1, <1>6, <1>12 DEF Apart
  <2>3. Lent' = Lent \ {item[t]}
    BY <1>1, <1>4, <1>8, <1>12, LentWhole, LentWholeNext DEF Whole
  <2> QED
    BY <1>3, <1>5, <1>9, <1>12, <2>1, <2>2, <2>3 DEF Parts, Rejects
<1> QED
  BY <1>10, <1>11, <1>12 DEF Hand, ToVideoCore, SendFails

\* What VideoCore returns goes to the component's queue, and so do its events.
LEMMA ArrivalMoves ==
    ASSUME IInv, (\E h \in Headers : ComesBack(h)) \/ (\E e \in Events : Event(e))
    PROVE  Parts' /\ Still
<1>0. Typed /\ Carries /\ Apart /\ Working
  BY DEF IInv, Parts
<1>1. UNCHANGED <<transit, queue, pc, list, call, item>>
  BY DEF ComesBack, Event, stage, calls
<1>2. Returning' = Returning /\ Hands' = Hands /\ Lists' = Lists
  BY <1>1 DEF Returning, Hands, Lists
<1>3. ASSUME NEW x \in Headers \cup Events, back' = Append(back, x), away' \subseteq away,
             x \notin ToSet(back), x \notin away',
             x \notin ToSet(queue), \A c \in Callers : x \notin ToSet(list[c]),
             \A t \in Threads : item[t] # x
      PROVE  Parts' /\ ToSet(back') = ToSet(back) \cup {x}
  <2>1. /\ back' \in Seq(Headers \cup Events) /\ Once(back')
        /\ ToSet(back') = ToSet(back) \cup {x}
    BY <1>0, <1>3, Longer DEF Typed, Apart
  <2>2. Typed' /\ Carries' /\ Working'
    BY <1>0, <1>1, <1>3, <2>1 DEF Typed, Carries, Working
  <2>3. Apart'
    <3>1. /\ Once(queue') /\ Once(back') /\ \A c \in Callers : Once(list'[c])
          /\ \A h \in away' : h \notin ToSet(queue') \cup ToSet(back')
          /\ \A h \in ToSet(queue') : h \notin ToSet(back')
      BY <1>0, <1>1, <1>3, <2>1 DEF Apart
    <3>2. \A c \in Callers : \A h \in ToSet(list'[c]) :
           /\ h \notin away' \cup ToSet(queue') \cup ToSet(back')
           /\ \A d \in Callers : h \in ToSet(list'[d]) => c = d
      BY <1>0, <1>1, <1>3, <2>1 DEF Apart
    <3>3. \A u \in Threads : item'[u] # NoOne =>
           /\ item'[u] \notin away' \cup ToSet(queue') \cup ToSet(back')
           /\ \A c \in Callers : item'[u] \notin ToSet(list'[c])
           /\ \A v \in Threads : item'[v] = item'[u] => u = v
      BY <1>0, <1>1, <1>3, <2>1 DEF Apart
    <3> QED
      BY <3>1, <3>2, <3>3 DEF Apart
  <2> QED
    BY <2>1, <2>2, <2>3 DEF Parts
<1>4. CASE \E h \in Headers : ComesBack(h)
  <2>1. PICK h \in away : away' = away \ {h} /\ back' = Append(back, h) /\ h \in Headers
    BY <1>4 DEF ComesBack
  <2>2. /\ h \notin ToSet(back) /\ h \notin ToSet(queue)
        /\ \A c \in Callers : h \notin ToSet(list[c])
        /\ \A t \in Threads : item[t] # h
    BY <1>0, <2>1, Threading DEF Apart
  <2>3. Parts' /\ ToSet(back') = ToSet(back) \cup {h}
    BY <1>3, <2>1, <2>2
  <2>4. Lent' = Lent
    BY <1>1, <1>2, <2>1, <2>3, LentWhole, LentWholeNext DEF Whole
  <2> QED
    BY <1>1, <1>2, <2>3, <2>4 DEF Still
<1>5. CASE \E e \in Events : Event(e)
  <2>1. PICK e \in Events : /\ e \notin ToSet(back) /\ \A t \in Threads : item[t] # e
                            /\ back' = Append(back, e) /\ away' = away
    BY <1>5 DEF Event, Free
  <2>2. e \notin away /\ e \notin ToSet(queue) /\ \A c \in Callers : e \notin ToSet(list[c])
    BY <1>0, <2>1, Threading DEF Typed, ToSet
  <2>3. Parts' /\ ToSet(back') = ToSet(back) \cup {e}
    BY <1>3, <2>1, <2>2
  <2>4. Lent' = Lent
    BY <1>1, <1>2, <2>1, <2>3, Threading, LentWhole, LentWholeNext DEF Whole
  <2> QED
    BY <1>1, <1>2, <2>3, <2>4 DEF Still
<1> QED
  BY <1>4, <1>5

\* A caller takes a header from the component's queue or from its own list and
\* calls the client, who keeps it or has it in hand to send again.
LEMMA ClientMoves ==
    ASSUME IInv, NEW c \in Callers, NEW h \in Headers, h \in Lent, CallsClient(c, h),
           call[c] = "none", pc[c] \in Calling, UNCHANGED <<transit, queue, away, pc>>,
           h \notin away \cup ToSet(queue), \A t \in Threads : item[t] # h,
           back' \in Seq(Headers \cup Events), Once(back'), ToSet(back') = ToSet(back) \ {h},
           list' \in [Callers -> Seq(Headers)],
           \A d \in Callers : /\ Once(list'[d]) /\ ToSet(list'[d]) = ToSet(list[d]) \ {h}
                              /\ list'[d] # <<>> => list[d] # <<>>
    PROVE  Parts' /\ CallsBack
<1>0. Typed /\ Carries /\ Apart /\ Working /\ c \in Threads /\ c \notin Senders
  BY Threading DEF IInv, Parts
<1>1. PICK where \in {"count", "resend"}, what \in {NoOne, h} :
          At(c, where, what) /\ (where = "count" <=> what = NoOne)
  BY Threading DEF CallsClient
<1>2. /\ call'[c] = where /\ item'[c] = what /\ OnlyThread(c)
      /\ item' \in [Threads -> Headers \cup Events \cup {NoOne}]
      /\ call' \in [Threads -> {"none", "hand", "resend", "count", "event"}]
  BY <1>0, <1>1, AtIs
<1>3. Typed'
  BY <1>0, <1>2 DEF Typed
<1>4. Carries'
  BY <1>0, <1>1, <1>2 DEF Carries, OnlyThread
<1>5. Working'
  BY <1>0, <1>2, Threading DEF Working, OnlyThread
<1>6. Apart'
  <2>1. /\ Once(queue') /\ Once(back') /\ \A d \in Callers : Once(list'[d])
        /\ \A g \in away' : g \notin ToSet(queue') \cup ToSet(back')
        /\ \A g \in ToSet(queue') : g \notin ToSet(back')
    BY <1>0 DEF Apart
  <2>2. \A d \in Callers : \A g \in ToSet(list'[d]) :
         /\ g \notin away' \cup ToSet(queue') \cup ToSet(back')
         /\ \A e \in Callers : g \in ToSet(list'[e]) => d = e
    <3>1. \A d \in Callers : \A g \in ToSet(list'[d]) : g \in ToSet(list[d])
      OBVIOUS
    <3>2. \A d \in Callers : \A g \in ToSet(list'[d]) :
              g \notin away' \cup ToSet(queue') \cup ToSet(back')
      BY <1>0, <3>1 DEF Apart
    <3>3. \A d, e \in Callers : \A g \in ToSet(list'[d]) : g \in ToSet(list'[e]) => d = e
      BY <1>0, <3>1 DEF Apart
    <3> QED
      BY <3>2, <3>3
  <2>3. \A u \in Threads : item'[u] # NoOne => IF u = c THEN item'[u] = h ELSE item'[u] = item[u]
    BY <1>1, <1>2 DEF OnlyThread
  <2>4. \A u \in Threads : item'[u] # NoOne =>
         /\ item'[u] \notin away' \cup ToSet(queue') \cup ToSet(back')
         /\ \A d \in Callers : item'[u] \notin ToSet(list'[d])
    BY <1>0, <2>3 DEF Apart
  <2>5. \A u, v \in Threads : item'[u] # NoOne /\ item'[v] = item'[u] => u = v
    BY <1>0, <2>3 DEF Apart
  <2> QED
    BY <2>1, <2>2, <2>4, <2>5 DEF Apart
<1>7. Hands' = Hands /\ h \notin Hands
  BY <1>0, <1>1, <1>2, HandsStay DEF Hands
<1>8. Lists' = Lists \ {h}
  BY DEF Lists
<1>9. Lent' = Lent \ {h}
  BY <1>7, <1>8, LentWhole, LentWholeNext DEF Whole
<1>10. Returning' = Returning \cup {c} /\ c \in Threads \ Returning
  BY <1>0, <1>1, <1>2 DEF Returning, OnlyThread
<1> QED
  BY <1>3, <1>4, <1>5, <1>6, <1>9, <1>10 DEF Parts, CallsBack

LEMMA CallMoves ==
    ASSUME IInv, NEW c \in Callers, TakesBack(c) \/ GivesBack(c)
    PROVE  Parts' /\ (Still \/ CallsBack)
<1>0. Typed /\ Carries /\ Apart /\ Working /\ c \in Threads /\ c \notin Senders
  BY Threading DEF IInv, Parts
<1>1. /\ UNCHANGED <<transit, queue, away, pc>>
      /\ call[c] = "none" /\ item[c] = NoOne /\ pc[c] \in Calling
  BY <1>0 DEF TakesBack, GivesBack, stage, vc, Carries, Calling
<1>2. CASE TakesBack(c)
  <2>1. back # <<>> /\ back' = Tail(back) /\ list' = list
    BY <1>0, <1>2 DEF TakesBack, stage
  <2>2. /\ Head(back) \in Headers \cup Events /\ Head(back) \in ToSet(back)
        /\ back' \in Seq(Headers \cup Events) /\ Once(back')
        /\ ToSet(back') = ToSet(back) \ {Head(back)}
    BY <1>0, <2>1, Shorter DEF Typed, Apart
  <2>3. /\ \A d \in Callers : Once(list[d]) /\ Head(back) \notin ToSet(list[d])
        /\ \A t \in Threads : item[t] # Head(back)
        /\ Head(back) \notin away \cup ToSet(queue)
    BY <1>0, <2>2, Threading DEF Apart
  <2>4. CASE Head(back) \in Headers
    <3>1. CallsClient(c, Head(back))
      BY <1>2, <2>4, Threading DEF TakesBack
    <3>2. Head(back) \in Lent
      BY <2>2, <2>4, LentWhole DEF Whole
    <3>3. list' \in [Callers -> Seq(Headers)]
      BY <1>0, <2>1 DEF Typed
    <3>4. \A d \in Callers : /\ Once(list'[d])
                             /\ ToSet(list'[d]) = ToSet(list[d]) \ {Head(back)}
                             /\ list'[d] # <<>> => list[d] # <<>>
      BY <2>1, <2>3
    <3> QED
      BY <1>1, <2>2, <2>3, <2>4, <3>1, <3>2, <3>3, <3>4, ClientMoves
  <2>5. CASE Head(back) \in Events
    <3>1. \/ call' = call /\ item' = item
          \/ At(c, "event", Head(back))
      BY <1>2, <2>5, Threading DEF TakesBack, calls
    <3>2. /\ OnlyThread(c)
          /\ \/ call'[c] = "none" /\ item'[c] = NoOne
             \/ call'[c] = "event" /\ item'[c] = Head(back)
          /\ item' \in [Threads -> Headers \cup Events \cup {NoOne}]
          /\ call' \in [Threads -> {"none", "hand", "resend", "count", "event"}]
      <4>1. CASE call' = call /\ item' = item
        BY <1>0, <1>1, <4>1 DEF OnlyThread, Typed
      <4>2. CASE At(c, "event", Head(back))
        BY <1>0, <2>5, <4>2, AtIs
      <4> QED
        BY <3>1, <4>1, <4>2
    <3>3. Typed'
      BY <1>0, <1>1, <2>1, <2>2, <3>2 DEF Typed
    <3>4. Carries'
      BY <1>0, <2>5, <3>2 DEF Carries, OnlyThread
    <3>5. Working'
      BY <1>0, <1>1, <2>1, <3>2, Threading DEF Working, OnlyThread
    <3>6. Apart'
      <4>1. \A u \in Threads : item'[u] # NoOne =>
                IF u = c THEN item'[u] = Head(back) ELSE item'[u] = item[u]
        BY <3>2 DEF OnlyThread
      <4>2. \A u \in Threads : item'[u] # NoOne =>
             /\ item'[u] \notin away' \cup ToSet(queue') \cup ToSet(back')
             /\ \A d \in Callers : item'[u] \notin ToSet(list'[d])
        BY <1>0, <1>1, <2>1, <2>2, <2>3, <4>1 DEF Apart
      <4>3. \A u, v \in Threads : item'[u] # NoOne /\ item'[v] = item'[u] => u = v
        BY <1>0, <2>3, <4>1 DEF Apart
      <4>4. /\ Once(queue') /\ Once(back') /\ \A d \in Callers : Once(list'[d])
            /\ \A g \in away' : g \notin ToSet(queue') \cup ToSet(back')
            /\ \A g \in ToSet(queue') : g \notin ToSet(back')
            /\ \A d \in Callers : \A g \in ToSet(list'[d]) :
                   /\ g \notin away' \cup ToSet(queue') \cup ToSet(back')
                   /\ \A e \in Callers : g \in ToSet(list'[e]) => d = e
        BY <1>0, <1>1, <2>1, <2>2 DEF Apart
      <4> QED
        BY <4>2, <4>3, <4>4 DEF Apart
    <3>7. Hands' = Hands /\ Lists' = Lists
      BY <1>0, <1>1, <2>1, <3>2, HandsStay DEF Lists
    <3>8. Lent' = Lent
      BY <1>1, <2>2, <2>5, <3>7, Threading, LentWhole, LentWholeNext DEF Whole
    <3>9. Returning' = Returning
      BY <1>0, <1>1, <3>2, ReturningStays
    <3> QED
      BY <1>1, <3>3, <3>4, <3>5, <3>6, <3>8, <3>9 DEF Parts, Still
  <2> QED
    BY <2>2, <2>4, <2>5
<1>3. CASE GivesBack(c)
  <2>1. /\ list[c] # <<>> /\ list' = [list EXCEPT ![c] = Tail(@)] /\ back' = back
        /\ CallsClient(c, Head(list[c]))
    BY <1>3 DEF GivesBack, vc
  <2>2. /\ Head(list[c]) \in Headers /\ Head(list[c]) \in ToSet(list[c])
        /\ Tail(list[c]) \in Seq(Headers) /\ Once(Tail(list[c]))
        /\ ToSet(Tail(list[c])) = ToSet(list[c]) \ {Head(list[c])}
    BY <1>0, <2>1, Shorter DEF Typed, Apart
  <2>3. /\ list' \in [Callers -> Seq(Headers)] /\ list'[c] = Tail(list[c])
        /\ \A d \in Callers \ {c} : list'[d] = list[d]
    BY <1>0, <2>1, <2>2 DEF Typed
  <2>4. /\ Head(list[c]) \notin away \cup ToSet(queue) \cup ToSet(back)
        /\ \A d \in Callers \ {c} : Head(list[c]) \notin ToSet(list[d])
        /\ \A t \in Threads : item[t] # Head(list[c])
    BY <1>0, <2>2, Threading DEF Apart
  <2>5. Head(list[c]) \in Lent
    BY <2>2, LentWhole DEF Whole, Lists
  <2>6. \A d \in Callers : /\ Once(list'[d])
                           /\ ToSet(list'[d]) = ToSet(list[d]) \ {Head(list[c])}
                           /\ list'[d] # <<>> => list[d] # <<>>
    BY <1>0, <2>1, <2>2, <2>3, <2>4 DEF Apart
  <2>7. /\ back' \in Seq(Headers \cup Events) /\ Once(back')
        /\ ToSet(back') = ToSet(back) \ {Head(list[c])}
    BY <1>0, <2>1, <2>4 DEF Typed, Apart
  <2> QED
    BY <1>1, <2>1, <2>2, <2>3, <2>4, <2>5, <2>6, <2>7, ClientMoves
<1> QED
  BY <1>2, <1>3

\* The client returns.
LEMMA ReturnMoves ==
    ASSUME IInv, NEW c \in Callers, CallsForEvent(c) \/ Counts(c)
    PROVE  Parts' /\ (Still \/ CountsOff)
<1>0. Typed /\ Carries /\ Apart /\ Working /\ c \in Threads /\ c \notin Senders
  BY Threading DEF IInv, Parts
<1>1. /\ UNCHANGED <<queue, away, back, pc, list>> /\ At(c, "none", NoOne)
      /\ \/ call[c] = "event" /\ transit' = transit
         \/ call[c] = "count" /\ transit' = transit - 1
  BY DEF CallsForEvent, Counts, vc, stage
<1>2. /\ call'[c] = "none" /\ item'[c] = NoOne /\ OnlyThread(c)
      /\ item' \in [Threads -> Headers \cup Events \cup {NoOne}]
      /\ call' \in [Threads -> {"none", "hand", "resend", "count", "event"}]
  BY <1>0, <1>1, AtIs
<1>3. Typed'
  BY <1>0, <1>1, <1>2 DEF Typed
<1>4. Carries' /\ Working'
  BY <1>0, <1>1, <1>2, Threading DEF Carries, Working, OnlyThread
<1>5. Apart'
  <2>1. \A u \in Threads : item'[u] = item[u] \/ item'[u] = NoOne
    BY <1>2 DEF OnlyThread
  <2> QED
    BY <1>0, <1>1, <2>1 DEF Apart
<1>6. Lent' = Lent
  <2>1. Hands' = Hands /\ Lists' = Lists
    BY <1>0, <1>1, <1>2, HandsStay DEF Lists
  <2> QED
    BY <1>1, <2>1, LentWhole, LentWholeNext DEF Whole
<1>7. CASE call[c] = "event"
  <2>1. Returning' = Returning
    BY <1>0, <1>2, <1>7, ReturningStays
  <2> QED
    BY <1>1, <1>3, <1>4, <1>5, <1>6, <1>7, <2>1 DEF Parts, Still
<1>8. CASE call[c] = "count"
  <2>1. Returning' = Returning \ {c} /\ c \in Returning
    BY <1>0, <1>2, <1>8 DEF Returning, OnlyThread
  <2> QED
    BY <1>1, <1>3, <1>4, <1>5, <1>6, <1>8, <2>1 DEF Parts, CountsOff
<1> QED
  BY <1>1, <1>7, <1>8

\* A disable or a flush detaches the port's queue.
LEMMA DetachMoves ==
    ASSUME IInv, NEW c \in Controls, DisableDrained(c) \/ FlushTells(c)
    PROVE  Parts' /\ Still
<1>0. Typed /\ Carries /\ Apart /\ Working /\ c \in Callers
  BY DEF IInv, Parts, Callers
<1>1. UNCHANGED <<transit, away, back, call, item>>
  BY DEF DisableDrained, FlushTells, vc, calls
<1>2. Returning' = Returning /\ Hands' = Hands
  BY <1>1 DEF Returning, Hands
<1>3. \E where \in Places : Goes(c, where) /\ call[c] = "none"
          /\ (list' # list => where \in {"returns", "empties"})
  <2>1. {"idle", "empties", "reopens", "returns"} \subseteq Places
    BY DEF Places
  <2>2. pc[c] = "locked" => call[c] = "none"
    BY <1>0 DEF Working, Calling
  <2> QED
    BY <2>1, <2>2 DEF DisableDrained, FlushTells
<1>4. /\ pc' \in [Callers -> Places] /\ \A d \in Callers \ {c} : pc'[d] = pc[d]
      /\ call[c] = "none" /\ (list' # list => pc'[c] \in {"returns", "empties"})
  BY <1>0, <1>3 DEF Goes, Typed
<1>5. list[c] = <<>>
  BY <1>0 DEF Working, DisableDrained, FlushTells
<1>6. CASE list' = list /\ queue' = queue
  <2>1. Typed' /\ Carries' /\ Apart'
    BY <1>0, <1>1, <1>4, <1>6 DEF Typed, Carries, Apart
  <2>2. Working'
    BY <1>0, <1>1, <1>4, <1>5, <1>6 DEF Working
  <2>3. Lent' = Lent
    BY <1>1, <1>2, <1>6, LentWhole, LentWholeNext DEF Whole, Lists
  <2> QED
    BY <1>1, <1>2, <2>1, <2>2, <2>3 DEF Parts, Still
<1>7. CASE list' = [list EXCEPT ![c] = queue] /\ queue' = <<>> /\ list' # list
  <2>1. /\ list' \in [Callers -> Seq(Headers)] /\ list'[c] = queue
        /\ \A d \in Callers \ {c} : list'[d] = list[d]
    BY <1>0, <1>7 DEF Typed
  <2>2. ToSet(queue') = {} /\ Once(queue') /\ ToSet(list[c]) = {} /\ queue' \in Seq(Headers)
    BY <1>5, <1>7, Empty
  <2>3. Typed' /\ Carries'
    BY <1>0, <1>1, <1>4, <2>1, <2>2 DEF Typed, Carries
  <2>4. Working'
    BY <1>0, <1>1, <1>4, <1>7, <2>1 DEF Working
  <2>5. Apart'
    <3>1. /\ Once(queue') /\ Once(back') /\ \A d \in Callers : Once(list'[d])
          /\ \A g \in away' : g \notin ToSet(queue') \cup ToSet(back')
          /\ \A g \in ToSet(queue') : g \notin ToSet(back')
      BY <1>0, <1>1, <2>1, <2>2 DEF Apart
    <3>2. \A d \in Callers : \A g \in ToSet(list'[d]) :
           /\ g \notin away' \cup ToSet(queue') \cup ToSet(back')
           /\ \A e \in Callers : g \in ToSet(list'[e]) => d = e
      BY <1>0, <1>1, <2>1, <2>2 DEF Apart
    <3>3. \A u \in Threads : item'[u] # NoOne =>
           /\ item'[u] \notin away' \cup ToSet(queue') \cup ToSet(back')
           /\ \A d \in Callers : item'[u] \notin ToSet(list'[d])
           /\ \A v \in Threads : item'[v] = item'[u] => u = v
      BY <1>0, <1>1, <2>1, <2>2 DEF Apart
    <3> QED
      BY <3>1, <3>2, <3>3 DEF Apart
  <2>6. Lists' = Lists \cup ToSet(queue)
    <3>1. \A g : g \in Lists' <=> \E d \in Callers : g \in ToSet(list'[d])
      BY DEF Lists
    <3>2. \A g : g \in Lists <=> \E d \in Callers : g \in ToSet(list[d])
      BY DEF Lists
    <3>3. \A d \in Callers : list'[d] = IF d = c THEN queue ELSE list[d]
      BY <2>1
    <3>4. ToSet(list[c]) = {}
      BY <2>2
    <3> HIDE DEF Lists
    <3> QED
      BY <1>0, <3>1, <3>2, <3>3, <3>4
  <2>7. Lent' = Lent
    BY <1>1, <1>2, <2>2, <2>6, LentWhole, LentWholeNext DEF Whole
  <2> QED
    BY <1>1, <1>2, <2>3, <2>4, <2>5, <2>7 DEF Parts, Still
<1>8. CASE list' = [list EXCEPT ![c] = queue] /\ queue' = <<>> /\ list' = list
  <2>1. queue = <<>>
    BY <1>0, <1>5, <1>8 DEF Typed
  <2> QED
    BY <1>6, <1>8, <2>1
<1> QED
  BY <1>6, <1>7, <1>8 DEF DisableDrained, FlushTells

\* A resume sends the first of the queue.
LEMMA ResumeMoves ==
    ASSUME IInv, NEW c \in Controls, ResumeSends(c)
    PROVE  Parts' /\ Still
<1>0. Typed /\ Carries /\ Apart /\ Working
  BY DEF IInv, Parts
<1>1. /\ UNCHANGED <<transit, back, call, item, pc, list>>
      /\ queue # <<>> /\ queue' = Tail(queue) /\ away' = away \cup {Head(queue)}
  BY DEF ResumeSends, ToVideoCore, stage, calls
<1>2. /\ Head(queue) \in Headers /\ Head(queue) \in ToSet(queue)
      /\ queue' \in Seq(Headers) /\ Once(queue')
      /\ ToSet(queue') = ToSet(queue) \ {Head(queue)}
  BY <1>0, <1>1, Shorter DEF Typed, Apart
<1>3. Typed' /\ Carries' /\ Working'
  BY <1>0, <1>1, <1>2 DEF Typed, Carries, Working
<1>4. Apart'
  BY <1>0, <1>1, <1>2 DEF Apart
<1>5. Lent' = Lent
  BY <1>1, <1>2, LentWhole, LentWholeNext DEF Whole, Lists, Hands
<1> QED
  BY <1>1, <1>3, <1>4, <1>5 DEF Parts, Still, Returning

---------------------------------------------------------------------------
(* The steps of the control calls, and the locks.                          *)

\* All but c stay where they are.
OnlyCaller(c) == \A d \in Callers \ {c} : pc'[d] = pc[d]

LEMMA GoesIs ==
    ASSUME Typed, NEW c \in Callers, NEW where \in Places, Goes(c, where)
    PROVE  pc'[c] = where /\ OnlyCaller(c) /\ pc' \in [Callers -> Places]
  BY DEF Goes, Typed, OnlyCaller

\* These move no header and call no client.
Control(c) ==
    \/ EnableStarts(c) \/ EnableEnds(c) \/ DisableStarts(c) \/ DisableRefuses(c)
    \/ DisableLocks(c) \/ DisableTells(c) \/ DisableFails(c) \/ DisableEnds(c)
    \/ FlushBegins(c) \/ FlushEnds(c) \/ Pause(c) \/ Resume(c) \/ ResumeEnds(c)

LEMMA ControlMoves ==
    ASSUME IInv, NEW c \in Callers,
           (c \in Controls /\ Control(c)) \/ (c = Action /\ (Wakes \/ Locks \/ Unlocks))
    PROVE  Parts' /\ Still
<1>0. Typed /\ Carries /\ Apart /\ Working
  BY DEF IInv, Parts
<1>1. /\ UNCHANGED <<transit, queue, away, back, list, call, item>>
      /\ UNCHANGED pc \/ \E where \in Places : Goes(c, where)
      /\ call[c] = "none" /\ list[c] = <<>>
  <2>1. CASE c \in Controls /\ Control(c)
    <3>1. UNCHANGED <<transit, queue, away, back, list, call, item>>
      BY <2>1 DEF Control, EnableStarts, EnableEnds, DisableStarts, DisableRefuses,
         DisableLocks, DisableTells, DisableFails, DisableEnds, FlushBegins, FlushEnds, Pause,
         Resume, ResumeEnds, vc, stage, calls
    <3>2. UNCHANGED pc \/ \E where \in Places : Goes(c, where)
      BY <2>1 DEF Control, EnableStarts, EnableEnds, DisableStarts, DisableRefuses,
         DisableLocks, DisableTells, DisableFails, DisableEnds, FlushBegins, FlushEnds, Pause,
         Resume, ResumeEnds, vc, stage, Places
    <3>3. pc[c] \notin Calling \/ (call[c] = "none" /\ list[c] = <<>>)
      BY <2>1 DEF Control, EnableStarts, EnableEnds, DisableStarts, DisableRefuses,
         DisableLocks, DisableTells, DisableFails, DisableEnds, FlushBegins, FlushEnds, Pause,
         Resume, ResumeEnds, Calling
    <3> QED
      BY <1>0, <3>1, <3>2, <3>3 DEF Working, Calling
  <2>2. CASE c = Action /\ (Wakes \/ Locks \/ Unlocks)
    BY <1>0, <2>2 DEF Wakes, Locks, Unlocks, vc, stage, calls, Places, Working, Calling
  <2> QED
    BY <2>1, <2>2
<1>2. pc' \in [Callers -> Places] /\ OnlyCaller(c)
  BY <1>0, <1>1, GoesIs DEF Typed, OnlyCaller
<1>3. Typed' /\ Carries' /\ Apart'
  BY <1>0, <1>1, <1>2 DEF Typed, Carries, Apart
<1>4. Working'
  BY <1>0, <1>1, <1>2 DEF Working, OnlyCaller
<1>5. Lent' = Lent /\ Returning' = Returning
  BY <1>1, LentWhole, LentWholeNext DEF Whole, Lists, Hands, Returning
<1> QED
  BY <1>1, <1>3, <1>4, <1>5 DEF Parts, Still

\* The threads that move headers, and VideoCore.
Moving ==
    \/ \E s \in Senders : \E h \in Headers : Send(s, h)
    \/ \E t \in Threads : Hand(t)
    \/ VideoCore \/ \E e \in Events : Event(e)
    \/ \E c \in Callers :
           TakesBack(c) \/ CallsForEvent(c) \/ GivesBack(c) \/ Resends(c) \/ Counts(c)

\* What there is to a step.
LEMMA Steps ==
    ASSUME Next
    PROVE  \/ Moving \/ Wakes \/ Locks \/ Unlocks
           \/ \E c \in Controls :
                  Control(c) \/ DisableDrained(c) \/ FlushTells(c) \/ ResumeSends(c)
<1>1. ASSUME NEW c \in Callers, Calls(c) PROVE Moving
  BY <1>1, Threading DEF Calls, Moving
<1> QED
  BY <1>1, Threading DEF Next, ActionThread, Starts, Continues, Control, Moving

LEMMA PartsKept ==
    ASSUME IInv, Next
    PROVE  Parts' /\ (Still \/ Lends \/ Rejects \/ CallsBack \/ CountsOff)
<1>1. CASE Moving
  BY <1>1, SendMoves, HandMoves, ArrivalMoves, CallMoves, ReturnMoves, ResendMoves
     DEF Moving, VideoCore
<1>2. CASE Wakes \/ Locks \/ Unlocks
  BY <1>2, ControlMoves, Threading
<1>3. ASSUME NEW c \in Controls,
             Control(c) \/ DisableDrained(c) \/ FlushTells(c) \/ ResumeSends(c)
      PROVE  Parts' /\ Still
  BY <1>3, ControlMoves, DetachMoves, ResumeMoves, Threading
<1> QED
  BY <1>1, <1>2, <1>3, Steps

\* A step that moves headers leaves to the control calls what is theirs.
Leaves ==
    /\ UNCHANGED <<pc, enabled, paused, callback, hasPool, spoilt, portLock>>
    /\ \A t \in Threads : call'[t] = "hand" => sendLock' = t /\ enabled
    /\ \A c \in Controls : pc[c] \in {"locked", "resumes"} => sendLock' = c
    /\ queue' # queue => enabled /\ paused
    /\ away' \subseteq away \/ hasPool

LEMMA MovingLeaves == IInv /\ Moving => Leaves
<1> SUFFICES ASSUME IInv, Moving PROVE Leaves
  OBVIOUS
<1>0. Typed /\ Working /\ Held /\ Kept
  BY DEF IInv, Parts
<1>1. ASSUME NEW t \in Threads, NEW h \in Headers, Accepts(t, h), sendLock = NoOne,
             UNCHANGED <<paused, callback, hasPool, enabled, queue, away, pc, portLock, spoilt>>
      PROVE  Leaves
  <2>1. sendLock' = t /\ enabled /\ call'[t] = "hand" /\ OnlyThread(t)
    BY <1>0, <1>1, AtIs DEF Accepts
  <2>2. \A u \in Threads : call[u] # "hand"
    BY <1>0, <1>1, Threading DEF Held
  <2>3. \A c \in Controls : pc[c] \notin {"locked", "resumes"}
    BY <1>0, <1>1, Threading DEF Held
  <2> QED
    BY <1>1, <2>1, <2>2, <2>3 DEF Leaves, OnlyThread
<1>2. ASSUME NEW t \in Threads, Hand(t) PROVE Leaves
  <2>1. /\ call[t] = "hand" /\ sendLock = t /\ enabled
        /\ UNCHANGED <<pc, enabled, paused, callback, hasPool, spoilt, portLock>>
    BY <1>0, <1>2 DEF Hand, Held, Kept, state, stage
  <2>2. call'[t] # "hand" /\ OnlyThread(t)
    BY <1>0, <1>2, AtIs DEF Hand, Returns
  <2>3. \A u \in Threads : call'[u] # "hand"
    BY <1>0, <2>1, <2>2 DEF Held, OnlyThread
  <2>4. \A c \in Controls : pc[c] \notin {"locked", "resumes"}
    BY <1>0, <2>1, Threading DEF Held, Working, Calling
  <2>5. (queue' # queue => paused) /\ (away' \subseteq away \/ hasPool)
    BY <1>2 DEF Hand, ToVideoCore
  <2> QED
    BY <2>1, <2>3, <2>4, <2>5 DEF Leaves
<1>3. ASSUME UNCHANGED <<state, queue, pc, locks, spoilt>>, away' \subseteq away,
             \A t \in Threads : call'[t] = "hand" => call[t] = "hand"
      PROVE  Leaves
  BY <1>0, <1>3 DEF Leaves, Held, Kept, state, locks
<1>4. CASE \E s \in Senders : \E h \in Headers : Send(s, h)
  BY <1>1, <1>4, Threading DEF Send, state, vc, stage
<1>5. CASE \E t \in Threads : Hand(t)
  BY <1>2, <1>5
<1>6. CASE VideoCore \/ \E e \in Events : Event(e)
  BY <1>3, <1>6 DEF VideoCore, ComesBack, Event, stage, calls
<1>7. ASSUME NEW c \in Callers, TakesBack(c) \/ CallsForEvent(c) \/ GivesBack(c) \/ Counts(c)
      PROVE  Leaves
  <2>1. UNCHANGED <<state, queue, away, pc, locks, spoilt>>
    BY <1>7 DEF TakesBack, CallsForEvent, GivesBack, Counts, vc, stage
  <2>2. call' = call \/ \E where \in {"none", "count", "resend", "event"} :
                            call' = [call EXCEPT ![c] = where]
    BY <1>7 DEF TakesBack, CallsForEvent, GivesBack, Counts, CallsClient, At, calls
  <2>3. \A t \in Threads : call'[t] = "hand" => call[t] = "hand"
    BY <1>0, <2>2 DEF Typed
  <2> QED
    BY <1>3, <2>1, <2>3
<1>8. ASSUME NEW c \in Callers, Resends(c) PROVE Leaves
  <2>1. /\ c \in Threads /\ UNCHANGED <<paused, callback, hasPool, enabled, queue, away, pc, portLock, spoilt>>
        /\ sendLock = NoOne /\ call[c] = "resend"
    BY <1>8, Threading DEF Resends, state, vc, stage
  <2>2. CASE Accepts(c, item[c])
    <3>1. item[c] \in Headers
      BY <2>1 DEF IInv, Parts, Carries
    <3> QED
      BY <1>1, <2>1, <2>2, <3>1
  <2>3. CASE ~ Accepts(c, item[c])
    <3>1. At(c, "count", NoOne) /\ UNCHANGED <<state, locks>>
      BY <1>8, <2>3 DEF Resends, locks
    <3>2. \A t \in Threads : call'[t] = "hand" => call[t] = "hand"
      BY <1>0, <3>1 DEF At, Typed
    <3> QED
      BY <1>3, <2>1, <3>1, <3>2
  <2> QED
    BY <2>2, <2>3
<1> QED
  BY <1>4, <1>5, <1>6, <1>7, <1>8 DEF Moving

\* A lock stays with who has it.
LEMMA HeldKept ==
    ASSUME IInv, Next
    PROVE  Held'
<1>0. Typed /\ Typed' /\ Working /\ Carries /\ Held /\ Kept /\ Queued
  BY PartsKept DEF IInv, Parts
<1>1. CASE Moving
  BY <1>0, <1>1, MovingLeaves DEF Leaves, Held, Calling, Closing
<1>2. CASE Wakes \/ Locks \/ Unlocks
  <2>1. /\ UNCHANGED <<call, state, sendLock, portLock, queue>>
        /\ \A c \in Controls : pc'[c] = pc[c]
    BY <1>0, <1>2, Threading DEF Wakes, Locks, Unlocks, Goes, Typed, calls, locks
  <2> QED
    BY <1>0, <2>1 DEF state, Held, Calling, Closing
<1>3. ASSUME NEW c \in Controls, EnableStarts(c) PROVE Held'
  BY <1>0, <1>3, Threading DEF EnableStarts, Goes, Typed, Working, state, stage, locks, calls, vc, Held, Calling, Closing
<1>4. ASSUME NEW c \in Controls, EnableEnds(c) PROVE Held'
  BY <1>0, <1>4, Threading DEF EnableEnds, Goes, Typed, Working, state, stage, locks, calls, vc, Held, Calling, Closing
<1>5. ASSUME NEW c \in Controls, DisableStarts(c) PROVE Held'
  BY <1>0, <1>5, Threading DEF DisableStarts, Goes, Typed, Working, state, stage, locks, calls, vc, Held, Calling, Closing
<1>6. ASSUME NEW c \in Controls, DisableRefuses(c) PROVE Held'
  BY <1>0, <1>6, Threading DEF DisableRefuses, Goes, Typed, Working, state, stage, locks, calls, vc, Held, Calling, Closing
<1>7. ASSUME NEW c \in Controls, DisableLocks(c) PROVE Held'
  BY <1>0, <1>7, Threading DEF DisableLocks, Goes, Typed, Working, state, stage, locks, calls, vc, Held, Calling, Closing
<1>8. ASSUME NEW c \in Controls, DisableTells(c) PROVE Held'
  BY <1>0, <1>8, Threading DEF DisableTells, Goes, Typed, Working, state, stage, locks, calls, vc, Held, Calling, Closing
<1>9. ASSUME NEW c \in Controls, DisableFails(c) PROVE Held'
  BY <1>0, <1>9, Threading DEF DisableFails, Goes, Typed, Working, state, stage, locks, calls, vc, Held, Calling, Closing
<1>10. ASSUME NEW c \in Controls, DisableEnds(c) PROVE Held'
  BY <1>0, <1>10, Threading DEF DisableEnds, Goes, Typed, Working, state, stage, locks, calls, vc, Held, Calling, Closing
<1>11. ASSUME NEW c \in Controls, FlushBegins(c) PROVE Held'
  BY <1>0, <1>11, Threading DEF FlushBegins, Goes, Typed, Working, state, stage, locks, calls, vc, Held, Calling, Closing
<1>12. ASSUME NEW c \in Controls, FlushEnds(c) PROVE Held'
  BY <1>0, <1>12, Threading DEF FlushEnds, Goes, Typed, Working, state, stage, locks, calls, vc, Held, Calling, Closing
<1>13. ASSUME NEW c \in Controls, Pause(c) PROVE Held'
  BY <1>0, <1>13, Threading DEF Pause, Goes, Typed, Working, state, stage, locks, calls, vc, Held, Calling, Closing
<1>14. ASSUME NEW c \in Controls, Resume(c) PROVE Held'
  <2>1. UNCHANGED <<call, portLock>> /\ sendLock = NoOne
    BY <1>14 DEF Resume, calls
  <2>2. \A t \in Threads : call[t] # "hand"
    BY <2>1, Threading DEF Held, IInv
  <2>3. \/ pc' = pc /\ sendLock' = NoOne
        \/ pc' = [pc EXCEPT ![c] = "resumes"] /\ sendLock' = c
    BY <1>14, <2>1 DEF Resume, Goes
  <2>4. c \in Callers /\ Controls \subseteq Callers
    BY Threading
  <2>5. \A d \in Controls : pc'[d] = pc[d] \/ (d = c /\ pc'[d] = "resumes" /\ sendLock' = c)
    BY <1>0, <2>3, <2>4 DEF Typed
  <2>6. \A d \in Controls : pc[d] \notin {"locked", "resumes"}
    BY <1>0, <2>1, Threading DEF Held
  <2> QED
    BY <1>0, <2>1, <2>2, <2>5, <2>6 DEF Held, Closing
<1>15. ASSUME NEW c \in Controls, ResumeEnds(c) PROVE Held'
  BY <1>0, <1>15, Threading DEF ResumeEnds, Goes, Typed, Working, state, stage, locks, calls, vc, Held, Calling, Closing
<1>16. ASSUME NEW c \in Controls, DisableDrained(c) PROVE Held'
  BY <1>0, <1>16, Threading DEF DisableDrained, Goes, Typed, Working, state, stage, locks, calls, vc, Held, Calling, Closing
<1>17. ASSUME NEW c \in Controls, FlushTells(c) PROVE Held'
  <2>1. /\ UNCHANGED <<call, portLock>> /\ sendLock' = NoOne /\ pc[c] = "locked"
        /\ \E where \in {"returns", "idle"} : pc' = [pc EXCEPT ![c] = where]
    BY <1>17 DEF FlushTells, Goes, calls
  <2>2. sendLock = c /\ c \in Callers /\ Controls \subseteq Callers
    BY <1>0, <2>1, Threading DEF Held
  <2>3. \A d \in Controls : pc'[d] = pc[d] \/ (d = c /\ pc'[d] \in {"returns", "idle"})
    BY <1>0, <2>1, <2>2 DEF Typed
  <2>4. \A d \in Controls : pc'[d] \notin {"locked", "resumes"}
    BY <1>0, <2>1, <2>2, <2>3 DEF Held, Typed
  <2>5. \A t \in Threads : call[t] # "hand"
    <3>1. \A t \in Threads : call[t] = "hand" => t = c
      BY <1>0, <2>2 DEF Held
    <3>2. call[c] # "hand"
      BY <1>0, <2>1, <2>2 DEF Working, Calling
    <3> QED
      BY <3>1, <3>2
  <2> QED
    BY <1>0, <2>1, <2>3, <2>4, <2>5 DEF Held, Closing
<1>18. ASSUME NEW c \in Controls, ResumeSends(c) PROVE Held'
  BY <1>0, <1>18, Threading DEF ResumeSends, Goes, Typed, Working, state, stage, locks, calls, vc, Held, Calling, Closing
<1> QED
  BY <1>1, <1>2, <1>3, <1>4, <1>5, <1>6, <1>7, <1>8, <1>9, <1>10, <1>11, <1>12, <1>13, <1>14, <1>15, <1>16, <1>17, <1>18, Steps DEF Control

\* The port lock and the sending lock keep who changes the port apart.
LEMMA KeptKept ==
    ASSUME IInv, Next
    PROVE  Kept'
<1>0. Typed /\ Typed' /\ Working /\ Carries /\ Held /\ Kept /\ Queued
  BY PartsKept DEF IInv, Parts
<1>1. CASE Moving
  BY <1>0, <1>1, MovingLeaves DEF Leaves, Held, Kept, Closing
<1>2. CASE Wakes \/ Locks \/ Unlocks
  <2>1. /\ UNCHANGED <<call, state, sendLock, portLock, queue>>
        /\ \A c \in Controls : pc'[c] = pc[c]
    BY <1>0, <1>2, Threading DEF Wakes, Locks, Unlocks, Goes, Typed, calls, locks
  <2> QED
    BY <1>0, <2>1 DEF state, Held, Kept, Closing
<1>3. ASSUME NEW c \in Controls, EnableStarts(c) PROVE Kept'
  BY <1>0, <1>3, Threading DEF EnableStarts, Goes, Typed, Working, state, stage, locks, calls, vc, Held, Kept, Closing
<1>4. ASSUME NEW c \in Controls, EnableEnds(c) PROVE Kept'
  BY <1>0, <1>4, Threading DEF EnableEnds, Goes, Typed, Working, state, stage, locks, calls, vc, Held, Kept, Closing
<1>5. ASSUME NEW c \in Controls, DisableStarts(c) PROVE Kept'
  BY <1>0, <1>5, Threading DEF DisableStarts, Goes, Typed, Working, state, stage, locks, calls, vc, Held, Kept, Closing
<1>6. ASSUME NEW c \in Controls, DisableRefuses(c) PROVE Kept'
  BY <1>0, <1>6, Threading DEF DisableRefuses, Goes, Typed, Working, state, stage, locks, calls, vc, Held, Kept, Closing
<1>7. ASSUME NEW c \in Controls, DisableLocks(c) PROVE Kept'
  BY <1>0, <1>7, Threading DEF DisableLocks, Goes, Typed, Working, state, stage, locks, calls, vc, Held, Kept, Closing
<1>8. ASSUME NEW c \in Controls, DisableTells(c) PROVE Kept'
  BY <1>0, <1>8, Threading DEF DisableTells, Goes, Typed, Working, state, stage, locks, calls, vc, Held, Kept, Closing
<1>9. ASSUME NEW c \in Controls, DisableFails(c) PROVE Kept'
  BY <1>0, <1>9, Threading DEF DisableFails, Goes, Typed, Working, state, stage, locks, calls, vc, Held, Kept, Closing
<1>10. ASSUME NEW c \in Controls, DisableEnds(c) PROVE Kept'
  BY <1>0, <1>10, Threading DEF DisableEnds, Goes, Typed, Working, state, stage, locks, calls, vc, Held, Kept, Closing
<1>11. ASSUME NEW c \in Controls, FlushBegins(c) PROVE Kept'
  BY <1>0, <1>11, Threading DEF FlushBegins, Goes, Typed, Working, state, stage, locks, calls, vc, Held, Kept, Closing
<1>12. ASSUME NEW c \in Controls, FlushEnds(c) PROVE Kept'
  BY <1>0, <1>12, Threading DEF FlushEnds, Goes, Typed, Working, state, stage, locks, calls, vc, Held, Kept, Closing
<1>13. ASSUME NEW c \in Controls, Pause(c) PROVE Kept'
  BY <1>0, <1>13, Threading DEF Pause, Goes, Typed, Working, state, stage, locks, calls, vc, Held, Kept, Closing
<1>14. ASSUME NEW c \in Controls, Resume(c) PROVE Kept'
  BY <1>0, <1>14, Threading DEF Resume, Goes, Typed, Working, state, stage, locks, calls, vc, Held, Kept, Closing
<1>15. ASSUME NEW c \in Controls, ResumeEnds(c) PROVE Kept'
  BY <1>0, <1>15, Threading DEF ResumeEnds, Goes, Typed, Working, state, stage, locks, calls, vc, Held, Kept, Closing
<1>16. ASSUME NEW c \in Controls, DisableDrained(c) PROVE Kept'
  BY <1>0, <1>16, Threading DEF DisableDrained, Goes, Typed, Working, state, stage, locks, calls, vc, Held, Kept, Closing
<1>17. ASSUME NEW c \in Controls, FlushTells(c) PROVE Kept'
  BY <1>0, <1>17, Threading DEF FlushTells, Goes, Typed, Working, state, stage, locks, calls, vc, Held, Kept, Closing
<1>18. ASSUME NEW c \in Controls, ResumeSends(c) PROVE Kept'
  BY <1>0, <1>18, Threading DEF ResumeSends, Goes, Typed, Working, state, stage, locks, calls, vc, Held, Kept, Closing
<1> QED
  BY <1>1, <1>2, <1>3, <1>4, <1>5, <1>6, <1>7, <1>8, <1>9, <1>10, <1>11, <1>12, <1>13, <1>14, <1>15, <1>16, <1>17, <1>18, Steps DEF Control

\* A queue is sent or detached before the port sends past it.
LEMMA QueuedKept ==
    ASSUME IInv, Next
    PROVE  Queued'
<1>0. Typed /\ Typed' /\ Working /\ Carries /\ Held /\ Kept /\ Queued
  BY PartsKept DEF IInv, Parts
<1>1. CASE Moving
  BY <1>0, <1>1, MovingLeaves DEF Leaves, Held, Kept, Queued, Undrained, Closing, ToVideoCore, StaysPaused
<1>2. CASE Wakes \/ Locks \/ Unlocks
  <2>1. /\ UNCHANGED <<call, state, sendLock, portLock, queue>>
        /\ \A c \in Controls : pc'[c] = pc[c]
    BY <1>0, <1>2, Threading DEF Wakes, Locks, Unlocks, Goes, Typed, calls, locks
  <2> QED
    BY <1>0, <2>1 DEF state, Held, Kept, Queued, Undrained, Closing, ToVideoCore, StaysPaused
<1>3. ASSUME NEW c \in Controls, EnableStarts(c) PROVE Queued'
  BY <1>0, <1>3, Threading DEF EnableStarts, Goes, Typed, Working, state, stage, locks, calls, vc, Held, Kept, Queued, Undrained, Closing, ToVideoCore, StaysPaused
<1>4. ASSUME NEW c \in Controls, EnableEnds(c) PROVE Queued'
  BY <1>0, <1>4, Threading DEF EnableEnds, Goes, Typed, Working, state, stage, locks, calls, vc, Held, Kept, Queued, Undrained, Closing, ToVideoCore, StaysPaused
<1>5. ASSUME NEW c \in Controls, DisableStarts(c) PROVE Queued'
  BY <1>0, <1>5, Threading DEF DisableStarts, Goes, Typed, Working, state, stage, locks, calls, vc, Held, Kept, Queued, Undrained, Closing, ToVideoCore, StaysPaused
<1>6. ASSUME NEW c \in Controls, DisableRefuses(c) PROVE Queued'
  BY <1>0, <1>6, Threading DEF DisableRefuses, Goes, Typed, Working, state, stage, locks, calls, vc, Held, Kept, Queued, Undrained, Closing, ToVideoCore, StaysPaused
<1>7. ASSUME NEW c \in Controls, DisableLocks(c) PROVE Queued'
  BY <1>0, <1>7, Threading DEF DisableLocks, Goes, Typed, Working, state, stage, locks, calls, vc, Held, Kept, Queued, Undrained, Closing, ToVideoCore, StaysPaused
<1>8. ASSUME NEW c \in Controls, DisableTells(c) PROVE Queued'
  BY <1>0, <1>8, Threading DEF DisableTells, Goes, Typed, Working, state, stage, locks, calls, vc, Held, Kept, Queued, Undrained, Closing, ToVideoCore, StaysPaused
<1>9. ASSUME NEW c \in Controls, DisableFails(c) PROVE Queued'
  BY <1>0, <1>9, Threading DEF DisableFails, Goes, Typed, Working, state, stage, locks, calls, vc, Held, Kept, Queued, Undrained, Closing, ToVideoCore, StaysPaused
<1>10. ASSUME NEW c \in Controls, DisableEnds(c) PROVE Queued'
  BY <1>0, <1>10, Threading DEF DisableEnds, Goes, Typed, Working, state, stage, locks, calls, vc, Held, Kept, Queued, Undrained, Closing, ToVideoCore, StaysPaused
<1>11. ASSUME NEW c \in Controls, FlushBegins(c) PROVE Queued'
  BY <1>0, <1>11, Threading DEF FlushBegins, Goes, Typed, Working, state, stage, locks, calls, vc, Held, Kept, Queued, Undrained, Closing, ToVideoCore, StaysPaused
<1>12. ASSUME NEW c \in Controls, FlushEnds(c) PROVE Queued'
  BY <1>0, <1>12, Threading DEF FlushEnds, Goes, Typed, Working, state, stage, locks, calls, vc, Held, Kept, Queued, Undrained, Closing, ToVideoCore, StaysPaused
<1>13. ASSUME NEW c \in Controls, Pause(c) PROVE Queued'
  BY <1>0, <1>13, Threading DEF Pause, Goes, Typed, Working, state, stage, locks, calls, vc, Held, Kept, Queued, Undrained, Closing, ToVideoCore, StaysPaused
<1>14. ASSUME NEW c \in Controls, Resume(c) PROVE Queued'
  BY <1>0, <1>14, Threading DEF Resume, Goes, Typed, Working, state, stage, locks, calls, vc, Held, Kept, Queued, Undrained, Closing, ToVideoCore, StaysPaused
<1>15. ASSUME NEW c \in Controls, ResumeEnds(c) PROVE Queued'
  BY <1>0, <1>15, Threading DEF ResumeEnds, Goes, Typed, Working, state, stage, locks, calls, vc, Held, Kept, Queued, Undrained, Closing, ToVideoCore, StaysPaused
<1>16. ASSUME NEW c \in Controls, DisableDrained(c) PROVE Queued'
  BY <1>0, <1>16, Threading DEF DisableDrained, Goes, Typed, Working, state, stage, locks, calls, vc, Held, Kept, Queued, Undrained, Closing, ToVideoCore, StaysPaused
<1>17. ASSUME NEW c \in Controls, FlushTells(c) PROVE Queued'
  BY <1>0, <1>17, Threading DEF FlushTells, Goes, Typed, Working, state, stage, locks, calls, vc, Held, Kept, Queued, Undrained, Closing, ToVideoCore, StaysPaused
<1>18. ASSUME NEW c \in Controls, ResumeSends(c) PROVE Queued'
  BY <1>0, <1>18, Threading DEF ResumeSends, Goes, Typed, Working, state, stage, locks, calls, vc, Held, Kept, Queued, Undrained, Closing, ToVideoCore, StaysPaused
<1> QED
  BY <1>1, <1>2, <1>3, <1>4, <1>5, <1>6, <1>7, <1>8, <1>9, <1>10, <1>11, <1>12, <1>13, <1>14, <1>15, <1>16, <1>17, <1>18, Steps DEF Control

---------------------------------------------------------------------------
(* What the count is for.                                                  *)

\* The wait of a disable is over when the port has nothing.
LEMMA NothingLeft == IInv /\ NoneInTransit => Lent = {}
<1> SUFFICES ASSUME IInv, NoneInTransit PROVE Lent = {}
  OBVIOUS
<1>1. /\ IsFiniteSet(Lent) /\ Cardinality(Lent) \in Nat
      /\ IsFiniteSet(Returning) /\ Cardinality(Returning) \in Nat
  BY LentHeaders, Counts0 DEF IInv, Parts
<1>2. Cardinality(Lent) = 0
  BY <1>1 DEF IInv, TransitCounts, NoneInTransit
<1> QED
  BY <1>1, <1>2, FS_EmptySet

\* The callback goes only with the last header, the pool with the last context.
LEMMA WayBackKept ==
    ASSUME IInv, Next
    PROVE  WayBackStands'
<1>0. Typed /\ Held /\ Kept /\ WayBackStands
  BY DEF IInv, Parts
<1>1. Lent' \subseteq Lent \/ enabled
  BY PartsKept DEF Still, Lends, Rejects, CallsBack, CountsOff
<1>2. (Lent # {} => callback') /\ (enabled => callback')
  <2>1. CASE callback' = callback
    BY <1>0, <2>1 DEF WayBackStands, Kept
  <2>2. ASSUME NEW c \in Controls, EnableStarts(c) PROVE callback'
    BY <2>2 DEF EnableStarts
  <2>3. ASSUME NEW c \in Controls, DisableEnds(c) PROVE Lent = {} /\ ~enabled
    BY <1>0, <2>3, NothingLeft DEF DisableEnds, Kept, Closing
  <2>4. ASSUME NEW c \in Controls,
               Control(c) \/ DisableDrained(c) \/ FlushTells(c) \/ ResumeSends(c)
        PROVE  callback' = callback \/ EnableStarts(c) \/ DisableEnds(c)
    BY <2>4 DEF Control, EnableEnds, DisableStarts, DisableRefuses, DisableLocks, DisableTells,
       DisableFails, FlushBegins, FlushEnds, Pause, Resume, ResumeEnds, DisableDrained,
       FlushTells, ResumeSends, state
  <2>5. CASE Moving
    BY <2>1, <2>5, MovingLeaves DEF Leaves
  <2>6. CASE Wakes \/ Locks \/ Unlocks
    BY <2>1, <2>6 DEF Wakes, Locks, Unlocks, state
  <2> QED
    BY <2>1, <2>2, <2>3, <2>4, <2>5, <2>6, Steps
<1>3. away' # {} => hasPool' \/ spoilt'
  <2>1. ASSUME away' \subseteq away \/ hasPool, UNCHANGED <<hasPool, spoilt>>
        PROVE  away' # {} => hasPool' \/ spoilt'
    BY <1>0, <2>1 DEF WayBackStands
  <2>2. CASE Moving
    BY <2>1, <2>2, MovingLeaves DEF Leaves
  <2>3. CASE Wakes \/ Locks \/ Unlocks
    BY <2>1, <2>3 DEF Wakes, Locks, Unlocks, state, vc
  <2>4. ASSUME NEW c \in Controls, EnableStarts(c) \/ DisableTells(c)
        PROVE  away' # {} => hasPool' \/ spoilt'
    BY <2>4 DEF EnableStarts, DisableTells, vc
  <2>5. ASSUME NEW c \in Controls, ~ (EnableStarts(c) \/ DisableTells(c)),
               Control(c) \/ DisableDrained(c) \/ FlushTells(c) \/ ResumeSends(c)
        PROVE  away' # {} => hasPool' \/ spoilt'
    <3>1. UNCHANGED <<hasPool, spoilt>> /\ (away' \subseteq away \/ hasPool)
      BY <2>5 DEF Control, EnableEnds, DisableStarts, DisableRefuses, DisableLocks, KeepsPool,
         DisableFails, DisableEnds, FlushBegins, FlushEnds, Pause, Resume, ResumeEnds,
         DisableDrained, FlushTells, ResumeSends, ToVideoCore, state, vc
    <3> QED
      BY <2>1, <3>1
  <2> QED
    BY <2>2, <2>3, <2>4, <2>5, Steps
<1> QED
  BY <1>1, <1>2, <1>3 DEF WayBackStands

LEMMA InitInv == Init => IInv
<1> SUFFICES ASSUME Init PROVE IInv
  OBVIOUS
<1> USE DEF Init
<1>1. Typed
  <2>1. /\ queue \in Seq(Headers) /\ back \in Seq(Headers \cup Events)
        /\ list \in [Callers -> Seq(Headers)]
    OBVIOUS
  <2> QED
    BY <2>1 DEF Typed, Places
<1>2. Carries /\ Working
  BY Threading DEF Carries, Working, Callers, Threads
<1>3. Apart
  BY Empty DEF Apart
<1>4. Held /\ Kept /\ Queued
  BY Threading DEF Held, Kept, Queued, Closing, Undrained
<1>5. Lent = {} /\ Returning = {}
  BY Empty, LentWhole DEF Whole, Lists, Hands, Returning
<1>6. TransitCounts /\ WayBackStands
  BY <1>5, FS_EmptySet DEF TransitCounts, WayBackStands
<1> QED
  BY <1>1, <1>2, <1>3, <1>4, <1>6 DEF IInv, Parts

LEMMA NextInv == IInv /\ [Next]_vars => IInv'
<1>1. ASSUME IInv, Next PROVE IInv'
  <2>1. TransitCounts'
    BY <1>1, PartsKept, Balance DEF IInv
  <2> QED
    BY <1>1, <2>1, PartsKept, HeldKept, KeptKept, QueuedKept, WayBackKept DEF IInv
<1>2. ASSUME IInv, UNCHANGED vars PROVE IInv'
  BY <1>2 DEF vars, state, vc, locks, stage, calls, IInv, Parts, Typed, Carries, Apart, Working,
     Held, Kept, Queued, TransitCounts, WayBackStands, Lent, Returning
<1> QED
  BY <1>1, <1>2

LEMMA Invariant == Spec => []IInv
  BY InitInv, NextInv, PTL DEF Spec

---------------------------------------------------------------------------
(* The types.                                                              *)

Switches == {enabled, paused, callback, hasPool, eventsReady, signalled, spoilt} \subseteq BOOLEAN
Mutexes  == /\ sendLock \in Threads \cup {NoOne}
            /\ actLock \in Callers \cup {NoOne} /\ portLock \in Controls \cup {NoOne}

\* The steps that change a switch set or clear it.
LEMMA SwitchesKept == Switches /\ [Next]_vars => Switches'
<1> SUFFICES ASSUME Switches, [Next]_vars PROVE Switches'
  OBVIOUS
<1> USE DEF Switches, state, vc
<1>1. ASSUME NEW s \in Senders, Hand(s) \/ \E h \in Headers : Send(s, h) PROVE Switches'
  BY <1>1 DEF Hand, Send
<1>2. CASE VideoCore
  BY <1>2 DEF VideoCore, ComesBack, Triggers
<1>3. ASSUME NEW e \in Events, Event(e) PROVE Switches'
  BY <1>3 DEF Event, Triggers
<1>4. ASSUME NEW c \in Callers, Calls(c) PROVE Switches'
  BY <1>4 DEF Calls, TakesBack, CallsForEvent, GivesBack, Resends, Hand, Counts
<1>5. CASE Wakes \/ Locks \/ Unlocks
  BY <1>5 DEF Wakes, Locks, Unlocks
<1>6. ASSUME NEW c \in Controls, EnableStarts(c) \/ EnableEnds(c) PROVE Switches'
  BY <1>6 DEF EnableStarts, EnableEnds
<1>7. ASSUME NEW c \in Controls,
             \/ DisableStarts(c) \/ DisableRefuses(c) \/ DisableLocks(c)
             \/ DisableTells(c)
      PROVE  Switches'
  BY <1>7 DEF DisableStarts, DisableRefuses, DisableLocks, KeepsPool, DisableTells
<1>8. ASSUME NEW c \in Controls, DisableDrained(c) \/ DisableFails(c) \/ DisableEnds(c)
      PROVE  Switches'
  BY <1>8 DEF DisableDrained, DisableFails, DisableEnds
<1>9. ASSUME NEW c \in Controls, FlushBegins(c) \/ FlushTells(c) \/ FlushEnds(c)
      PROVE  Switches'
  BY <1>9 DEF FlushBegins, FlushTells, FlushEnds
<1>10. ASSUME NEW c \in Controls, Pause(c) \/ Resume(c) \/ ResumeSends(c) \/ ResumeEnds(c)
       PROVE  Switches'
  BY <1>10 DEF Pause, Resume, ResumeSends, ResumeEnds, StaysPaused
<1>11. CASE UNCHANGED vars
  BY <1>11 DEF vars
<1>12. Controls \cup {Action} \subseteq Callers
  BY Threading
<1> QED
  BY <1>1, <1>2, <1>3, <1>4, <1>5, <1>6, <1>7, <1>8, <1>9, <1>10, <1>11, <1>12
     DEF Next, ActionThread, Starts, Continues

\* A lock is taken by a thread that may take it.
LEMMA MutexesKept == Mutexes /\ [Next]_vars => Mutexes'
<1> SUFFICES ASSUME Mutexes, [Next]_vars PROVE Mutexes'
  OBVIOUS
<1> USE DEF Mutexes, locks
<1>0. /\ Controls \cup {Action} \subseteq Callers
      /\ Controls \cup Senders \cup Callers \subseteq Threads
  BY Threading
<1>1. ASSUME NEW s \in Senders, Hand(s) \/ \E h \in Headers : Send(s, h) PROVE Mutexes'
  BY <1>0, <1>1 DEF Hand, Send, Accepts
<1>2. CASE VideoCore
  BY <1>2 DEF VideoCore, ComesBack
<1>3. ASSUME NEW e \in Events, Event(e) PROVE Mutexes'
  BY <1>3 DEF Event
<1>4. ASSUME NEW c \in Callers, Calls(c) PROVE Mutexes'
  BY <1>0, <1>4 DEF Calls, TakesBack, CallsForEvent, GivesBack, Resends, Accepts, Hand, Counts
<1>5. CASE Wakes \/ Locks \/ Unlocks
  BY <1>0, <1>5 DEF Wakes, Locks, Unlocks
<1>6. ASSUME NEW c \in Controls, EnableStarts(c) \/ EnableEnds(c) PROVE Mutexes'
  BY <1>6 DEF EnableStarts, EnableEnds
<1>7. ASSUME NEW c \in Controls,
             \/ DisableStarts(c) \/ DisableRefuses(c) \/ DisableLocks(c)
             \/ DisableTells(c)
      PROVE  Mutexes'
  BY <1>0, <1>7 DEF DisableStarts, DisableRefuses, DisableLocks, DisableTells
<1>8. ASSUME NEW c \in Controls, DisableDrained(c) \/ DisableFails(c) \/ DisableEnds(c)
      PROVE  Mutexes'
  BY <1>8 DEF DisableDrained, DisableFails, DisableEnds
<1>9. ASSUME NEW c \in Controls, FlushBegins(c) \/ FlushTells(c) \/ FlushEnds(c)
      PROVE  Mutexes'
  BY <1>0, <1>9 DEF FlushBegins, FlushTells, FlushEnds
<1>10. ASSUME NEW c \in Controls, Pause(c) \/ Resume(c) \/ ResumeSends(c) \/ ResumeEnds(c)
       PROVE  Mutexes'
  BY <1>0, <1>10 DEF Pause, Resume, ResumeSends, ResumeEnds
<1>11. CASE UNCHANGED vars
  BY <1>11 DEF vars
<1> QED
  BY <1>0, <1>1, <1>2, <1>3, <1>4, <1>5, <1>6, <1>7, <1>8, <1>9, <1>10, <1>11
     DEF Next, ActionThread, Starts, Continues

\* Every variable of a port keeps its type; the count of headers, which the code
\* takes one from for every header that comes back, is never negative.
THEOREM TypeCorrectness == Spec => []TypeOK
<1>1. Init => Switches /\ Mutexes
  BY DEF Init, Switches, Mutexes
<1>2. IInv => transit \in Nat
  <2>1. SUFFICES ASSUME IInv PROVE transit \in Nat
    OBVIOUS
  <2>2. Cardinality(Lent) \in Nat /\ Cardinality(Returning) \in Nat
    BY <2>1, LentHeaders, Counts0 DEF IInv, Parts
  <2> QED BY <2>1, <2>2 DEF IInv, TransitCounts
<1>3. IInv /\ Switches /\ Mutexes => TypeOK
  BY <1>2 DEF IInv, Parts, Typed, Switches, Mutexes, TypeOK
<1> QED
  BY <1>1, <1>3, SwitchesKept, MutexesKept, Invariant, PTL DEF Spec

---------------------------------------------------------------------------
\* transit_buffer_headers counts the headers the port has and the calls of the
\* client that have not returned, whatever the threads do to each other: the
\* condition of mmal_port_disable's wait means what it is meant to.
THEOREM CountIsRight == Spec => []TransitCounts
<1>1. IInv => TransitCounts
  BY DEF IInv
<1> QED
  BY <1>1, Invariant, PTL

\* mmal_port_buffer_header_callback finds the client's callback in place for
\* every header, and its pool, unless a disable had failed.
THEOREM WayBackIsThere == Spec => []WayBackStands
<1>1. IInv => WayBackStands
  BY DEF IInv
<1> QED
  BY <1>1, Invariant, PTL

\* No header overtakes those a pause has queued, though a resume may fail half
\* way and a disable may fail with the queue in place.
THEOREM QueueIsNotOvertaken == Spec => NoneOvertakes
<1>1. ASSUME IInv, [Next]_vars
      PROVE  [\A h \in away' \ away : queue = <<>> \/ h = Head(queue)]_vars
  <2>0. Typed /\ Held /\ Kept /\ Queued
    BY <1>1 DEF IInv, Parts
  <2>1. ASSUME NEW t \in Threads, Hand(t) PROVE away' = away \/ queue = <<>>
    BY <2>0, <2>1 DEF Hand, ToVideoCore, Kept, Queued
  <2>2. CASE Moving
    <3>1. ASSUME NEW c \in Callers,
                 TakesBack(c) \/ CallsForEvent(c) \/ GivesBack(c) \/ Resends(c) \/ Counts(c)
          PROVE  away' = away
      BY <3>1 DEF TakesBack, CallsForEvent, GivesBack, Resends, Counts, vc
    <3>2. ASSUME (\E s \in Senders : \E h \in Headers : Send(s, h)) \/ VideoCore
                 \/ \E e \in Events : Event(e)
          PROVE  away' \subseteq away
      BY <3>2 DEF Send, VideoCore, ComesBack, Event, vc
    <3> QED
      BY <2>1, <2>2, <3>1, <3>2 DEF Moving
  <2>3. CASE Wakes \/ Locks \/ Unlocks
    BY <2>3 DEF Wakes, Locks, Unlocks, vc
  <2>4. ASSUME NEW c \in Controls, Control(c) \/ DisableDrained(c) \/ FlushTells(c)
        PROVE  away' = away
    BY <2>4 DEF Control, EnableStarts, EnableEnds, DisableStarts, DisableRefuses, DisableLocks,
       DisableTells, DisableFails, DisableEnds, FlushBegins, FlushEnds, Pause, Resume,
       ResumeEnds, DisableDrained, FlushTells, vc
  <2>5. ASSUME NEW c \in Controls, ResumeSends(c) PROVE away' = away \cup {Head(queue)}
    BY <2>5 DEF ResumeSends, ToVideoCore
  <2>6. CASE UNCHANGED vars
    BY <2>6
  <2> QED
    BY <1>1, <2>2, <2>3, <2>4, <2>5, <2>6, Steps
<1> QED
  BY <1>1, Invariant, PTL DEF Spec, NoneOvertakes

---------------------------------------------------------------------------
(* The loan.                                                               *)

\* Another caller's stage is not the port's.
LEMMA SameStage ==
    ASSUME enabled' = enabled, Lent' = Lent,
           \A c \in Controls : pc'[c] \in Closing <=> pc[c] \in Closing
    PROVE  UNCHANGED Loan!loan
  BY DEF Stage, Closing, Loan!loan

LEMMA ControlLoan ==
    ASSUME IInv, NEW c \in Controls, Lent' = Lent,
           Control(c) \/ DisableDrained(c) \/ FlushTells(c) \/ ResumeSends(c)
    PROVE  [Loan!Next]_Loan!loan
<1>0. Typed /\ Held /\ Kept
  BY DEF IInv, Parts
<1>a. c \in Callers /\ Controls \subseteq Callers
  BY Threading
<1>1. CASE EnableEnds(c)
  <2>1. /\ pc[c] = "enables" /\ ~enabled /\ \A d \in Controls : pc[d] \notin Closing
        /\ enabled' \in {enabled, TRUE}
        /\ \A d \in Controls : pc'[d] \notin Closing
    BY <1>0, <1>a, <1>1 DEF EnableEnds, Held, Kept, Goes, Typed, Closing
  <2>2. CASE enabled' = TRUE
    <3>1. Stage = "closed" /\ Stage' = "open"
      BY <2>1, <2>2 DEF Stage, Closing
    <3> QED
      BY <3>1 DEF Loan!Next, Loan!Open
  <2>3. CASE enabled' = enabled
    BY <2>1, <2>3, SameStage
  <2> QED
    BY <2>1, <2>2, <2>3
<1>2. CASE DisableRefuses(c)
  <2>1. enabled /\ ~enabled' /\ pc'[c] = "locks"
    BY <1>0, <1>a, <1>2 DEF DisableRefuses, Kept, Goes, Typed
  <2>2. Stage = "open" /\ Stage' = "closing"
    BY <2>1 DEF Stage
  <2> QED
    BY <2>2 DEF Loan!Next, Loan!Refuse
<1>3. CASE DisableFails(c)
  <2>1. ~enabled /\ enabled' /\ pc[c] = "reopens"
    BY <1>0, <1>3 DEF DisableFails, Kept, Closing
  <2>2. Stage = "closing" /\ Stage' = "open"
    BY <2>1 DEF Stage
  <2> QED
    BY <2>2 DEF Loan!Next, Loan!Reopen
<1>4. CASE DisableEnds(c)
  <2>1. /\ ~enabled /\ ~enabled' /\ pc[c] = "empties" /\ Lent = {}
        /\ \A d \in Controls : pc'[d] \notin Closing
    BY <1>0, <1>a, <1>4, NothingLeft DEF DisableEnds, Held, Kept, Closing, Goes, Typed
  <2>2. Stage = "closing" /\ Stage' = "closed"
    BY <2>1 DEF Stage, Closing
  <2> QED
    BY <2>1, <2>2 DEF Loan!Next, Loan!Close
<1>5. CASE ~ (EnableEnds(c) \/ DisableRefuses(c) \/ DisableFails(c) \/ DisableEnds(c))
  <2>1. enabled' = enabled
    BY <1>5 DEF Control, EnableStarts, DisableStarts, DisableLocks, DisableTells, FlushBegins,
       FlushEnds, Pause, Resume, ResumeEnds, DisableDrained, FlushTells, ResumeSends, state
  <2>2. \A d \in Controls : pc'[d] \in Closing <=> pc[d] \in Closing
    BY <1>0, <1>a, <1>5 DEF Control, EnableStarts, DisableStarts, DisableLocks, DisableTells,
       FlushBegins, FlushEnds, Pause, Resume, ResumeEnds, DisableDrained, FlushTells,
       ResumeSends, stage, Goes, Typed, Closing
  <2> QED
    BY <2>1, <2>2, SameStage
<1> QED
  BY <1>1, <1>2, <1>3, <1>4, <1>5

LEMMA NextLoan == IInv /\ [Next]_vars => [Loan!Next]_Loan!loan
<1> SUFFICES ASSUME IInv, [Next]_vars PROVE [Loan!Next]_Loan!loan
  OBVIOUS
<1>1. CASE Moving /\ Next
  <2>1. /\ UNCHANGED <<pc, enabled>>
        /\ (enabled => Stage = "open") /\ Stage' = Stage
    BY <1>1, MovingLeaves DEF Leaves, Stage
  <2>2. Lent \subseteq Headers
    BY LentHeaders DEF IInv, Parts
  <2> QED
    BY <1>1, <2>1, <2>2, PartsKept DEF Still, Lends, Rejects, CallsBack, CountsOff,
       Loan!Next, Loan!Lend, Loan!GiveBack, Loan!loan
<1>2. CASE Wakes \/ Locks \/ Unlocks
  <2>1. Lent' = Lent
    BY <1>2, ControlMoves, Threading DEF Still
  <2>2. enabled' = enabled /\ \A c \in Controls : pc'[c] = pc[c]
    BY <1>2, Threading DEF Wakes, Locks, Unlocks, state, Goes, IInv, Parts, Typed
  <2> QED
    BY <2>1, <2>2, SameStage
<1>3. ASSUME NEW c \in Controls,
             Control(c) \/ DisableDrained(c) \/ FlushTells(c) \/ ResumeSends(c)
      PROVE  [Loan!Next]_Loan!loan
  BY <1>3, ControlMoves, DetachMoves, ResumeMoves, ControlLoan, Threading DEF Still
<1>4. CASE UNCHANGED vars
  BY <1>4 DEF vars, state, vc, stage, calls, Loan!loan, Stage, Lent
<1> QED
  BY <1>1, <1>2, <1>3, <1>4, Steps

\* The port gives back once what it was lent and takes nothing when it is not
\* open, and a disable that succeeds leaves it with no header, for any number of
\* headers and threads and whatever step of a call fails.
THEOREM PortImplementsLoan == Spec => ImplementsLoan
<1>1. ASSUME Init PROVE Loan!Init
  <2>1. Lists = {}
    BY <1>1, Empty DEF Init, Lists
  <2>2. Hands = {}
    BY <1>1 DEF Init, Hands
  <2>3. Lent = {}
    BY <1>1, <2>1, <2>2, Empty, LentWhole DEF Init, Whole
  <2>4. \A c \in Controls : pc[c] = "idle"
    BY <1>1 DEF Init, Callers
  <2>5. Stage = "closed"
    BY <1>1, <2>4 DEF Init, Stage
  <2> QED
    BY <2>3, <2>5 DEF Loan!Init
<1> QED
  BY <1>1, NextLoan, Invariant, PTL DEF Spec, ImplementsLoan, Loan!Spec

---------------------------------------------------------------------------
(* The locks: no two threads wait for each other.                          *)

\* Who holds a lock is where its code has taken it and not let it go.
SendHeld == \A t \in Threads : sendLock = t =>
    call[t] = "hand" \/ (t \in Controls /\ pc[t] \in {"locked", "resumes"})
ActHeld ==
    /\ actLock = Action => pc[Action] = "drains"
    /\ \A c \in Controls :
           actLock = c => pc[c] \in {"tells", "drains", "salvages", "half", "locked"}
PortHeld == \A c \in Controls : portLock = c => pc[c] \in {"enables", "refuses"} \cup Closing

\* What came back is not forgotten: the action thread is up, or will be.
Woken == back # <<>> => signalled \/ pc[Action] \in {"woken", "drains"}

\* The action thread's own places.
Routine ==
    /\ pc[Action] \in {"idle", "woken", "drains"}
    /\ \A c \in Controls : pc[c] # "woken"

LInv == SendHeld /\ ActHeld /\ PortHeld /\ Woken /\ Routine

LEMMA InitLocks == Init => LInv
  BY Threading DEF Init, LInv, SendHeld, ActHeld, PortHeld, Woken, Routine

\* A step of a caller leaves the places of the others.
LEMMA OthersStay ==
    ASSUME Typed, NEW c \in Callers, NEW where, Goes(c, where)
    PROVE  pc'[c] = where /\ \A d \in Callers : d # c => pc'[d] = pc[d]
  BY DEF Goes, Typed

\* The steps that move headers, which take and release the sending lock only.
LEMMA MovingLocks == IInv /\ LInv /\ Moving => LInv'
<1> SUFFICES ASSUME IInv, LInv, Moving PROVE LInv'
  OBVIOUS
<1>0. Typed /\ Leaves /\ SendHeld /\ ActHeld /\ PortHeld /\ Woken /\ Routine
  BY MovingLeaves DEF IInv, Parts, LInv
<1>1. UNCHANGED <<pc, portLock, actLock>>
  <2>1. ASSUME NEW c \in Callers,
               TakesBack(c) \/ CallsForEvent(c) \/ GivesBack(c) \/ Resends(c) \/ Counts(c)
        PROVE  UNCHANGED actLock
    BY <2>1 DEF TakesBack, CallsForEvent, GivesBack, Resends, Counts, locks
  <2>2. ASSUME NEW t \in Threads, Hand(t) PROVE UNCHANGED actLock
    BY <2>2 DEF Hand
  <2>3. UNCHANGED actLock
    BY <2>1, <2>2 DEF Moving, Send, VideoCore, ComesBack, Event, locks
  <2> QED
    BY <1>0, <2>3 DEF Leaves
<1>2. ActHeld' /\ PortHeld' /\ Routine'
  BY <1>0, <1>1 DEF ActHeld, PortHeld, Routine
<1>3. Woken'
  <2>1. ASSUME NEW t \in Threads, Hand(t) PROVE Woken'
    BY <1>0, <1>1, <2>1 DEF Woken, Hand
  <2>2. ASSUME NEW s \in Senders, NEW h \in Headers, Send(s, h) PROVE Woken'
    BY <1>0, <1>1, <2>2 DEF Woken, Send, vc
  <2>3. ASSUME VideoCore \/ \E e \in Events : Event(e) PROVE Woken'
    BY <2>3 DEF Woken, VideoCore, ComesBack, Event, Triggers
  <2>4. ASSUME NEW c \in Callers, CallsForEvent(c) \/ GivesBack(c) \/ Resends(c) \/ Counts(c)
        PROVE  Woken'
    BY <1>0, <1>1, <2>4 DEF Woken, CallsForEvent, GivesBack, Resends, Counts, vc
  <2>5. ASSUME NEW c \in Callers, TakesBack(c) PROVE Woken'
    BY <1>0, <1>1, <2>5 DEF Woken, TakesBack
  <2> QED
    BY <2>1, <2>2, <2>3, <2>4, <2>5 DEF Moving
<1>4. SendHeld'
  <2>1. ASSUME NEW t \in Threads, Hand(t) PROVE SendHeld'
    BY <2>1, Threading DEF SendHeld, Hand
  <2>2. ASSUME NEW t \in Threads, NEW h \in Headers, Accepts(t, h) PROVE SendHeld'
    <3>1. sendLock' = t /\ call'[t] = "hand"
      BY <1>0, <2>2, AtIs DEF Accepts
    <3> QED
      BY <3>1 DEF SendHeld
  <2>3. ASSUME sendLock' = sendLock, \A t \in Threads : call[t] = "hand" => call'[t] = "hand"
        PROVE  SendHeld'
    BY <1>0, <1>1, <2>3 DEF SendHeld
  <2>4. ASSUME NEW c \in Callers, TakesBack(c) \/ CallsForEvent(c) \/ GivesBack(c) \/ Counts(c)
        PROVE  SendHeld'
    <3>1. sendLock' = sendLock /\ call[c] # "hand"
      BY <2>4 DEF TakesBack, CallsForEvent, GivesBack, Counts, locks
    <3>2. call' = call \/ \E where : call' = [call EXCEPT ![c] = where]
      BY <2>4 DEF TakesBack, CallsForEvent, GivesBack, Counts, CallsClient, At, calls
    <3>3. \A t \in Threads : call[t] = "hand" => call'[t] = "hand"
      BY <1>0, <3>1, <3>2 DEF Typed
    <3> QED
      BY <2>3, <3>1, <3>3
  <2>5. ASSUME NEW c \in Callers, Resends(c) PROVE SendHeld'
    <3>1. item[c] \in Headers /\ c \in Threads
      BY <2>5, Threading DEF IInv, Parts, Carries, Resends
    <3>2. CASE Accepts(c, item[c])
      BY <2>2, <3>1, <3>2
    <3>3. CASE ~Accepts(c, item[c])
      BY <2>5, <3>3, Threading DEF Resends, SendHeld
    <3> QED
      BY <3>2, <3>3
  <2>6. ASSUME NEW s \in Senders, NEW h \in Headers, Send(s, h) PROVE SendHeld'
    BY <2>2, <2>6, Threading DEF Send
  <2>7. ASSUME VideoCore \/ \E e \in Events : Event(e) PROVE SendHeld'
    BY <2>3, <2>7 DEF VideoCore, ComesBack, Event, locks, calls
  <2> QED
    BY <2>1, <2>4, <2>5, <2>6, <2>7 DEF Moving
<1> QED
  BY <1>2, <1>3, <1>4 DEF LInv

\* The steps of a control call: what becomes of the locks and of the place it is at.
LEMMA ControlLocks ==
    ASSUME IInv, LInv, NEW c \in Controls,
           Control(c) \/ DisableDrained(c) \/ FlushTells(c) \/ ResumeSends(c)
    PROVE  LInv'
<1>0. /\ Typed /\ SendHeld /\ ActHeld /\ PortHeld /\ Woken /\ Routine
      /\ c \in Callers /\ c # Action /\ c # NoOne /\ c \in Threads
      /\ Action \in Callers /\ Controls \subseteq Callers /\ NoOne \notin Threads
      /\ Callers \subseteq Threads
  BY Threading DEF IInv, Parts, LInv
<1> DEFINE
      To(where) == Goes(c, where) \/ (where = pc[c] /\ UNCHANGED pc)
      Step(where) ==
        /\ where # "woken" /\ To(where) /\ UNCHANGED call
        /\ \/ sendLock' = NoOne
           \/ sendLock' = sendLock /\ (sendLock = c /\ pc[c] \in {"locked", "resumes"} => where = pc[c])
           \/ sendLock' = c /\ where \in {"locked", "resumes"}
        /\ \/ actLock' = NoOne
           \/ actLock' = actLock /\ (actLock = c => where \in {"tells", "drains", "salvages", "half", "locked"})
           \/ actLock' = c /\ where \in {"tells", "drains", "salvages", "half", "locked"}
        /\ \/ portLock' = NoOne
           \/ portLock' = portLock /\ (portLock = c => where \in {"enables", "refuses"} \cup Closing)
           \/ portLock' = c /\ where \in {"enables", "refuses"} \cup Closing
        /\ UNCHANGED <<back, signalled>>
<1>1. ASSUME NEW where, Step(where) PROVE LInv'
  <2>1. /\ pc'[c] = where /\ \A d \in Callers : d # c => pc'[d] = pc[d]
    BY <1>0, <1>1, OthersStay
  <2>2. SendHeld'
    BY <1>0, <1>1, <2>1 DEF SendHeld
  <2>3. ActHeld'
    BY <1>0, <1>1, <2>1 DEF ActHeld
  <2>4. PortHeld'
    BY <1>0, <1>1, <2>1 DEF PortHeld
  <2>5. Woken' /\ Routine'
    BY <1>0, <1>1, <2>1 DEF Woken, Routine
  <2> QED
    BY <2>2, <2>3, <2>4, <2>5 DEF LInv
<1>2. /\ actLock = c => pc[c] \in {"tells", "drains", "salvages", "half", "locked"}
      /\ portLock = c => pc[c] \in {"enables", "refuses"} \cup Closing
  BY <1>0 DEF ActHeld, PortHeld
<1>3. CASE EnableStarts(c)
  <2>1. Step("enables")
    BY <1>2, <1>3 DEF EnableStarts, vc, calls
  <2> QED BY <1>1, <2>1
<1>4. CASE EnableEnds(c)
  <2>1. Step("idle")
    BY <1>2, <1>4 DEF EnableEnds, vc, calls
  <2> QED BY <1>1, <2>1
<1>5. CASE DisableStarts(c)
  <2>1. Step("refuses")
    BY <1>2, <1>5 DEF DisableStarts, vc, calls
  <2> QED BY <1>1, <2>1
<1>6. CASE DisableRefuses(c)
  <2>1. Step("locks")
    BY <1>2, <1>6 DEF DisableRefuses, vc, calls, locks, Closing
  <2> QED BY <1>1, <2>1
<1>7. CASE DisableLocks(c)
  <2>1. Step("tells")
    BY <1>2, <1>7 DEF DisableLocks, vc, calls, Closing
  <2> QED BY <1>1, <2>1
<1>8. CASE DisableTells(c)
  <2>1. Step("drains") \/ Step("salvages")
    BY <1>2, <1>8 DEF DisableTells, vc, calls, locks, Closing
  <2> QED BY <1>1, <2>1
<1>9. CASE DisableDrained(c)
  <2>1. Step("empties") \/ Step("reopens")
    BY <1>2, <1>9 DEF DisableDrained, vc, calls, Closing
  <2> QED BY <1>1, <2>1
<1>10. CASE DisableFails(c)
  <2>1. Step("idle")
    BY <1>2, <1>10 DEF DisableFails, vc, calls
  <2> QED BY <1>1, <2>1
<1>11. CASE DisableEnds(c)
  <2>1. Step("idle")
    BY <1>2, <1>11 DEF DisableEnds, vc, calls
  <2> QED BY <1>1, <2>1
<1>12. CASE FlushBegins(c)
  <2>1. Step("half") \/ Step("locked")
    BY <1>2, <1>12 DEF FlushBegins, vc, calls, Closing
  <2> QED BY <1>1, <2>1
<1>13. CASE FlushTells(c)
  <2>1. Step("returns") \/ Step("idle")
    BY <1>2, <1>13 DEF FlushTells, vc, calls, Closing
  <2> QED BY <1>1, <2>1
<1>14. CASE FlushEnds(c)
  <2>1. Step("idle")
    BY <1>2, <1>14 DEF FlushEnds, vc, calls, locks, Closing
  <2> QED BY <1>1, <2>1
<1>15. CASE Pause(c)
  <2>1. Step("idle")
    BY <1>2, <1>15 DEF Pause, vc, calls, locks, stage, Closing
  <2> QED BY <1>1, <2>1
<1>16. CASE Resume(c)
  <2>1. Step("resumes") \/ Step("idle")
    BY <1>2, <1>16 DEF Resume, vc, calls, Closing
  <2> QED BY <1>1, <2>1
<1>17. CASE ResumeSends(c)
  <2>1. Step("resumes")
    BY <1>2, <1>17 DEF ResumeSends, vc, calls, locks, stage, Closing
  <2> QED BY <1>1, <2>1
<1>18. CASE ResumeEnds(c)
  <2>1. Step("idle")
    BY <1>2, <1>18 DEF ResumeEnds, vc, calls, Closing
  <2> QED BY <1>1, <2>1
<1> QED
  BY <1>3, <1>4, <1>5, <1>6, <1>7, <1>8, <1>9, <1>10, <1>11, <1>12, <1>13, <1>14, <1>15,
     <1>16, <1>17, <1>18 DEF Control

LEMMA ActionLocks == IInv /\ LInv /\ (Wakes \/ Locks \/ Unlocks) => LInv'
<1> SUFFICES ASSUME IInv, LInv, Wakes \/ Locks \/ Unlocks PROVE LInv'
  OBVIOUS
<1>0. /\ Typed /\ SendHeld /\ ActHeld /\ PortHeld /\ Woken /\ Routine
      /\ Action \notin Controls /\ NoOne \notin Threads /\ Action \in Callers
      /\ Controls \subseteq Callers /\ Callers \subseteq Threads
  BY Threading DEF IInv, Parts, LInv
<1>1. /\ \A d \in Controls : pc'[d] = pc[d]
      /\ UNCHANGED <<sendLock, portLock, call>>
  BY <1>0, OthersStay DEF Wakes, Locks, Unlocks, calls, locks
<1>2. SendHeld' /\ PortHeld'
  BY <1>0, <1>1 DEF SendHeld, PortHeld
<1>3. CASE Wakes
  BY <1>0, <1>1, <1>2, <1>3, OthersStay DEF Wakes, LInv, ActHeld, Woken, Routine, locks
<1>4. CASE Locks
  BY <1>0, <1>1, <1>2, <1>4, OthersStay DEF Locks, LInv, ActHeld, Woken, Routine, vc
<1>5. CASE Unlocks
  BY <1>0, <1>1, <1>2, <1>5, OthersStay DEF Unlocks, LInv, ActHeld, Woken, Routine, vc
<1> QED
  BY <1>3, <1>4, <1>5

LEMMA NextLocks == IInv /\ LInv /\ [Next]_vars => LInv'
<1>1. CASE Next
  BY <1>1, Steps, MovingLocks, ControlLocks, ActionLocks
<1>2. CASE UNCHANGED vars
  BY <1>2 DEF vars, vc, locks, stage, calls, LInv, SendHeld, ActHeld, PortHeld, Woken, Routine
<1> QED
  BY <1>1, <1>2

\* Where a thread need not wait: in a call of the client or a send (Hand,
\* CallsForEvent, Counts, Resends) ...
InCall(t) ==
    \/ call[t] \in {"hand", "count", "event"}
    \/ call[t] = "resend" /\ sendLock = NoOne

\* ... between two calls of the client (TakesBack, GivesBack, Unlocks,
\* DisableDrained, DisableEnds, FlushEnds) ...
Between(c) ==
    /\ call[c] = "none"
    /\ \/ pc[c] \in {"drains", "salvages", "returns"}
       \/ pc[c] = "empties" /\ (list[c] # <<>> \/ NoneInTransit)

\* ... in the rest of a control call (EnableEnds, DisableRefuses, DisableLocks,
\* DisableTells, DisableFails, FlushBegins, FlushTells, ResumeEnds) ...
InControl(c) ==
    \/ pc[c] \in {"enables", "tells", "locked", "resumes"}
    \/ pc[c] \in {"refuses", "reopens", "half"} /\ sendLock = NoOne
    \/ pc[c] = "locks" /\ actLock = NoOne

\* ... and in the action thread's loop (Wakes, Locks).
InLoop ==
    \/ pc[Action] = "idle" /\ signalled
    \/ pc[Action] = "woken" /\ actLock = NoOne

Ready(t) ==
    \/ InCall(t)
    \/ t \in Callers /\ Between(t)
    \/ t \in Controls /\ InControl(t)
    \/ t = Action /\ InLoop

\* A call of the core or of the client has begun and not returned.
UnderWay == (\E c \in Callers : pc[c] # "idle") \/ (\E t \in Threads : call[t] # "none")

\* While a call is under way or a mutex is held, VideoCore has a header to
\* return or a thread can go on with what it does: no threads wait for each
\* other's mutexes, no disable waits for a header that nobody brings back, and
\* the action thread does not sleep on what came back.
NobodyStuck ==
    UnderWay \/ sendLock # NoOne \/ actLock # NoOne \/ portLock # NoOne
        => away # {} \/ \E t \in Threads : Ready(t)

\* A disable that waits with its own list given back has nothing to wait for,
\* if nothing else moves.
LEMMA NothingOut ==
    ASSUME IInv, LInv, NEW c \in Controls, pc[c] = "empties", away = {}, back = <<>>,
           \A t \in Threads : call[t] = "none", \A d \in Callers : list[d] = <<>>
    PROVE  NoneInTransit
<1>0. Held /\ Kept /\ Queued /\ TransitCounts
  BY DEF IInv
<1>1. portLock = c /\ ~enabled
  BY <1>0 DEF Held, Kept, Closing
<1>2. queue = <<>>
  BY <1>0, <1>1 DEF Queued, Held, Undrained, Closing
<1>3. Lists = {} /\ Hands = {}
  BY Empty DEF Lists, Hands
<1>4. Lent = {} /\ Returning = {}
  BY <1>2, <1>3, Empty, LentWhole DEF Whole, Returning
<1> QED
  BY <1>0, <1>4, FS_EmptySet DEF TransitCounts, NoneInTransit

LEMMA SomeoneGoes == IInv /\ LInv /\ Mutexes => NobodyStuck
<1> SUFFICES ASSUME IInv, LInv, Mutexes, away = {}, \A t \in Threads : ~Ready(t),
                    UnderWay \/ sendLock # NoOne \/ actLock # NoOne \/ portLock # NoOne
             PROVE  FALSE
  BY DEF NobodyStuck
<1>0. /\ Typed /\ Working /\ SendHeld /\ ActHeld /\ PortHeld /\ Woken /\ Routine
      /\ Action \in Callers /\ Action \notin Controls /\ Controls \subseteq Callers
      /\ Callers \subseteq Threads /\ Callers = Controls \cup {Action}
  BY Threading DEF IInv, Parts, LInv, Callers
<1>1. sendLock = NoOne
  BY <1>0 DEF Mutexes, SendHeld, Ready, InCall, InControl
<1>2. \A t \in Threads : call[t] = "none"
  BY <1>0, <1>1 DEF Typed, Ready, InCall
<1>3. pc[Action] # "drains"
  BY <1>0, <1>2 DEF Ready, Between
<1>4. actLock = NoOne
  <2>1. actLock # Action
    BY <1>0, <1>3 DEF ActHeld
  <2>2. \A c \in Controls : pc[c] \notin {"tells", "drains", "salvages", "half", "locked"}
    BY <1>0, <1>1, <1>2 DEF Ready, Between, InControl
  <2> QED
    BY <1>0, <2>1, <2>2 DEF Mutexes, ActHeld
<1>5. pc[Action] = "idle" /\ ~signalled /\ back = <<>>
  BY <1>0, <1>3, <1>4 DEF Routine, Ready, InLoop, Woken
<1>6. PICK c \in Controls : pc[c] # "idle"
  <2>1. CASE portLock # NoOne
    BY <1>0, <2>1 DEF Mutexes, PortHeld, Closing
  <2>2. CASE UnderWay
    BY <1>0, <1>2, <1>5, <2>2 DEF UnderWay
  <2> QED
    BY <1>1, <1>4, <2>1, <2>2
<1>7. pc[c] = "empties"
  <2>1. pc[c] \in Places /\ pc[c] # "woken"
    BY <1>0 DEF Typed, Routine
  <2>2. pc[c] \notin {"drains", "salvages", "returns"}
    BY <1>0, <1>2 DEF Ready, Between
  <2>3. pc[c] \notin {"enables", "tells", "locked", "resumes", "refuses", "reopens", "half", "locks"}
    BY <1>0, <1>1, <1>4 DEF Ready, InControl
  <2> QED
    BY <1>6, <2>1, <2>2, <2>3 DEF Places
<1>8. \A d \in Callers : list[d] = <<>>
  BY <1>0, <1>2 DEF Working, Ready, Between
<1>9. NoneInTransit
  BY <1>2, <1>5, <1>7, <1>8, NothingOut
<1> QED
  BY <1>0, <1>2, <1>7, <1>9 DEF Ready, Between

\* However many threads send, enable, disable, flush, pause and resume, and
\* though a client sends again from its callback: the three mutexes, the wait of
\* mmal_port_disable and the action thread's event never leave every thread
\* waiting.
THEOREM SomeoneCanGo == Spec => []NobodyStuck
<1>1. Init => Mutexes
  BY DEF Init, Mutexes
<1> QED
  BY <1>1, InitLocks, NextLocks, MutexesKept, SomeoneGoes, Invariant, PTL DEF Spec
=============================================================================
