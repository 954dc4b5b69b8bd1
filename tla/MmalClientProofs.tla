-------------------------- MODULE MmalClientProofs --------------------------
(***************************************************************************)
(* Proofs about MmalClient, for any number of threads, waiters and calls:  *)
(* answers and transfers find their calls, data keeps its order, and what  *)
(* the threads wait for comes.                                             *)
(***************************************************************************)
EXTENDS MmalClient, FiniteSetTheorems, SequenceTheorems, TLAPS

Stages == {"out", "opened", "idle", "wants", "searches", "has", "queues", "transmits",
           "waits", "answered", "fails", "frees", "posts", "sends", "follows"}

\* The threads that are in one of these stages.
Where(at, stages) == {t \in Callers : at[t] \in stages}

Inside   == Stages \ {"out"}
Holding  == {"has", "queues", "transmits", "waits", "answered", "fails", "frees"}
Using    == {"opened", "queues", "transmits", "waits", "answered", "fails"}
Wanting  == {"transmits", "waits"}          \* VideoCore has the call's message
Following == {"transmits", "follows"}       \* the transfer is still to come
Numbered == Inside \ {"opened", "idle"}     \* the thread has a call of its own

Typed ==
    /\ pc \in [Callers -> Stages] /\ refcount \in Nat
    /\ usecount \in Int /\ sem \in Nat /\ calls \in Calls \cup {0}
    /\ inuse \subseteq Waiters /\ dest \in [Waiters -> Calls \cup {NoOne}]
    /\ posted \in [Waiters -> Nat] /\ bulk_lock \in Callers \cup {NoOne}
    /\ call \in [Callers -> Calls \cup {0}] /\ answer \in [Callers -> Calls \cup {0}]
    /\ waiter \in [Callers -> Waiters \cup {NoOne}] /\ dummy \in [Callers -> BOOLEAN]
    /\ requests \subseteq [waiter : Waiters, call : Calls] /\ announced \in Seq(Calls)

\* Who is inside has a component, and the client is open for all of them.
Counted == refcount = Cardinality(Where(pc, Inside))

\* Calls have numbers of their own.
Distinct ==
    /\ \A t \in Callers : call[t] <= calls /\ (pc[t] \in Numbered => call[t] # 0)
    /\ \A t, u \in Callers : call[t] = call[u] /\ call[t] # 0 => t = u

\* A ticket, and one on its way to or from the pool, stands for a free waiter;
\* while the client is open there is one for each.
Tickets ==
    LET tickets == sem + Cardinality(Where(pc, {"searches"})) + Cardinality(Where(pc, {"posts"}))
    IN  /\ tickets <= Cardinality(Waiters \ inuse)
        /\ refcount > 0 => tickets = Cardinality(Waiters \ inuse)

\* A call has its waiter for itself, and the waiter points to its answer.
Holders ==
    /\ \A t \in Where(pc, Holding) : waiter[t] \in inuse /\ dest[waiter[t]] = call[t]
    /\ \A t, u \in Where(pc, Holding) : waiter[t] = waiter[u] => t = u

\* The lock spans a message and its transfer.
Spans(stage, transfer) ==
    \/ stage \in {"sends", "transmits", "follows"}
    \/ transfer /\ stage \in {"wants", "searches", "has", "queues"}

Locked == \A t \in Callers : Spans(pc[t], dummy[t]) => bulk_lock = t

\* Nothing is announced but the transfer of who has the lock.
Followed ==
    /\ Where(pc, Following) # {} => announced # <<>>
    /\ "bulk" \notin broken =>
           /\ \A t \in Where(pc, Following) : announced = <<call[t]>>
           /\ Where(pc, Following) = {} => announced = <<>>

\* The use of the service covers all that use it.
Awake ==
    "use" \notin broken =>
        /\ usecount >= Cardinality(Where(pc, Using))
        /\ refcount > 0 /\ usecount > 0 => awake

\* A message with VideoCore is the one of a call that still has its waiter; the
\* answer comes once, and is that call's.
Answered ==
    "bulk" \notin broken =>
        /\ \A t \in Where(pc, Wanting) :
               \/ posted[waiter[t]] = 0 /\ [waiter |-> waiter[t], call |-> call[t]] \in requests
               \/ /\ posted[waiter[t]] = 1 /\ answer[t] = call[t]
                  /\ \A r \in requests : r.waiter # waiter[t]
        /\ \A r \in requests : \E t \in Where(pc, Wanting) :
               r.waiter = waiter[t] /\ r.call = call[t]
        /\ \A w \in Waiters : posted[w] # 0 => \E t \in Where(pc, Wanting) : waiter[t] = w
        /\ \A t \in Where(pc, {"answered"}) : answer[t] = call[t]

IInv == /\ Typed /\ Counted /\ Distinct /\ Tickets /\ Holders
        /\ Locked /\ Followed /\ Awake /\ Answered

---------------------------------------------------------------------------
\* One thread moves: who is where is counted on.
Moves(f, g, t) == t \in Callers /\ \A u \in Callers \ {t} : g[u] = f[u]

LEMMA SomeCount ==
    ASSUME NEW f, NEW S
    PROVE  IsFiniteSet(Where(f, S)) /\ Cardinality(Where(f, S)) \in Nat
<1>1. IsFiniteSet(Where(f, S))
  BY FS_Subset, ClientAssumption DEF Where
<1> QED
  BY <1>1, FS_CardinalityType

LEMMA Stays ==
    ASSUME NEW f, NEW g, NEW t, NEW S, Moves(f, g, t), f[t] \in S <=> g[t] \in S
    PROVE  Where(g, S) = Where(f, S)
  BY DEF Where, Moves

LEMMA Enters ==
    ASSUME NEW f, NEW g, NEW t, NEW S, Moves(f, g, t), f[t] \notin S, g[t] \in S
    PROVE  Cardinality(Where(g, S)) = Cardinality(Where(f, S)) + 1
<1>1. Where(g, S) = Where(f, S) \cup {t} /\ t \notin Where(f, S)
  BY DEF Where, Moves
<1> QED
  BY <1>1, SomeCount, FS_AddElement

LEMMA Leaves ==
    ASSUME NEW f, NEW g, NEW t, NEW S, Moves(f, g, t), f[t] \in S, g[t] \notin S
    PROVE  Cardinality(Where(g, S)) = Cardinality(Where(f, S)) - 1
<1>1. Where(g, S) = Where(f, S) \ {t} /\ t \in Where(f, S)
  BY DEF Where, Moves
<1> QED
  BY <1>1, SomeCount, FS_RemoveElement

\* No one counted is no one there.
LEMMA CountZero ==
    ASSUME NEW f, NEW S
    PROVE  Cardinality(Where(f, S)) = 0 <=> Where(f, S) = {}
<1>1. IsFiniteSet(Where(f, S))
  BY FS_Subset, ClientAssumption DEF Where
<1> QED
  BY <1>1, FS_EmptySet

LEMMA InitInv == Init => IInv
<1> SUFFICES ASSUME Init PROVE IInv
  OBVIOUS
<1>1. Typed
  <2>1. /\ pc \in [Callers -> Stages] /\ dummy \in [Callers -> BOOLEAN]
    BY DEF Init, Stages
  <2>2. /\ call \in [Callers -> Calls \cup {0}] /\ answer \in [Callers -> Calls \cup {0}]
        /\ calls \in Calls \cup {0}
    BY DEF Init
  <2>3. /\ dest \in [Waiters -> Calls \cup {NoOne}] /\ posted \in [Waiters -> Nat]
        /\ waiter \in [Callers -> Waiters \cup {NoOne}]
    BY DEF Init
  <2>4. /\ bulk_lock \in Callers \cup {NoOne} /\ inuse \subseteq Waiters
        /\ requests \subseteq [waiter : Waiters, call : Calls] /\ announced \in Seq(Calls)
        /\ refcount \in Nat /\ usecount \in Int /\ sem \in Nat
    BY DEF Init
  <2> QED
    BY <2>1, <2>2, <2>3, <2>4 DEF Typed
<1>2. \A S : S \subseteq Inside => Where(pc, S) = {}
  BY DEF Init, Where, Inside, Stages
<1>3. /\ Where(pc, Inside) = {} /\ Where(pc, {"searches"}) = {} /\ Where(pc, {"posts"}) = {}
      /\ Where(pc, Holding) = {} /\ Where(pc, Following) = {} /\ Where(pc, Using) = {}
      /\ Where(pc, Wanting) = {} /\ Where(pc, {"answered"}) = {}
  BY DEF Init, Where, Inside, Stages, Holding, Following, Using, Wanting
<1>4. Counted /\ Awake
  BY <1>3, CountZero DEF Init, Counted, Awake
<1>5. Tickets
  <2>1. Cardinality(Waiters \ inuse) \in Nat
    BY ClientAssumption, FS_CardinalityType DEF Init
  <2>2. /\ Cardinality(Where(pc, {"searches"})) = 0
        /\ Cardinality(Where(pc, {"posts"})) = 0
    BY <1>3, CountZero
  <2> QED
    BY <2>1, <2>2 DEF Init, Tickets
<1>6. Distinct /\ Locked
  BY DEF Init, Distinct, Locked, Spans, Numbered, Inside, Stages
<1>7. Holders /\ Followed
  BY <1>3 DEF Init, Holders, Followed
<1>8. Answered
  BY <1>3 DEF Init, Answered
<1> QED
  BY <1>1, <1>4, <1>5, <1>6, <1>7, <1>8 DEF IInv

---------------------------------------------------------------------------
LEMMA SeqTyped ==
    ASSUME NEW S, NEW s \in Seq(S)
    PROVE  /\ <<>> \in Seq(S) /\ (\A e \in S : Append(s, e) \in Seq(S))
           /\ s # <<>> => Tail(s) \in Seq(S)
  OBVIOUS

\* Every step leaves the types.
LEMMA TypedKept == IInv /\ Next => Typed'
<1> SUFFICES ASSUME IInv, Next PROVE Typed'
  OBVIOUS
<1> USE DEF service, pool, thread, out, in, Goes
<1>0. Typed
  BY DEF IInv
<1>a. /\ \A t \in Callers : pc[t] \in Numbered => call[t] \in Calls
      /\ \A t \in Callers : pc[t] \in Following => announced # <<>>
      /\ \A t \in Callers : pc[t] \in Holding => waiter[t] \in Waiters
  BY <1>0 DEF IInv, Typed, Distinct, Followed, Holders, Where
<1>b. \A t \in Callers : pc[t] # "out" => refcount > 0
  <2>1. \A t \in Callers : pc[t] # "out" => Where(pc, Inside) # {}
    BY <1>0 DEF Typed, Where, Inside
  <2> QED
    BY <1>0, <2>1, CountZero DEF IInv, Counted, Typed
<1>c. /\ announced \in Seq(Calls) /\ <<>> \in Seq(Calls)
      /\ \A e \in Calls : Append(announced, e) \in Seq(Calls)
      /\ announced # <<>> => Tail(announced) \in Seq(Calls)
  <2>1. announced \in Seq(Calls)
    BY <1>0 DEF Typed
  <2> QED
    BY <2>1, SeqTyped
<1>1. ASSUME NEW t \in Callers, InitClient(t) PROVE Typed'
  <2>1. Cardinality(Waiters) \in Nat
    BY ClientAssumption, FS_CardinalityType
  <2>2. CASE refcount = 0
    BY <1>0, <1>1, <2>1, <2>2 DEF InitClient, Opens, Typed, Stages
  <2>3. CASE refcount > 0
    <3>1. /\ refcount' = refcount + 1 /\ pc' = [pc EXCEPT ![t] = "idle"]
          /\ UNCHANGED <<usecount, sem, inuse, posted>>
      BY <1>0, <1>1, <2>3 DEF InitClient, Typed
    <3> QED
      BY <1>0, <1>1, <3>1 DEF InitClient, Typed, Stages
  <2> QED
    BY <1>0, <2>2, <2>3 DEF Typed
<1>2. ASSUME NEW t \in Callers, DeinitClient(t) PROVE Typed'
  <2>1. requests' \subseteq [waiter : Waiters, call : Calls] /\ announced' \in Seq(Calls)
    BY <1>0, <1>2, <1>c DEF DeinitClient, Typed
  <2>2. pc' \in [Callers -> Stages] /\ refcount' \in Nat
    BY <1>0, <1>2, <1>b DEF DeinitClient, Typed, Stages
  <2> QED
    BY <1>0, <1>2, <2>1, <2>2 DEF DeinitClient, Typed
<1>3. ASSUME NEW t \in Callers, InitReleases(t) PROVE Typed'
  BY <1>0, <1>3 DEF InitReleases, Releases, Typed, Stages
<1>4. ASSUME NEW t \in Callers, NEW transfer \in BOOLEAN, CallStarts(t, transfer) PROVE Typed'
  BY <1>0, <1>4, ClientAssumption DEF CallStarts, Typed, Stages, Calls
<1>5. ASSUME NEW t \in Callers, TakesTicket(t) PROVE Typed'
  BY <1>0, <1>5 DEF TakesTicket, Typed, Stages
<1>6. ASSUME NEW t \in Callers, FindsWaiter(t) PROVE Typed'
  <2>1. call[t] \in Calls
    BY <1>6, <1>a DEF FindsWaiter, Numbered, Inside, Stages
  <2> QED
    BY <1>0, <1>6, <2>1 DEF FindsWaiter, Typed, Stages
<1>7. ASSUME NEW t \in Callers, CallUses(t) PROVE Typed'
  BY <1>0, <1>7 DEF CallUses, Uses, Typed, Stages
<1>8. ASSUME NEW t \in Callers, CallQueues(t) PROVE Typed'
  <2>1. call[t] \in Calls /\ waiter[t] \in Waiters
    BY <1>8, <1>a DEF CallQueues, Numbered, Holding, Inside, Stages
  <2>2. /\ pc' \in [Callers -> Stages] /\ bulk_lock' \in Callers \cup {NoOne}
    BY <1>0, <1>8 DEF CallQueues, Typed, Stages
  <2>3. requests' \subseteq [waiter : Waiters, call : Calls] /\ announced' \in Seq(Calls)
    <3>1. requests' \subseteq [waiter : Waiters, call : Calls]
      BY <1>0, <1>8, <2>1 DEF CallQueues, Typed
    <3>2. announced' \in Seq(Calls)
      <4>1. announced' = announced \/ announced' = Append(announced, call[t])
        BY <1>8 DEF CallQueues
      <4> QED
        BY <2>1, <4>1, <1>c
    <3> QED
      BY <3>1, <3>2
  <2> QED
    BY <1>0, <1>8, <2>2, <2>3 DEF CallQueues, Typed
<1>9. ASSUME NEW t \in Callers, NEW done \in Stages, NEW failed \in Stages,
             pc[t] \in Following, Transmits(t, done, failed)
      PROVE  Typed'
  <2>1. announced' \in Seq(Calls)
    <3>1. announced' = announced \/ announced' = Tail(announced)
      BY <1>9 DEF Transmits
    <3> QED
      BY <1>9, <1>a, <1>c, <3>1
  <2>2. pc' \in [Callers -> Stages] /\ bulk_lock' \in Callers \cup {NoOne}
    BY <1>0, <1>9 DEF Transmits, Typed
  <2> QED
    BY <1>0, <1>9, <2>1, <2>2 DEF Transmits, Typed
<1>10. ASSUME NEW t \in Callers, CallWaits(t) PROVE Typed'
  <2>1. posted' \in [Waiters -> Nat]
    BY <1>0, <1>10, <1>a DEF CallWaits, Woken, Typed, Holding
  <2> QED
    BY <1>0, <1>10, <2>1 DEF CallWaits, Typed, Stages
<1>11. ASSUME NEW t \in Callers, CallReleases(t) PROVE Typed'
  BY <1>0, <1>11 DEF CallReleases, Releases, Typed, Stages
<1>12. ASSUME NEW t \in Callers, CallEnds(t) PROVE Typed'
  <2>1. /\ call' \in [Callers -> Calls \cup {0}] /\ answer' \in [Callers -> Calls \cup {0}]
        /\ waiter' \in [Callers -> Waiters \cup {NoOne}] /\ dummy' \in [Callers -> BOOLEAN]
    BY <1>0, <1>12 DEF CallEnds, Forgets, Typed
  <2>2. /\ pc' \in [Callers -> Stages] /\ inuse' \subseteq Waiters /\ sem' \in Nat
    BY <1>0, <1>12 DEF CallEnds, FreesWaiter, Typed, Stages
  <2> QED
    BY <1>0, <1>12, <2>1, <2>2 DEF CallEnds, Typed
<1>13. ASSUME NEW t \in Callers, SendStarts(t) PROVE Typed'
  BY <1>0, <1>13, ClientAssumption DEF SendStarts, Typed, Stages, Calls
<1>14. ASSUME NEW t \in Callers, SendQueues(t) PROVE Typed'
  <2>1. call[t] \in Calls
    BY <1>14, <1>a DEF SendQueues, Numbered, Inside, Stages
  <2> QED
    <3>1. announced' = announced \/ announced' = Append(announced, call[t])
      BY <1>14 DEF SendQueues
    <3>2. announced' \in Seq(Calls)
      BY <2>1, <3>1, <1>c
    <3>3. pc' \in [Callers -> Stages] /\ bulk_lock' \in Callers \cup {NoOne}
      BY <1>0, <1>14 DEF SendQueues, Typed, Stages
    <3> QED
      BY <1>0, <1>14, <3>2, <3>3 DEF SendQueues, Typed
<1>15. CASE Answers
  BY <1>0, <1>15 DEF Answers, Typed
<1>16. CASE Receives \/ BulkReceived
  BY <1>0, <1>16 DEF Receives, BulkReceived, Typed
<1>17. ASSUME NEW b \in Buffers, VideoCoreSends(b) PROVE Typed'
  BY <1>0, <1>17 DEF VideoCoreSends, Typed
<1>18. ASSUME NEW t \in Callers, CallTransmits(t) \/ SendTransmits(t) PROVE Typed'
  BY <1>9, <1>18 DEF CallTransmits, SendTransmits, Following, Stages
<1> HIDE DEF service, pool, thread, out, in, Goes
<1> QED
  BY <1>1, <1>2, <1>3, <1>4, <1>5, <1>6, <1>7, <1>8, <1>10, <1>11, <1>12, <1>13,
     <1>14, <1>15, <1>16, <1>17, <1>18 DEF Next, Starts, Continues, Vchiq

\* All steps but the making and the closing are of a thread that stays inside.
LEMMA StaysInside ==
    ASSUME Typed, Next, \A t \in Callers : ~InitClient(t) /\ ~DeinitClient(t)
    PROVE  /\ refcount' = refcount
           /\ \/ UNCHANGED pc
              \/ \E t \in Callers : pc[t] # "out" /\ pc'[t] # "out" /\ Moves(pc, pc', t)
<1> USE DEF service, pool, thread, out, in, Goes, Typed, Moves
<1> DEFINE Inner(t) == /\ refcount' = refcount
                       /\ pc[t] # "out" /\ pc'[t] # "out" /\ Moves(pc, pc', t)
<1>1. ASSUME NEW t \in Callers, InitReleases(t) \/ CallUses(t) \/ CallReleases(t)
      PROVE  Inner(t)
  BY <1>1 DEF InitReleases, CallUses, CallReleases
<1>2. ASSUME NEW t \in Callers, (\E transfer \in BOOLEAN : CallStarts(t, transfer)) \/ SendStarts(t)
      PROVE  Inner(t)
  BY <1>2 DEF CallStarts, SendStarts
<1>3. ASSUME NEW t \in Callers, TakesTicket(t) \/ FindsWaiter(t) \/ CallWaits(t) \/ CallEnds(t)
      PROVE  Inner(t)
  BY <1>3 DEF TakesTicket, FindsWaiter, CallWaits, CallEnds, FreesWaiter
<1>4. ASSUME NEW t \in Callers,
             CallQueues(t) \/ CallTransmits(t) \/ SendQueues(t) \/ SendTransmits(t)
      PROVE  Inner(t)
  BY <1>4 DEF CallQueues, CallTransmits, SendQueues, SendTransmits, Transmits
<1>5. ASSUME Vchiq \/ \E b \in Buffers : VideoCoreSends(b)
      PROVE  UNCHANGED <<pc, refcount>>
  BY <1>5 DEF Vchiq, Answers, Receives, BulkReceived, VideoCoreSends
<1> HIDE DEF service, pool, thread, out, in, Goes, Typed, Moves
<1> QED
  BY <1>1, <1>2, <1>3, <1>4, <1>5 DEF Next, Starts, Continues

\* Who closes the client is the last one in, who opens it the first.
LEMMA NobodyElse ==
    ASSUME Typed, Counted
    PROVE  /\ refcount = 0 => \A u \in Callers : pc[u] = "out"
           /\ refcount = 1 => \A t, u \in Callers : pc[t] # "out" /\ pc[u] # "out" => t = u
<1>1. ASSUME refcount = 0 PROVE \A u \in Callers : pc[u] = "out"
  <2>1. Where(pc, Inside) = {}
    BY <1>1, CountZero DEF Counted
  <2> QED
    BY <2>1 DEF Where, Inside, Typed
<1>2. ASSUME refcount = 1, NEW t \in Callers, pc[t] # "out", NEW u \in Callers, pc[u] # "out"
      PROVE  t = u
  <2> DEFINE gone == [pc EXCEPT ![t] = "out"]
  <2>1. Moves(pc, gone, t) /\ gone[t] \notin Inside /\ pc[t] \in Inside
    BY <1>2 DEF Moves, Inside, Typed
  <2>2. gone[u] \in Inside \/ t = u
    BY <1>2 DEF Inside, Typed
  <2> HIDE DEF gone
  <2>3. Cardinality(Where(gone, Inside)) = Cardinality(Where(pc, Inside)) - 1
    BY <2>1, Leaves
  <2>4. Where(gone, Inside) = {}
    BY <1>2, <2>3, CountZero DEF Counted
  <2> QED
    BY <2>2, <2>4 DEF Where
<1> QED
  BY <1>1, <1>2

LEMMA CountedKept == IInv /\ Next => Counted'
<1> SUFFICES ASSUME IInv, Next PROVE Counted'
  OBVIOUS
<1>0. Typed /\ Counted
  BY DEF IInv
<1>1. ASSUME NEW t \in Callers, InitClient(t) PROVE Counted'
  <2>1. /\ pc[t] \notin Inside /\ pc'[t] \in Inside /\ Moves(pc, pc', t)
        /\ refcount' = refcount + 1
    BY <1>0, <1>1 DEF InitClient, Goes, Typed, Moves, Inside, Stages
  <2> QED
    BY <1>0, <2>1, Enters DEF Counted
<1>2. ASSUME NEW t \in Callers, DeinitClient(t) PROVE Counted'
  <2>1. /\ pc[t] \in Inside /\ pc'[t] \notin Inside /\ Moves(pc, pc', t)
        /\ refcount' = refcount - 1
    BY <1>0, <1>2 DEF DeinitClient, Goes, Typed, Moves, Inside, Stages
  <2> QED
    BY <1>0, <2>1, Leaves DEF Counted
<1>3. ASSUME \A t \in Callers : ~InitClient(t) /\ ~DeinitClient(t) PROVE Counted'
  <2>1. refcount' = refcount
    BY <1>0, <1>3, StaysInside
  <2>2. CASE UNCHANGED pc
    BY <1>0, <2>1, <2>2 DEF Counted, Where
  <2>3. ASSUME NEW t \in Callers, pc[t] # "out", pc'[t] # "out", Moves(pc, pc', t)
        PROVE  Counted'
    <3>1. pc[t] \in Inside /\ pc'[t] \in Inside
      BY <1>0, <2>3, TypedKept DEF Typed, Inside
    <3> QED
      BY <1>0, <2>1, <2>3, <3>1, Stays DEF Counted
  <2> QED
    BY <1>0, <1>3, <2>2, <2>3, StaysInside
<1> QED
  BY <1>1, <1>2, <1>3

LEMMA DistinctKept == IInv /\ Next => Distinct'
<1> SUFFICES ASSUME IInv, Next PROVE Distinct'
  OBVIOUS
<1> USE DEF service, pool, thread, out, in, Goes, Numbered, Inside, Stages
<1>0. Typed /\ Distinct
  BY DEF IInv
<1>1. ASSUME NEW t \in Callers,
             InitClient(t) \/ DeinitClient(t) \/ InitReleases(t) \/ TakesTicket(t) \/ FindsWaiter(t)
      PROVE  Distinct'
  <2>1. /\ UNCHANGED <<call, calls>> /\ Moves(pc, pc', t)
        /\ pc'[t] \in Numbered => pc[t] \in Numbered
    BY <1>0, <1>1 DEF InitClient, DeinitClient, InitReleases, TakesTicket, FindsWaiter,
       Typed, Moves
  <2> QED
    BY <1>0, <2>1 DEF Distinct, Moves
<1>2. ASSUME NEW t \in Callers,
             (\E transfer \in BOOLEAN : CallStarts(t, transfer)) \/ SendStarts(t)
      PROVE  Distinct'
  <2>1. /\ calls' = calls + 1 /\ call' = [call EXCEPT ![t] = calls + 1]
        /\ Moves(pc, pc', t) /\ calls \in Nat
    BY <1>0, <1>2 DEF CallStarts, SendStarts, Typed, Moves, Calls
  <2>2. \A u \in Callers : call[u] \in Nat
    BY <1>0 DEF Typed, Calls
  <2>3. \A u \in Callers : call'[u] = IF u = t THEN calls + 1 ELSE call[u]
    BY <1>0, <2>1 DEF Typed
  <2> QED
    BY <1>0, <2>1, <2>2, <2>3 DEF Distinct, Moves
<1>3. ASSUME NEW t \in Callers,
             CallUses(t) \/ CallQueues(t) \/ CallTransmits(t) \/ CallWaits(t) \/ CallReleases(t)
      PROVE  Distinct'
  <2>1. UNCHANGED <<call, calls>> /\ pc[t] \in Numbered
    BY <1>3 DEF CallUses, CallQueues, CallTransmits, Transmits, CallWaits, CallReleases
  <2>2. \E where : pc' = [pc EXCEPT ![t] = where]
    BY <1>3 DEF CallUses, CallQueues, CallTransmits, Transmits, CallWaits, CallReleases
  <2>3. \A u \in Callers : u # t => pc'[u] = pc[u]
    BY <1>0, <2>2 DEF Typed
  <2> QED
    BY <1>0, <2>1, <2>3 DEF Distinct
<1>4. ASSUME NEW t \in Callers, CallEnds(t) PROVE Distinct'
  <2>1. /\ calls' = calls /\ Moves(pc, pc', t)
        /\ \/ pc'[t] = "posts" /\ call' = call /\ pc[t] = "frees"
           \/ pc'[t] = "idle" /\ call' = [call EXCEPT ![t] = 0]
    BY <1>0, <1>4 DEF CallEnds, FreesWaiter, Forgets, Typed, Moves
  <2>2. \A u \in Callers : call[u] \in Nat
    BY <1>0 DEF Typed, Calls
  <2>3. \A u \in Callers : call'[u] = call[u] \/ (u = t /\ call'[u] = 0 /\ pc'[t] = "idle")
    BY <1>0, <2>1 DEF Typed
  <2>4. pc'[t] \in Numbered => pc[t] \in Numbered /\ call'[t] = call[t]
    BY <2>1
  <2>5. \A u \in Callers : call'[u] <= calls' /\ (pc'[u] \in Numbered => call'[u] # 0)
    BY <1>0, <2>1, <2>2, <2>3, <2>4 DEF Distinct, Moves, Typed, Calls
  <2>6. \A u, v \in Callers : call'[u] = call'[v] /\ call'[u] # 0 => u = v
    BY <1>0, <2>3 DEF Distinct
  <2> QED
    BY <2>5, <2>6 DEF Distinct
<1>5. ASSUME NEW t \in Callers, SendQueues(t) \/ SendTransmits(t) PROVE Distinct'
  <2>1. /\ UNCHANGED <<call, calls>>
        /\ \E where \in {"follows", "idle"} : pc' = [pc EXCEPT ![t] = where]
    BY <1>5 DEF SendQueues, SendTransmits, Transmits
  <2>2. pc[t] \in {"sends", "follows"}
    BY <1>5 DEF SendQueues, SendTransmits
  <2>3. \A u \in Callers : pc'[u] = pc[u] \/ (u = t /\ pc'[u] \in {"follows", "idle"})
    BY <1>0, <2>1 DEF Typed
  <2> QED
    BY <1>0, <2>1, <2>2, <2>3 DEF Distinct
<1>6. ASSUME Vchiq \/ \E b \in Buffers : VideoCoreSends(b) PROVE Distinct'
  BY <1>0, <1>6 DEF Vchiq, Answers, Receives, BulkReceived, VideoCoreSends, Distinct
<1> HIDE DEF service, pool, thread, out, in, Goes, Numbered, Inside, Stages
<1> QED
  BY <1>1, <1>2, <1>3, <1>4, <1>5, <1>6 DEF Next, Starts, Continues

\* A sum keeps its place below a bound that grows and shrinks with it.
LEMMA SameGap ==
    ASSUME NEW x \in Int, NEW f \in Int, NEW y \in Int, NEW g \in Int, y - g = x - f
    PROVE  (x <= f => y <= g) /\ (x = f => y = g)
  OBVIOUS

LEMMA TicketsKept == IInv /\ Next => Tickets'
<1> SUFFICES ASSUME IInv, Next PROVE Tickets'
  OBVIOUS
<1> USE DEF service, pool, thread, out, in, Goes
<1> DEFINE searches == Cardinality(Where(pc, {"searches"}))
           posts    == Cardinality(Where(pc, {"posts"}))
           free     == Cardinality(Waiters \ inuse)
<1>0. Typed /\ Tickets /\ Counted /\ Typed'
  BY TypedKept DEF IInv
<1>a. searches \in Nat /\ posts \in Nat
  BY SomeCount
<1>b. IsFiniteSet(Waiters \ inuse) /\ free \in Nat
  BY ClientAssumption, FS_Subset, FS_CardinalityType
<1>c. ASSUME sem' \in Int, searches' \in Int, posts' \in Int, free' \in Int,
             (sem' + searches' + posts') - free' = (sem + searches + posts) - free,
             refcount' > 0 => refcount > 0
      PROVE  Tickets'
  <2>1. /\ sem + searches + posts <= free
        /\ refcount > 0 => sem + searches + posts = free
    BY <1>0 DEF Tickets
  <2>2. sem \in Int
    BY <1>0 DEF Typed
  <2> HIDE DEF searches, posts, free
  <2> DEFINE sum == sem + searches + posts
  <2>3. sum \in Int /\ free \in Int
    BY <1>a, <1>b, <2>2
  <2>4. sum' \in Int /\ free' \in Int
    BY <1>c
  <2>5. sum' - free' = sum - free
    BY <1>c
  <2> HIDE DEF sum
  <2>6. sum' <= free' /\ (refcount > 0 => sum' = free')
    BY <2>1, <2>3, <2>4, <2>5, SameGap DEF sum
  <2> QED
    BY <1>c, <2>6 DEF sum, Tickets, searches, posts, free
<1>1. ASSUME sem' = sem, inuse' = inuse, NEW t \in Callers, Moves(pc, pc', t),
             refcount' > 0 => refcount > 0,
             pc[t] \notin {"searches", "posts"}, pc'[t] \notin {"searches", "posts"}
      PROVE  Tickets'
  <2>1. /\ Where(pc', {"searches"}) = Where(pc, {"searches"})
        /\ Where(pc', {"posts"}) = Where(pc, {"posts"})
    BY <1>1, Stays
  <2> QED
    BY <1>0, <1>1, <2>1 DEF Tickets
<1>2. ASSUME NEW t \in Callers, InitClient(t), refcount = 0 PROVE Tickets'
  <2>1. sem' = Cardinality(Waiters) /\ inuse' = {}
    BY <1>2, <1>0 DEF InitClient, Opens, Typed
  <2>2. \A u \in Callers : pc'[u] \notin {"searches", "posts"}
    BY <1>0, <1>2, NobodyElse DEF InitClient, Typed
  <2>3. /\ Cardinality(Where(pc', {"searches"})) = 0
        /\ Cardinality(Where(pc', {"posts"})) = 0
    BY <2>2, CountZero DEF Where
  <2>4. Cardinality(Waiters) \in Nat /\ Waiters \ inuse' = Waiters
    BY <2>1, ClientAssumption, FS_CardinalityType
  <2> QED
    BY <2>1, <2>3, <2>4 DEF Tickets
<1>3. ASSUME NEW t \in Callers, TakesTicket(t) PROVE Tickets'
  <2>1. /\ Moves(pc, pc', t) /\ pc[t] = "wants" /\ pc'[t] = "searches"
        /\ sem' = sem - 1 /\ inuse' = inuse /\ refcount' = refcount
    BY <1>0, <1>3 DEF TakesTicket, Typed, Moves
  <2>2. searches' = searches + 1 /\ posts' = posts
    BY <2>1, Enters, Stays
  <2>3. free' = free
    BY <2>1
  <2> HIDE DEF searches, posts, free
  <2> QED
    BY <1>0, <1>a, <1>b, <1>c, <2>1, <2>2, <2>3 DEF Typed
<1>4. ASSUME NEW t \in Callers, FindsWaiter(t) PROVE Tickets'
  <2>1. /\ Moves(pc, pc', t) /\ pc[t] = "searches" /\ pc'[t] = "has" /\ sem' = sem
        /\ refcount' = refcount /\ \E w \in Waiters \ inuse : inuse' = inuse \cup {w}
    BY <1>0, <1>4 DEF FindsWaiter, Typed, Moves
  <2>2. searches' = searches - 1 /\ posts' = posts
    BY <2>1, Leaves, Stays
  <2>3. free' = free - 1
    <3>1. PICK w \in Waiters \ inuse : inuse' = inuse \cup {w}
      BY <2>1
    <3>2. Waiters \ inuse' = (Waiters \ inuse) \ {w}
      BY <3>1
    <3> QED
      BY <1>b, <3>1, <3>2, FS_RemoveElement
  <2> HIDE DEF searches, posts, free
  <2> QED
    BY <1>0, <1>a, <1>b, <1>c, <2>1, <2>2, <2>3 DEF Typed
<1>5. ASSUME NEW t \in Callers, CallEnds(t), pc[t] = "frees" PROVE Tickets'
  <2>1. /\ Moves(pc, pc', t) /\ pc'[t] = "posts" /\ sem' = sem
        /\ inuse' = inuse \ {waiter[t]} /\ waiter[t] \in inuse /\ refcount' = refcount
    BY <1>0, <1>5 DEF CallEnds, FreesWaiter, Typed, Moves, IInv, Holders, Where, Holding
  <2>2. searches' = searches /\ posts' = posts + 1
    BY <1>5, <2>1, Enters, Stays
  <2>3. free' = free + 1
    <3>1. Waiters \ inuse' = (Waiters \ inuse) \cup {waiter[t]} /\ waiter[t] \notin Waiters \ inuse
      BY <1>0, <2>1 DEF Typed
    <3> QED
      BY <1>b, <3>1, FS_AddElement
  <2> HIDE DEF searches, posts, free
  <2> QED
    BY <1>0, <1>a, <1>b, <1>c, <2>1, <2>2, <2>3 DEF Typed
<1>6. ASSUME NEW t \in Callers, CallEnds(t), pc[t] = "posts" PROVE Tickets'
  <2>1. /\ Moves(pc, pc', t) /\ pc'[t] = "idle" /\ sem' = sem + 1 /\ inuse' = inuse
        /\ refcount' = refcount
    BY <1>0, <1>6 DEF CallEnds, FreesWaiter, Typed, Moves
  <2>2. /\ Where(pc', {"searches"}) = Where(pc, {"searches"})
        /\ Cardinality(Where(pc', {"posts"})) = posts - 1
    <3>1. /\ pc[t] \in {"posts"} /\ pc'[t] \notin {"posts"}
          /\ pc[t] \in {"searches"} <=> pc'[t] \in {"searches"}
      BY <1>6, <2>1
    <3>2. Cardinality(Where(pc', {"posts"})) = posts - 1
      BY <2>1, <3>1, Leaves
    <3>3. Where(pc', {"searches"}) = Where(pc, {"searches"})
      BY <2>1, <3>1, Stays
    <3> QED
      BY <3>2, <3>3
  <2>3. posts' = posts - 1 /\ searches' = searches /\ free' = free
    BY <2>1, <2>2
  <2> HIDE DEF searches, posts, free
  <2> QED
    BY <1>0, <1>a, <1>b, <1>c, <2>1, <2>3 DEF Typed
<1>7. ASSUME NEW t \in Callers, (InitClient(t) /\ refcount > 0) \/ DeinitClient(t)
      PROVE  Tickets'
  <2>1. /\ sem' = sem /\ inuse' = inuse /\ Moves(pc, pc', t)
        /\ pc[t] \notin {"searches", "posts"} /\ pc'[t] \notin {"searches", "posts"}
        /\ refcount' > 0 => refcount > 0
    BY <1>0, <1>7 DEF InitClient, DeinitClient, Typed, Moves
  <2> QED
    BY <1>1, <2>1
<1>8. ASSUME NEW t \in Callers,
             \/ InitReleases(t) \/ (\E transfer \in BOOLEAN : CallStarts(t, transfer))
             \/ CallUses(t) \/ CallWaits(t) \/ CallReleases(t) \/ SendStarts(t)
      PROVE  Tickets'
  <2>1. /\ sem' = sem /\ inuse' = inuse /\ Moves(pc, pc', t)
        /\ pc[t] \notin {"searches", "posts"} /\ pc'[t] \notin {"searches", "posts"}
        /\ refcount' > 0 => refcount > 0
    BY <1>0, <1>8 DEF InitReleases, CallStarts, CallUses, CallWaits, CallReleases, SendStarts,
       Typed, Moves
  <2> QED
    BY <1>1, <2>1
<1>9. ASSUME NEW t \in Callers,
             CallQueues(t) \/ CallTransmits(t) \/ SendQueues(t) \/ SendTransmits(t)
      PROVE  Tickets'
  <2>1. /\ sem' = sem /\ inuse' = inuse /\ Moves(pc, pc', t)
        /\ pc[t] \notin {"searches", "posts"} /\ pc'[t] \notin {"searches", "posts"}
        /\ refcount' > 0 => refcount > 0
    BY <1>0, <1>9 DEF CallQueues, CallTransmits, SendQueues, SendTransmits, Transmits,
       Typed, Moves
  <2> QED
    BY <1>1, <2>1
<1>10. ASSUME Vchiq \/ \E b \in Buffers : VideoCoreSends(b) PROVE Tickets'
  <2>1. UNCHANGED <<pc, sem, inuse, refcount>>
    BY <1>10 DEF Vchiq, Answers, Receives, BulkReceived, VideoCoreSends
  <2> QED
    BY <1>0, <2>1 DEF Tickets, Where
<1> HIDE DEF service, pool, thread, out, in, Goes
<1>11. \A t \in Callers : InitClient(t) => refcount = 0 \/ refcount > 0
  BY DEF InitClient
<1>12. \A t \in Callers : CallEnds(t) => pc[t] = "frees" \/ pc[t] = "posts"
  BY DEF CallEnds, FreesWaiter
<1> QED
  BY <1>2, <1>3, <1>4, <1>5, <1>6, <1>7, <1>8, <1>9, <1>10, <1>11, <1>12
     DEF Next, Starts, Continues

\* Whatever a step does to the others, a waiter stays with who has it.
LEMMA HoldersKept == IInv /\ Next => Holders'
<1> SUFFICES ASSUME IInv, Next PROVE Holders'
  OBVIOUS
<1> USE DEF service, pool, thread, out, in, Goes
<1>0. Typed /\ Holders /\ Counted
  BY DEF IInv
<1>1. ASSUME NEW t \in Callers, Moves(pc, pc', t), pc'[t] \in Holding => pc[t] \in Holding,
             UNCHANGED <<inuse, dest, waiter, call>>
      PROVE  Holders'
  BY <1>0, <1>1 DEF Holders, Moves, Where
<1>2. ASSUME NEW t \in Callers, InitClient(t) PROVE Holders'
  <2>1. CASE refcount = 0
    <3>1. \A u \in Callers : pc'[u] \notin Holding
      BY <1>0, <1>2, <2>1, NobodyElse DEF InitClient, Typed, Holding
    <3> QED
      BY <3>1 DEF Holders, Where
  <2>2. CASE refcount > 0
    <3>1. /\ Moves(pc, pc', t) /\ pc'[t] = "idle"
          /\ UNCHANGED <<inuse, dest, waiter, call>>
      BY <1>0, <1>2, <2>2 DEF InitClient, Typed, Moves
    <3> QED
      BY <1>1, <3>1 DEF Holding
  <2> QED
    BY <1>2, <2>1, <2>2 DEF InitClient
<1>3. ASSUME NEW t \in Callers, FindsWaiter(t) PROVE Holders'
  <2>1. /\ Moves(pc, pc', t) /\ pc[t] = "searches" /\ call' = call
        /\ \E w \in Waiters \ inuse : /\ inuse' = inuse \cup {w}
                                      /\ dest' = [dest EXCEPT ![w] = call[t]]
                                      /\ waiter' = [waiter EXCEPT ![t] = w]
    BY <1>0, <1>3 DEF FindsWaiter, Typed, Moves
  <2>2. PICK w \in Waiters \ inuse : /\ inuse' = inuse \cup {w}
                                     /\ dest' = [dest EXCEPT ![w] = call[t]]
                                     /\ waiter' = [waiter EXCEPT ![t] = w]
    BY <2>1
  <2>3. /\ \A u \in Callers : waiter'[u] = IF u = t THEN w ELSE waiter[u]
        /\ \A v \in Waiters : dest'[v] = IF v = w THEN call[t] ELSE dest[v]
    BY <1>0, <2>2 DEF Typed
  <2>4. \A u \in Where(pc', Holding) : u = t \/ (u \in Where(pc, Holding) /\ u # t)
    BY <2>1 DEF Where, Moves
  <2>5. \A u \in Where(pc, Holding) : /\ waiter[u] \in inuse /\ waiter[u] # w
                                      /\ waiter[u] \in Waiters /\ dest[waiter[u]] = call[u]
    BY <1>0, <2>2 DEF Holders, Typed
  <2>6. \A u \in Where(pc', Holding) : waiter'[u] \in inuse' /\ dest'[waiter'[u]] = call'[u]
    BY <2>1, <2>2, <2>3, <2>4, <2>5
  <2>7. \A u, v \in Where(pc', Holding) : waiter'[u] = waiter'[v] => u = v
    <3>1. \A u \in Where(pc', Holding) : u \in Callers
      BY DEF Where
    <3> QED
      BY <1>0, <2>3, <2>4, <2>5, <3>1 DEF Holders
  <2> QED
    BY <2>6, <2>7 DEF Holders
<1>4. ASSUME NEW t \in Callers, CallEnds(t) PROVE Holders'
  <2>1. CASE pc[t] = "frees"
    <3>1. /\ Moves(pc, pc', t) /\ pc'[t] = "posts" /\ inuse' = inuse \ {waiter[t]}
          /\ UNCHANGED <<dest, waiter, call>>
      BY <1>0, <1>4, <2>1 DEF CallEnds, FreesWaiter, Typed, Moves
    <3>2. t \in Where(pc, Holding)
      BY <2>1 DEF Where, Holding
    <3>3. \A u \in Where(pc', Holding) : u \in Where(pc, Holding) /\ u # t
      BY <3>1 DEF Where, Moves, Holding
    <3>4. \A u \in Where(pc', Holding) : waiter[u] # waiter[t]
      BY <1>0, <3>2, <3>3 DEF Holders
    <3> QED
      BY <1>0, <3>1, <3>3, <3>4 DEF Holders
  <2>2. CASE pc[t] = "posts"
    <3>1. /\ Moves(pc, pc', t) /\ pc'[t] = "idle" /\ UNCHANGED <<inuse, dest>>
          /\ \A u \in Callers \ {t} : waiter'[u] = waiter[u] /\ call'[u] = call[u]
      BY <1>0, <1>4, <2>2 DEF CallEnds, FreesWaiter, Forgets, Typed, Moves
    <3>2. \A u \in Where(pc', Holding) : u \in Where(pc, Holding) /\ u # t
      BY <3>1 DEF Where, Moves, Holding
    <3>3. \A u \in Where(pc', Holding) : waiter'[u] = waiter[u] /\ call'[u] = call[u]
      BY <3>1, <3>2 DEF Where
    <3> QED
      BY <1>0, <3>1, <3>2, <3>3 DEF Holders
  <2> QED
    BY <1>4, <2>1, <2>2 DEF CallEnds, FreesWaiter
<1>5. ASSUME NEW t \in Callers,
             (\E transfer \in BOOLEAN : CallStarts(t, transfer)) \/ SendStarts(t)
      PROVE  Holders'
  <2>1. /\ Moves(pc, pc', t) /\ pc'[t] \notin Holding /\ UNCHANGED <<inuse, dest, waiter>>
        /\ \A u \in Callers \ {t} : call'[u] = call[u]
    BY <1>0, <1>5 DEF CallStarts, SendStarts, Typed, Moves, Holding
  <2>2. \A u \in Where(pc', Holding) : u \in Where(pc, Holding) /\ call'[u] = call[u]
    BY <2>1 DEF Where, Moves
  <2> QED
    BY <1>0, <2>1, <2>2 DEF Holders
<1>6. ASSUME NEW t \in Callers,
             \/ DeinitClient(t) \/ InitReleases(t) \/ TakesTicket(t) \/ CallUses(t)
             \/ CallWaits(t) \/ CallReleases(t)
      PROVE  Holders'
  <2>1. /\ Moves(pc, pc', t)
        /\ pc'[t] \in Holding => pc[t] \in Holding
        /\ UNCHANGED <<inuse, dest, waiter, call>>
    BY <1>0, <1>6 DEF DeinitClient, InitReleases, TakesTicket, CallUses, CallWaits,
       CallReleases, Typed, Moves, Holding
  <2> QED
    BY <1>1, <2>1
<1>7. ASSUME NEW t \in Callers,
             CallQueues(t) \/ CallTransmits(t) \/ SendQueues(t) \/ SendTransmits(t)
      PROVE  Holders'
  <2>1. /\ Moves(pc, pc', t)
        /\ pc'[t] \in Holding => pc[t] \in Holding
        /\ UNCHANGED <<inuse, dest, waiter, call>>
    BY <1>0, <1>7 DEF CallQueues, CallTransmits, SendQueues, SendTransmits, Transmits,
       Typed, Moves, Holding
  <2> QED
    BY <1>1, <2>1
<1>8. ASSUME Vchiq \/ \E b \in Buffers : VideoCoreSends(b) PROVE Holders'
  <2>1. UNCHANGED <<pc, inuse, dest, waiter, call>>
    BY <1>8 DEF Vchiq, Answers, Receives, BulkReceived, VideoCoreSends
  <2> QED
    BY <1>0, <2>1 DEF Holders, Where
<1> HIDE DEF service, pool, thread, out, in, Goes
<1> QED
  BY <1>2, <1>3, <1>4, <1>5, <1>6, <1>7, <1>8 DEF Next, Starts, Continues

LEMMA LockedKept == IInv /\ Next => Locked'
<1> SUFFICES ASSUME IInv, Next PROVE Locked'
  OBVIOUS
<1> USE DEF service, pool, thread, out, in, Goes
<1>0. Typed /\ Locked
  BY DEF IInv
<1>1. ASSUME NEW t \in Callers, Moves(pc, pc', t), \A u \in Callers \ {t} : dummy'[u] = dummy[u],
             Spans(pc'[t], dummy'[t]) => Spans(pc[t], dummy[t]), bulk_lock' = bulk_lock
      PROVE  Locked'
  BY <1>0, <1>1 DEF Locked, Moves
<1>2. ASSUME NEW t \in Callers, Moves(pc, pc', t), \A u \in Callers \ {t} : dummy'[u] = dummy[u],
             bulk_lock = NoOne, bulk_lock' = t
      PROVE  Locked'
  BY <1>0, <1>2, ClientAssumption DEF Locked, Moves
<1>3. ASSUME NEW t \in Callers, Moves(pc, pc', t), \A u \in Callers \ {t} : dummy'[u] = dummy[u],
             bulk_lock = t, bulk_lock' = NoOne, ~Spans(pc'[t], dummy'[t])
      PROVE  Locked'
  BY <1>0, <1>3 DEF Locked, Moves
<1>4. ASSUME NEW t \in Callers, NEW transfer \in BOOLEAN, CallStarts(t, transfer) PROVE Locked'
  <2>1. Moves(pc, pc', t) /\ \A u \in Callers \ {t} : dummy'[u] = dummy[u]
    BY <1>0, <1>4 DEF CallStarts, Typed, Moves
  <2>2. CASE transfer
    BY <1>2, <1>4, <2>1, <2>2 DEF CallStarts, BulkFree
  <2>3. CASE ~transfer
    <3>1. bulk_lock' = bulk_lock /\ ~Spans(pc'[t], dummy'[t])
      BY <1>0, <1>4, <2>3 DEF CallStarts, Typed, Spans
    <3> QED
      BY <1>1, <2>1, <3>1
  <2> QED
    BY <2>2, <2>3
<1>5. ASSUME NEW t \in Callers, SendStarts(t) PROVE Locked'
  <2>1. /\ Moves(pc, pc', t) /\ dummy' = dummy /\ bulk_lock = NoOne /\ bulk_lock' = t
    BY <1>0, <1>5 DEF SendStarts, BulkFree, Typed, Moves
  <2> QED
    BY <1>2, <2>1
<1>6. ASSUME NEW t \in Callers,
             \/ InitClient(t) \/ DeinitClient(t) \/ InitReleases(t) \/ TakesTicket(t)
             \/ FindsWaiter(t) \/ CallUses(t)
      PROVE  Locked'
  <2>1. /\ Moves(pc, pc', t) /\ dummy' = dummy /\ bulk_lock' = bulk_lock
        /\ Spans(pc'[t], dummy'[t]) => Spans(pc[t], dummy[t])
    BY <1>0, <1>6 DEF InitClient, DeinitClient, InitReleases, TakesTicket, FindsWaiter,
       CallUses, Typed, Moves, Spans
  <2> QED
    BY <1>1, <2>1
<1>7. ASSUME NEW t \in Callers, CallWaits(t) \/ CallReleases(t) \/ CallEnds(t) PROVE Locked'
  <2>1. /\ Moves(pc, pc', t) /\ bulk_lock' = bulk_lock
        /\ pc'[t] \in {"answered", "frees", "posts", "idle"}
    BY <1>0, <1>7 DEF CallWaits, CallReleases, CallEnds, FreesWaiter, Typed, Moves
  <2>2. \A u \in Callers \ {t} : dummy'[u] = dummy[u]
    BY <1>0, <1>7 DEF CallWaits, CallReleases, CallEnds, Forgets, Typed
  <2> QED
    BY <1>1, <2>1, <2>2 DEF Spans
<1>8. ASSUME NEW t \in Callers, CallQueues(t) PROVE Locked'
  <2>1. /\ Moves(pc, pc', t) /\ dummy' = dummy /\ pc[t] = "queues"
        /\ \/ ~dummy[t] /\ bulk_lock' = bulk_lock /\ pc'[t] \in {"waits", "fails"}
           \/ dummy[t] /\ bulk_lock' = bulk_lock /\ pc'[t] = "transmits"
           \/ dummy[t] /\ bulk_lock' = NoOne /\ pc'[t] = "fails"
    BY <1>0, <1>8 DEF CallQueues, Typed, Moves
  <2>2. dummy[t] => bulk_lock = t
    BY <1>0, <2>1 DEF Locked, Spans
  <2> QED
    BY <1>1, <1>3, <2>1, <2>2 DEF Spans
<1>9. ASSUME NEW t \in Callers, SendQueues(t) PROVE Locked'
  <2>1. /\ Moves(pc, pc', t) /\ dummy' = dummy /\ pc[t] = "sends" /\ bulk_lock = t
        /\ \/ bulk_lock' = bulk_lock /\ pc'[t] = "follows"
           \/ bulk_lock' = NoOne /\ pc'[t] = "idle"
    BY <1>0, <1>9 DEF SendQueues, Typed, Moves, Locked, Spans
  <2> QED
    BY <1>1, <1>3, <2>1 DEF Spans
<1>10. ASSUME NEW t \in Callers, CallTransmits(t) \/ SendTransmits(t) PROVE Locked'
  <2>1. /\ Moves(pc, pc', t) /\ dummy' = dummy /\ bulk_lock = t /\ bulk_lock' = NoOne
        /\ pc'[t] \in {"waits", "fails", "idle"}
    BY <1>0, <1>10 DEF CallTransmits, SendTransmits, Transmits, Typed, Moves, Locked, Spans
  <2> QED
    BY <1>3, <2>1 DEF Spans
<1>11. ASSUME Vchiq \/ \E b \in Buffers : VideoCoreSends(b) PROVE Locked'
  <2>1. UNCHANGED <<pc, dummy, bulk_lock>>
    BY <1>11 DEF Vchiq, Answers, Receives, BulkReceived, VideoCoreSends
  <2> QED
    BY <1>0, <2>1 DEF Locked
<1> HIDE DEF service, pool, thread, out, in, Goes
<1> QED
  BY <1>4, <1>5, <1>6, <1>7, <1>8, <1>9, <1>10, <1>11 DEF Next, Starts, Continues

\* Who has the lock has the one transfer that is announced.
LEMMA FollowedKept == IInv /\ Next => Followed'
<1> SUFFICES ASSUME IInv, Next PROVE Followed'
  OBVIOUS
<1> USE DEF service, pool, thread, out, in, Goes
<1>0. Typed /\ Locked /\ Followed /\ Counted
  BY DEF IInv
<1>a. \A t, u \in Callers : Spans(pc[t], dummy[t]) /\ pc[u] \in Following => t = u
  BY <1>0 DEF Locked, Spans, Following
<1>1. ASSUME NEW t \in Callers, Moves(pc, pc', t), pc[t] \in Following <=> pc'[t] \in Following,
             \A u \in Where(pc, Following) : call'[u] = call[u],
             UNCHANGED <<announced, broken>>
      PROVE  Followed'
  <2>1. Where(pc', Following) = Where(pc, Following)
    BY <1>1, Stays
  <2> QED
    BY <1>0, <1>1, <2>1 DEF Followed
<1>2. ASSUME NEW t \in Callers, Moves(pc, pc', t), pc'[t] \in Following,
             Spans(pc[t], dummy[t]), pc[t] \notin Following,
             announced' = Append(announced, call[t]), call' = call, broken' = broken
      PROVE  Followed'
  <2>1. Where(pc, Following) = {}
    BY <1>a, <1>2 DEF Where
  <2>2. Where(pc', Following) = {t}
    BY <1>2, <2>1 DEF Where, Moves
  <2>3. announced \in Seq(Calls)
    BY <1>0 DEF Typed
  <2>4. announced' # <<>>
    BY <1>2, <2>3
  <2>5. "bulk" \notin broken => announced' = <<call[t]>>
    BY <1>0, <1>2, <2>1 DEF Followed
  <2> QED
    BY <1>2, <2>2, <2>4, <2>5 DEF Followed
<1>3. ASSUME NEW t \in Callers, CallTransmits(t) \/ SendTransmits(t) PROVE Followed'
  <2>1. /\ Moves(pc, pc', t) /\ pc[t] \in Following /\ pc'[t] \notin Following
        /\ \/ announced' = Tail(announced) /\ broken' = broken
           \/ "bulk" \in broken'
    BY <1>0, <1>3 DEF CallTransmits, SendTransmits, Transmits, Following, Typed, Moves
  <2>2. Where(pc', Following) = {}
    <3>1. Spans(pc[t], dummy[t])
      BY <1>3 DEF CallTransmits, SendTransmits, Spans
    <3> QED
      BY <1>a, <2>1, <3>1 DEF Where, Moves
  <2>3. "bulk" \notin broken => announced = <<call[t]>>
    BY <1>0, <2>1 DEF Followed, Where
  <2>4. \A x : Tail(<<x>>) = <<>>
    OBVIOUS
  <2>5. "bulk" \notin broken' => announced' = <<>>
    BY <2>1, <2>3, <2>4
  <2> QED
    BY <2>2, <2>5 DEF Followed
<1>4. ASSUME NEW t \in Callers, CallQueues(t) \/ SendQueues(t) PROVE Followed'
  <2>1. /\ Moves(pc, pc', t) /\ pc[t] \notin Following /\ call' = call /\ broken' = broken
        /\ \/ /\ announced' = announced /\ pc'[t] \notin Following
           \/ /\ announced' = Append(announced, call[t]) /\ pc'[t] \in Following
              /\ Spans(pc[t], dummy[t])
    BY <1>0, <1>4 DEF CallQueues, SendQueues, Following, Spans, Typed, Moves
  <2> QED
    BY <1>1, <1>2, <2>1
<1>5. ASSUME NEW t \in Callers,
             (\E transfer \in BOOLEAN : CallStarts(t, transfer)) \/ SendStarts(t) \/ CallEnds(t)
      PROVE  Followed'
  <2>1. /\ Moves(pc, pc', t) /\ pc[t] \notin Following /\ pc'[t] \notin Following
        /\ \A u \in Callers \ {t} : call'[u] = call[u]
        /\ UNCHANGED <<announced, broken>>
    BY <1>0, <1>5 DEF CallStarts, SendStarts, CallEnds, FreesWaiter, Forgets, Following,
       Typed, Moves
  <2>2. \A u \in Where(pc, Following) : call'[u] = call[u]
    BY <2>1 DEF Where
  <2> QED
    BY <1>1, <2>1, <2>2
<1>6. ASSUME NEW t \in Callers,
             \/ InitClient(t) \/ InitReleases(t) \/ TakesTicket(t) \/ FindsWaiter(t)
             \/ CallWaits(t) \/ CallReleases(t)
      PROVE  Followed'
  <2>1. /\ Moves(pc, pc', t) /\ pc[t] \notin Following /\ pc'[t] \notin Following
        /\ call' = call
        /\ UNCHANGED <<announced, broken>>
    BY <1>0, <1>6 DEF InitClient, InitReleases, TakesTicket, FindsWaiter, CallWaits,
       CallReleases, Following, Typed, Moves
  <2> QED
    BY <1>1, <2>1
<1>7. ASSUME NEW t \in Callers, CallUses(t) PROVE Followed'
  <2>1. /\ Moves(pc, pc', t) /\ pc[t] \notin Following /\ pc'[t] \notin Following
        /\ call' = call /\ announced' = announced
        /\ "bulk" \in broken' <=> "bulk" \in broken
    BY <1>0, <1>7 DEF CallUses, Uses, Following, Typed, Moves
  <2>2. Where(pc', Following) = Where(pc, Following)
    BY <2>1, Stays
  <2> QED
    BY <1>0, <2>1, <2>2 DEF Followed
<1>8. ASSUME NEW t \in Callers, DeinitClient(t) PROVE Followed'
  <2>1. /\ Moves(pc, pc', t) /\ pc[t] = "idle" /\ pc'[t] = "out"
        /\ call' = call /\ broken' = broken
        /\ announced' = announced \/ (announced' = <<>> /\ refcount = 1)
    BY <1>0, <1>8 DEF DeinitClient, Typed, Moves
  <2>2. CASE announced' = announced
    BY <1>1, <2>1, <2>2 DEF Following
  <2>3. CASE announced' = <<>> /\ refcount = 1
    <3>1. Where(pc', Following) = {}
      BY <1>0, <2>1, <2>3, NobodyElse DEF Where, Moves, Following
    <3> QED
      BY <2>3, <3>1 DEF Followed
  <2> QED
    BY <2>1, <2>2, <2>3
<1>9. ASSUME Vchiq \/ \E b \in Buffers : VideoCoreSends(b) PROVE Followed'
  <2>1. /\ UNCHANGED <<pc, call, announced>>
        /\ "bulk" \in broken' <=> "bulk" \in broken
    BY <1>9 DEF Vchiq, Answers, Receives, BulkReceived, VideoCoreSends
  <2> QED
    BY <1>0, <2>1 DEF Followed, Where
<1> HIDE DEF service, pool, thread, out, in, Goes
<1> QED
  BY <1>3, <1>4, <1>5, <1>6, <1>7, <1>8, <1>9 DEF Next, Starts, Continues

\* Each user of the service is counted, and while any is it is awake.
LEMMA AwakeKept == IInv /\ Next => Awake'
<1> SUFFICES ASSUME IInv, Next PROVE Awake'
  OBVIOUS
<1> USE DEF service, pool, thread, out, in, Goes
<1> DEFINE users == Cardinality(Where(pc, Using))
<1>0. Typed /\ Awake /\ Counted /\ Typed'
  BY TypedKept DEF IInv
<1>a. users \in Nat /\ Cardinality(Where(pc', Using)) \in Nat
  BY SomeCount
<1>1. ASSUME NEW t \in Callers, Moves(pc, pc', t), pc[t] \in Using <=> pc'[t] \in Using,
             UNCHANGED <<refcount, usecount, awake, broken>>
      PROVE  Awake'
  <2>1. Where(pc', Using) = Where(pc, Using)
    BY <1>1, Stays
  <2> QED
    BY <1>0, <1>1, <2>1 DEF Awake
<1>2. ASSUME NEW t \in Callers, InitClient(t) PROVE Awake'
  <2>1. CASE refcount = 0
    <3>1. /\ Moves(pc, pc', t) /\ pc[t] \notin Using /\ pc'[t] \in Using
          /\ usecount' = 1 /\ awake'
      BY <1>0, <1>2, <2>1 DEF InitClient, Opens, Using, Typed, Moves
    <3>2. users = 0
      <4>1. Where(pc, Using) = {}
        BY <1>0, <2>1, NobodyElse DEF Where, Using
      <4> QED
        BY <4>1, CountZero
    <3>3. Cardinality(Where(pc', Using)) = 1
      BY <3>1, <3>2, Enters
    <3> QED
      BY <3>1, <3>3 DEF Awake
  <2>2. CASE refcount > 0
    <3>1. /\ Moves(pc, pc', t) /\ pc[t] \notin Using /\ pc'[t] \notin Using
          /\ UNCHANGED <<usecount, broken>>
          /\ awake' = awake
      BY <1>0, <1>2, <2>2 DEF InitClient, Using, Typed, Moves
    <3>2. Where(pc', Using) = Where(pc, Using)
      BY <3>1, Stays
    <3> QED
      BY <1>0, <2>2, <3>1, <3>2 DEF Awake
  <2> QED
    BY <1>2, <2>1, <2>2 DEF InitClient
<1>3. ASSUME NEW t \in Callers, DeinitClient(t) PROVE Awake'
  <2>1. /\ Moves(pc, pc', t) /\ pc[t] \notin Using /\ pc'[t] \notin Using
        /\ UNCHANGED <<usecount, broken>> /\ refcount' = refcount - 1
        /\ refcount = 1 \/ awake' = awake
    BY <1>0, <1>3 DEF DeinitClient, Using, Typed, Moves
  <2>2. Where(pc', Using) = Where(pc, Using)
    BY <2>1, Stays
  <2>3. refcount \in Nat /\ (refcount' > 0 => refcount > 0 /\ awake' = awake)
    BY <1>0, <2>1 DEF Typed
  <2> QED
    BY <1>0, <2>1, <2>2, <2>3 DEF Awake
<1>4. ASSUME NEW t \in Callers, InitReleases(t) \/ CallReleases(t) PROVE Awake'
  <2>1. /\ Moves(pc, pc', t) /\ pc[t] \in Using /\ pc'[t] \notin Using
        /\ UNCHANGED <<refcount, broken>> /\ Releases
    BY <1>0, <1>4 DEF InitReleases, CallReleases, Using, Typed, Moves
  <2>2. Cardinality(Where(pc', Using)) = users - 1
    BY <2>1, Leaves
  <2>3. users <= usecount => Awake'
    BY <1>0, <1>a, <2>1, <2>2 DEF Releases, Awake, Typed
  <2> QED
    BY <1>0, <2>1, <2>3 DEF Awake
<1>5. ASSUME NEW t \in Callers, CallUses(t) PROVE Awake'
  <2>1. /\ Moves(pc, pc', t) /\ pc[t] \notin Using /\ pc'[t] \in Using
        /\ refcount' = refcount /\ Uses
    BY <1>0, <1>5 DEF CallUses, Using, Typed, Moves
  <2>2. Cardinality(Where(pc', Using)) = users + 1
    BY <2>1, Enters
  <2> QED
    BY <1>0, <1>a, <2>1, <2>2 DEF Uses, Awake, Typed
<1>6. ASSUME NEW t \in Callers,
             \/ (\E transfer \in BOOLEAN : CallStarts(t, transfer)) \/ SendStarts(t)
             \/ TakesTicket(t) \/ FindsWaiter(t) \/ CallWaits(t) \/ CallEnds(t)
      PROVE  Awake'
  <2>1. /\ Moves(pc, pc', t) /\ UNCHANGED <<refcount, usecount, awake, broken>>
        /\ pc[t] \in Using <=> pc'[t] \in Using
    BY <1>0, <1>6 DEF CallStarts, SendStarts, TakesTicket, FindsWaiter, CallWaits, CallEnds,
       FreesWaiter, Using, Typed, Moves
  <2> QED
    BY <1>1, <2>1
<1>7. ASSUME NEW t \in Callers,
             CallQueues(t) \/ CallTransmits(t) \/ SendQueues(t) \/ SendTransmits(t)
      PROVE  Awake'
  <2>1. /\ Moves(pc, pc', t) /\ UNCHANGED <<refcount, usecount, awake>>
        /\ pc[t] \in Using <=> pc'[t] \in Using
        /\ "use" \in broken' <=> "use" \in broken
    BY <1>0, <1>7 DEF CallQueues, CallTransmits, SendQueues, SendTransmits, Transmits, Using,
       Typed, Moves
  <2>2. Where(pc', Using) = Where(pc, Using)
    BY <2>1, Stays
  <2> QED
    BY <1>0, <2>1, <2>2 DEF Awake
<1>8. ASSUME Vchiq \/ \E b \in Buffers : VideoCoreSends(b) PROVE Awake'
  <2>1. /\ UNCHANGED <<pc, refcount, usecount, awake>>
        /\ "use" \in broken' <=> "use" \in broken
    BY <1>8 DEF Vchiq, Answers, Receives, BulkReceived, VideoCoreSends
  <2> QED
    BY <1>0, <2>1 DEF Awake, Where
<1> HIDE DEF service, pool, thread, out, in, Goes
<1> QED
  BY <1>2, <1>3, <1>4, <1>5, <1>6, <1>7, <1>8 DEF Next, Starts, Continues

\* An answer wakes the one call it is for.
LEMMA AnsweredKept == IInv /\ Next => Answered'
<1> SUFFICES ASSUME IInv, Next PROVE Answered'
  OBVIOUS
<1> USE DEF service, pool, thread, out, in, Goes
<1>0. Typed /\ Answered /\ Holders /\ Distinct /\ Counted
  BY DEF IInv
<1>a. \A t, u \in Where(pc, Wanting \cup {"queues"}) : waiter[t] = waiter[u] => t = u
  BY <1>0 DEF Holders, Where, Holding, Wanting
<1>b. \A t \in Where(pc, Wanting \cup {"queues"}) : waiter[t] \in Waiters /\ call[t] \in Calls
  BY <1>0 DEF Holders, Distinct, Typed, Where, Holding, Wanting, Numbered, Inside, Stages
<1>1. ASSUME NEW t \in Callers, Moves(pc, pc', t), pc[t] \in Wanting <=> pc'[t] \in Wanting,
             pc'[t] = "answered" => pc[t] = "answered",
             \A u \in Where(pc, Wanting \cup {"answered"}) :
                 pc'[u] \in Wanting \cup {"answered"} =>
                     call'[u] = call[u] /\ waiter'[u] = waiter[u] /\ answer'[u] = answer[u],
             UNCHANGED <<requests, posted>>, "bulk" \in broken' <=> "bulk" \in broken
      PROVE  Answered'
  <2>1. Where(pc', Wanting) = Where(pc, Wanting)
    BY <1>1, Stays
  <2>2. \A u \in Where(pc, Wanting) :
            call'[u] = call[u] /\ waiter'[u] = waiter[u] /\ answer'[u] = answer[u]
    BY <1>1, <2>1 DEF Where
  <2>3. \A u \in Where(pc', {"answered"}) :
            u \in Where(pc, {"answered"}) /\ call'[u] = call[u] /\ answer'[u] = answer[u]
    BY <1>1 DEF Where, Moves
  <2> QED
    BY <1>0, <1>1, <2>1, <2>2, <2>3 DEF Answered
<1>2. ASSUME NEW t \in Callers, CallQueues(t) PROVE Answered'
  <2>1. CASE pc'[t] = "fails"
    <3>1. /\ Moves(pc, pc', t) /\ pc[t] \notin Wanting /\ pc'[t] \notin Wanting
          /\ UNCHANGED <<call, waiter, answer, requests, posted, broken>>
      BY <1>0, <1>2, <2>1 DEF CallQueues, Wanting, Typed, Moves
    <3> QED
      BY <1>1, <2>1, <3>1
  <2>2. CASE pc'[t] # "fails"
    <3> DEFINE mine == [waiter |-> waiter[t], call |-> call[t]]
    <3>1. /\ Moves(pc, pc', t) /\ pc[t] = "queues" /\ pc'[t] \in Wanting
          /\ requests' = requests \cup {mine}
          /\ UNCHANGED <<call, waiter, answer, posted, broken>>
      BY <1>0, <1>2, <2>2 DEF CallQueues, Wanting, Typed, Moves
    <3>2. /\ t \in Where(pc, Wanting \cup {"queues"}) /\ t \notin Where(pc, Wanting)
          /\ Where(pc', Wanting) = Where(pc, Wanting) \cup {t}
          /\ Where(pc', {"answered"}) = Where(pc, {"answered"})
      BY <3>1 DEF Where, Moves, Wanting
    <3>3. \A u \in Where(pc, Wanting) : waiter[u] # waiter[t]
      BY <1>a, <3>2 DEF Where
    <3>4. "bulk" \notin broken => posted[waiter[t]] = 0
      BY <1>0, <1>b, <3>2, <3>3 DEF Answered
    <3>5. mine.waiter = waiter[t] /\ mine.call = call[t]
      OBVIOUS
    <3> HIDE DEF mine
    <3>6. "bulk" \notin broken => \A u \in Where(pc, Wanting) :
               \/ posted[waiter[u]] = 0 /\ [waiter |-> waiter[u], call |-> call[u]] \in requests'
               \/ /\ posted[waiter[u]] = 1 /\ answer[u] = call[u]
                  /\ \A r \in requests' : r.waiter # waiter[u]
      BY <1>0, <3>1, <3>3, <3>5 DEF Answered
    <3>7. "bulk" \notin broken => \A u \in Where(pc', Wanting) :
               \/ posted[waiter[u]] = 0 /\ [waiter |-> waiter[u], call |-> call[u]] \in requests'
               \/ /\ posted[waiter[u]] = 1 /\ answer[u] = call[u]
                  /\ \A r \in requests' : r.waiter # waiter[u]
      BY <3>1, <3>2, <3>4, <3>6 DEF mine
    <3>8. "bulk" \notin broken => \A r \in requests' : \E u \in Where(pc', Wanting) :
               r.waiter = waiter[u] /\ r.call = call[u]
      BY <1>0, <3>1, <3>2, <3>5 DEF Answered
    <3> QED
      BY <1>0, <3>1, <3>2, <3>7, <3>8 DEF Answered
  <2> QED
    BY <2>1, <2>2
<1>3. ASSUME NEW t \in Callers, CallTransmits(t) PROVE Answered'
  <2>1. CASE "bulk" \in broken'
    BY <2>1 DEF Answered
  <2>2. CASE "bulk" \notin broken'
    <3>1. /\ Moves(pc, pc', t) /\ pc[t] \in Wanting /\ pc'[t] \in Wanting
          /\ pc'[t] = "waits" /\ UNCHANGED <<call, waiter, answer, requests, posted, broken>>
      BY <1>0, <1>3, <2>2 DEF CallTransmits, Transmits, Wanting, Typed, Moves
    <3> QED
      BY <1>1, <3>1
  <2> QED
    BY <2>1, <2>2
<1>4. ASSUME NEW t \in Callers, CallWaits(t) PROVE Answered'
  <2>1. /\ Moves(pc, pc', t) /\ pc[t] \in Wanting /\ pc'[t] = "answered"
        /\ UNCHANGED <<call, waiter, answer, requests, broken>>
        /\ posted[waiter[t]] > 0 /\ posted' = [posted EXCEPT ![waiter[t]] = @ - 1]
    BY <1>0, <1>4 DEF CallWaits, Woken, Wanting, Typed, Moves
  <2>2. /\ t \in Where(pc, Wanting) /\ Where(pc', Wanting) = Where(pc, Wanting) \ {t}
        /\ Where(pc', {"answered"}) = Where(pc, {"answered"}) \cup {t}
    BY <2>1 DEF Where, Moves, Wanting
  <2>3. waiter[t] \in Waiters /\ \A u \in Where(pc', Wanting) : waiter[u] # waiter[t]
    BY <1>a, <1>b, <2>2 DEF Where
  <2>4. \A w \in Waiters : w # waiter[t] => posted'[w] = posted[w]
    BY <1>0, <2>1 DEF Typed
  <2>5. CASE "bulk" \notin broken
    <3>1. /\ posted[waiter[t]] = 1 /\ answer[t] = call[t]
          /\ \A r \in requests : r.waiter # waiter[t]
      <4>1. posted[waiter[t]] # 0
        BY <2>1
      <4> QED
        BY <1>0, <2>2, <2>5, <4>1 DEF Answered
    <3>2. posted'[waiter[t]] = 0
      BY <1>0, <2>1, <2>3, <3>1 DEF Typed
    <3>3. \A u \in Where(pc', Wanting) : waiter[u] \in Waiters /\ posted'[waiter[u]] = posted[waiter[u]]
      BY <1>b, <2>2, <2>3, <2>4 DEF Where
    <3>4. \A u \in Where(pc', Wanting) :
               \/ posted'[waiter[u]] = 0 /\ [waiter |-> waiter[u], call |-> call[u]] \in requests
               \/ /\ posted'[waiter[u]] = 1 /\ answer[u] = call[u]
                  /\ \A r \in requests : r.waiter # waiter[u]
      BY <1>0, <2>2, <2>5, <3>3 DEF Answered
    <3>5. \A r \in requests : \E u \in Where(pc', Wanting) :
               r.waiter = waiter[u] /\ r.call = call[u]
      BY <1>0, <2>2, <2>5, <3>1 DEF Answered
    <3>6. \A w \in Waiters : posted'[w] # 0 => \E u \in Where(pc', Wanting) : waiter[u] = w
      BY <1>0, <2>2, <2>4, <2>5, <3>2 DEF Answered
    <3>7. \A u \in Where(pc', {"answered"}) : answer[u] = call[u]
      BY <1>0, <2>2, <2>5, <3>1 DEF Answered
    <3> QED
      BY <2>1, <3>4, <3>5, <3>6, <3>7 DEF Answered
  <2> QED
    BY <2>1, <2>5 DEF Answered
<1>5. ASSUME Answers PROVE Answered'
  <2>1. PICK r \in requests :
            /\ requests' = requests \ {r}
            /\ answer' = [t \in Callers |-> IF call[t] = dest[r.waiter] THEN r.call ELSE answer[t]]
            /\ posted' = [posted EXCEPT ![r.waiter] = @ + 1]
    BY <1>5 DEF Answers
  <2>2. UNCHANGED <<pc, call, waiter, broken>>
    BY <1>5 DEF Answers
  <2>3. Where(pc', Wanting) = Where(pc, Wanting) /\ Where(pc', {"answered"}) = Where(pc, {"answered"})
    BY <2>2 DEF Where
  <2>4. CASE "bulk" \notin broken
    <3>1. PICK t \in Where(pc, Wanting) : r.waiter = waiter[t] /\ r.call = call[t]
      BY <1>0, <2>4 DEF Answered
    <3>2. waiter[t] \in Waiters /\ call[t] \in Calls /\ t \in Callers
      BY <1>b DEF Where
    <3>3. posted[waiter[t]] = 0
      BY <1>0, <2>4, <3>1 DEF Answered
    <3>4. \A u \in Where(pc, Wanting) : u # t => waiter[u] # waiter[t] /\ waiter[u] \in Waiters
      BY <1>a, <1>b DEF Where
    <3>5. \A q \in requests : q.waiter = waiter[t] => q = r
      <4>1. ASSUME NEW q \in requests, q.waiter = waiter[t] PROVE q = r
        <5>1. PICK u \in Where(pc, Wanting) : q.waiter = waiter[u] /\ q.call = call[u]
          BY <1>0, <2>4 DEF Answered
        <5>2. q.call = r.call
          BY <3>1, <3>4, <4>1, <5>1
        <5> QED
          BY <1>0, <3>1, <4>1, <5>2 DEF Typed
      <4> QED
        BY <4>1
    <3>6. dest[waiter[t]] = call[t]
      BY <1>0 DEF Holders, Where, Holding, Wanting
    <3>7. answer'[t] = call[t]
      BY <2>1, <3>1, <3>2, <3>6
    <3>8. \A u \in Callers : u # t => answer'[u] = answer[u]
      <4>1. \A u \in Callers : u # t => call[u] # call[t]
        BY <1>0, <3>2 DEF Distinct, Calls
      <4> QED
        BY <2>1, <3>1, <3>6, <4>1
    <3>9. posted'[waiter[t]] = 1 /\ \A w \in Waiters : w # waiter[t] => posted'[w] = posted[w]
      BY <1>0, <2>1, <3>1, <3>2, <3>3 DEF Typed
    <3>10. \A u \in Where(pc, Wanting) :
               \/ posted'[waiter[u]] = 0 /\ [waiter |-> waiter[u], call |-> call[u]] \in requests'
               \/ /\ posted'[waiter[u]] = 1 /\ answer'[u] = call[u]
                  /\ \A q \in requests' : q.waiter # waiter[u]
      <4>1. ASSUME NEW u \in Where(pc, Wanting), u # t
            PROVE  \/ posted'[waiter[u]] = 0 /\ [waiter |-> waiter[u], call |-> call[u]] \in requests'
                   \/ /\ posted'[waiter[u]] = 1 /\ answer'[u] = call[u]
                      /\ \A q \in requests' : q.waiter # waiter[u]
        <5>1. /\ posted'[waiter[u]] = posted[waiter[u]] /\ answer'[u] = answer[u]
              /\ waiter[u] # waiter[t]
          BY <3>4, <3>8, <3>9, <4>1 DEF Where
        <5>2. [waiter |-> waiter[u], call |-> call[u]] # r
          BY <3>1, <5>1
        <5> QED
          BY <1>0, <2>1, <2>4, <4>1, <5>1, <5>2 DEF Answered
      <4>2. posted'[waiter[t]] = 1 /\ answer'[t] = call[t] /\ \A q \in requests' : q.waiter # waiter[t]
        BY <2>1, <3>5, <3>7, <3>9
      <4> QED
        BY <4>1, <4>2
    <3>11. \A q \in requests' : \E u \in Where(pc, Wanting) : q.waiter = waiter[u] /\ q.call = call[u]
      BY <1>0, <2>1, <2>4 DEF Answered
    <3>12. \A w \in Waiters : posted'[w] # 0 => \E u \in Where(pc, Wanting) : waiter[u] = w
      BY <1>0, <2>4, <3>9 DEF Answered
    <3>13. \A u \in Where(pc, {"answered"}) : answer'[u] = call[u]
      <4>1. t \notin Where(pc, {"answered"})
        BY DEF Where, Wanting
      <4> QED
        BY <1>0, <2>4, <3>8, <4>1 DEF Answered, Where
    <3> QED
      BY <2>2, <2>3, <3>10, <3>11, <3>12, <3>13 DEF Answered
  <2> QED
    BY <2>2, <2>4 DEF Answered
<1>6. ASSUME NEW t \in Callers, InitClient(t) \/ DeinitClient(t) PROVE Answered'
  <2>1. CASE UNCHANGED <<requests, posted>>
    <3>1. /\ Moves(pc, pc', t) /\ pc[t] \notin Wanting /\ pc'[t] \notin Wanting \cup {"answered"}
          /\ UNCHANGED <<call, waiter, answer, broken>>
      BY <1>0, <1>6 DEF InitClient, DeinitClient, Wanting, Typed, Moves
    <3> QED
      BY <1>1, <2>1, <3>1
  <2>2. CASE ~ UNCHANGED <<requests, posted>>
    <3>1. /\ Moves(pc, pc', t) /\ pc'[t] \notin Wanting \cup {"answered"} /\ broken' = broken
          /\ \/ /\ refcount = 0 /\ requests' = requests
                /\ posted' = [w \in Waiters |-> 0]
             \/ refcount = 1 /\ pc[t] = "idle" /\ requests' = {} /\ posted' = posted
      BY <1>0, <1>6, <2>2 DEF InitClient, DeinitClient, Opens, Wanting, Typed, Moves
    <3>2. \A u \in Callers : pc[u] \notin Wanting /\ pc'[u] \notin Wanting \cup {"answered"}
      BY <1>0, <3>1, NobodyElse DEF Moves, Wanting
    <3>3. Where(pc, Wanting) = {} /\ Where(pc', Wanting) = {} /\ Where(pc', {"answered"}) = {}
      BY <3>2 DEF Where
    <3>4. "bulk" \notin broken => requests = {} /\ \A w \in Waiters : posted[w] = 0
      BY <1>0, <3>3 DEF Answered
    <3>5. "bulk" \notin broken => requests' = {} /\ \A w \in Waiters : posted'[w] = 0
      BY <3>1, <3>4
    <3> QED
      BY <3>1, <3>3, <3>5 DEF Answered
  <2> QED
    BY <2>1, <2>2
<1>7. ASSUME NEW t \in Callers,
             \/ (\E transfer \in BOOLEAN : CallStarts(t, transfer)) \/ SendStarts(t)
             \/ CallEnds(t) \/ FindsWaiter(t)
      PROVE  Answered'
  <2>1. /\ Moves(pc, pc', t) /\ pc[t] \notin Wanting \cup {"answered"}
        /\ pc'[t] \notin Wanting \cup {"answered"}
        /\ \A u \in Callers \ {t} : /\ call'[u] = call[u] /\ waiter'[u] = waiter[u]
                                   /\ answer'[u] = answer[u]
        /\ UNCHANGED <<requests, posted, broken>>
    BY <1>0, <1>7 DEF CallStarts, SendStarts, CallEnds, FreesWaiter, FindsWaiter, Forgets,
       Wanting, Typed, Moves
  <2>2. \A u \in Where(pc, Wanting \cup {"answered"}) :
            call'[u] = call[u] /\ waiter'[u] = waiter[u] /\ answer'[u] = answer[u]
    BY <2>1 DEF Where
  <2> QED
    BY <1>1, <2>1, <2>2
<1>8. ASSUME NEW t \in Callers,
             \/ InitReleases(t) \/ TakesTicket(t) \/ CallUses(t) \/ CallReleases(t)
             \/ SendQueues(t) \/ SendTransmits(t)
      PROVE  Answered'
  <2>1. CASE "bulk" \in broken'
    BY <2>1 DEF Answered
  <2>2. CASE "bulk" \notin broken'
    <3>1. /\ Moves(pc, pc', t) /\ pc[t] \notin Wanting
          /\ pc'[t] \notin Wanting \cup {"answered"}
          /\ UNCHANGED <<call, waiter, answer, requests, posted>>
          /\ "bulk" \notin broken
      BY <1>0, <1>8, <2>2 DEF InitReleases, TakesTicket, CallUses, Uses, CallReleases,
         SendQueues, SendTransmits, Transmits, Wanting, Typed, Moves
    <3> QED
      BY <1>1, <2>2, <3>1
  <2> QED
    BY <2>1, <2>2
<1>9. ASSUME Receives \/ BulkReceived \/ \E b \in Buffers : VideoCoreSends(b) PROVE Answered'
  <2>1. /\ UNCHANGED <<pc, call, waiter, answer, requests, posted>>
        /\ "bulk" \in broken' <=> "bulk" \in broken
    BY <1>9 DEF Receives, BulkReceived, VideoCoreSends
  <2> QED
    BY <1>0, <2>1 DEF Answered, Where
<1> HIDE DEF service, pool, thread, out, in, Goes
<1> QED
  BY <1>2, <1>3, <1>4, <1>5, <1>6, <1>7, <1>8, <1>9 DEF Next, Starts, Continues, Vchiq

LEMMA NextInv == IInv /\ [Next]_vars => IInv'
<1>1. CASE Next
  BY <1>1, TypedKept, CountedKept, DistinctKept, TicketsKept, HoldersKept, LockedKept,
     FollowedKept, AwakeKept, AnsweredKept DEF IInv
<1>2. CASE UNCHANGED vars
  <2>1. UNCHANGED <<refcount, usecount, awake, sem, inuse, dest, posted, bulk_lock,
                    pc, call, waiter, dummy, answer, calls, requests, announced, broken>>
    BY <1>2 DEF vars, service, pool, thread, out
  <2> QED
    BY <2>1 DEF IInv, Typed, Counted, Distinct, Tickets, Holders, Locked, Followed, Awake,
       Answered, Where
<1> QED
  BY <1>1, <1>2

LEMMA Invariant == Spec => []IInv
  BY InitInv, NextInv, PTL DEF Spec

---------------------------------------------------------------------------
\* A call that mmal_vc_sendwait_message returns as answered has the answer to
\* its own message, however many calls share the waiters, until VCHIQ refuses
\* an announced transfer.
THEOREM AnswersAreOwn == Spec => []AnswerIsOwn
<1>1. IInv => AnswerIsOwn
  BY DEF IInv, Answered, AnswerIsOwn, Where
<1> QED
  BY <1>1, Invariant, PTL

\* get_waiter always finds a free waiter for its ticket, and no two calls have
\* the same one, though release_waiter takes no lock.
THEOREM WaitersStayApart == Spec => []WaitersApart
<1>1. IInv => WaitersApart
  <2> SUFFICES ASSUME IInv PROVE WaitersApart
    OBVIOUS
  <2>1. InCall = Where(pc, Holding)
    BY DEF InCall, Where, Holding
  <2>2. {t \in Callers : pc[t] = "searches"} = Where(pc, {"searches"})
    BY DEF Where
  <2>3. /\ Cardinality(Where(pc, {"searches"})) \in Nat
        /\ Cardinality(Where(pc, {"posts"})) \in Nat
    BY SomeCount
  <2>4. Cardinality(Waiters \ inuse) \in Nat
    BY ClientAssumption, FS_Difference, FS_CardinalityType
  <2>5. sem + Cardinality(Where(pc, {"searches"})) <= Cardinality(Waiters \ inuse)
    BY <2>3, <2>4 DEF IInv, Typed, Tickets
  <2> QED
    BY <2>1, <2>2, <2>5 DEF IInv, Holders, WaitersApart
<1> QED
  BY <1>1, Invariant, PTL

\* bulk_lock keeps each transfer with the message that announced it, until
\* VCHIQ refuses one.
THEOREM TransfersFollow == Spec => []TransfersMatch
<1>1. IInv => TransfersMatch
  <2> SUFFICES ASSUME IInv, "bulk" \notin broken, NEW t \in Callers,
                      pc[t] \in {"transmits", "follows"}
               PROVE  Head(announced) = call[t]
    BY DEF TransfersMatch
  <2>1. announced = <<call[t]>>
    BY DEF IInv, Followed, Following, Where
  <2> QED
    BY <2>1
<1> QED
  BY <1>1, Invariant, PTL

\* The count of users in mmal_vc_use_internal covers every call that waits, so
\* the service stays awake for it, until VCHIQ refuses to wake it.
THEOREM ServiceIsAwake == Spec => []AwakeInCalls
<1>1. IInv => AwakeInCalls
  <2> SUFFICES ASSUME IInv, "use" \notin broken, NEW t \in Callers,
                      pc[t] \in {"queues", "transmits", "waits", "answered"}
               PROVE  awake
    BY DEF AwakeInCalls
  <2>1. t \in Where(pc, Using) /\ t \in Where(pc, Inside)
    BY DEF Where, Using, Inside, Stages
  <2>2. Cardinality(Where(pc, Using)) > 0 /\ Cardinality(Where(pc, Inside)) > 0
    BY <2>1, SomeCount, CountZero
  <2> QED
    BY <2>2, SomeCount DEF IInv, Typed, Counted, Awake
<1> QED
  BY <1>1, Invariant, PTL
---------------------------------------------------------------------------
(* What comes from VideoCore: `order` is what is under way, without what   *)
(* is empty.                                                               *)

Message == [buffer : Buffers, kind : {"data", "eos", "empty"}]

Told(m) == m.kind # "empty"

\* All that is under way, the next to reach its port first.
Under == receiving \o toHost

Once(q) == \A i, j \in 1 .. Len(q) : q[i] = q[j] => i = j
Singly(h) == \A m, n \in 1 .. Len(h) : h[m].buffer = h[n].buffer => m = n

\* The same buffers, in the same order.
OfMessage(h, o) == \A i \in 1 .. Len(o) : \E n \in 1 .. Len(h) : h[n].buffer = o[i] /\ Told(h[n])
EachTold(h, o) == \A n \in 1 .. Len(h) : Told(h[n]) => \E i \in 1 .. Len(o) : o[i] = h[n].buffer
SameWay(h, o) == \A m, n \in 1 .. Len(h), i, j \in 1 .. Len(o) :
                     o[i] = h[m].buffer /\ o[j] = h[n].buffer /\ m < n => i < j

InStep(h, o) == Singly(h) /\ Once(o) /\ OfMessage(h, o) /\ EachTold(h, o) /\ SameWay(h, o)

\* The types that Typed leaves out.
InTyped ==
    /\ {inited, awake, overtaken} \subseteq BOOLEAN /\ broken \subseteq {"use", "bulk", "receive"}
    /\ toHost \in Seq(Message) /\ receiving \in Seq(Message) /\ order \in Seq(Buffers)
    /\ \A i \in 1 .. Len(receiving) : Told(receiving[i])

\* A refused transfer is handed over early, and nothing else is.
InLine == InStep(Under, order) /\ (overtaken => "receive" \in broken)

\* The place before place `i` of a sequence has lost place `k`.
Skip(k, i) == IF i < k THEN i ELSE i + 1

\* A sequence of length M is one of length L without its place k.
Closes(k, M, L) ==
    /\ \A i \in 1 .. M : Skip(k, i) \in 1 .. L /\ Skip(k, i) # k
    /\ \A i, j \in 1 .. M : /\ Skip(k, i) = Skip(k, j) => i = j
                            /\ Skip(k, i) < Skip(k, j) <=> i < j
    /\ \A n \in 1 .. L : n # k => \E i \in 1 .. M : Skip(k, i) = n

LEMMA Skips ==
    ASSUME NEW L \in Nat, NEW k \in 1 .. L, NEW M, M = L - 1
    PROVE  Closes(k, M, L)
<1>1. /\ \A i \in 1 .. M : Skip(k, i) \in 1 .. L /\ Skip(k, i) # k
      /\ \A i, j \in 1 .. M : /\ Skip(k, i) = Skip(k, j) => i = j
                              /\ Skip(k, i) < Skip(k, j) <=> i < j
  BY DEF Skip
<1>2. ASSUME NEW n \in 1 .. L, n # k PROVE \E i \in 1 .. M : Skip(k, i) = n
  <2>1. CASE n < k
    <3>1. n \in 1 .. M /\ Skip(k, n) = n
      BY <2>1 DEF Skip
    <3> QED
      BY <3>1
  <2>2. CASE n > k
    <3>1. n - 1 \in 1 .. M /\ Skip(k, n - 1) = n
      BY <2>2 DEF Skip
    <3> QED
      BY <3>1
  <2> QED
    BY <1>2, <2>1, <2>2
<1>3. \A n \in 1 .. L : n # k => \E i \in 1 .. M : Skip(k, i) = n
  BY <1>2
<1> QED
  BY <1>1, <1>3 DEF Closes

LEMMA Without ==
    ASSUME NEW S, NEW q \in Seq(S), NEW k \in 1 .. Len(q)
    PROVE  /\ RemoveAt(q, k) \in Seq(S) /\ Len(RemoveAt(q, k)) = Len(q) - 1
           /\ \A i \in 1 .. Len(q) - 1 : RemoveAt(q, k)[i] = q[Skip(k, i)]
<1> DEFINE s == SubSeq(q, 1, k - 1)
           t == SubSeq(q, k + 1, Len(q))
<1>1. /\ s \in Seq(S) /\ Len(s) = k - 1 /\ Len(q) \in Nat /\ k \in Nat /\ k >= 1
      /\ \A i \in 1 .. k - 1 : s[i] = q[i]
  OBVIOUS
<1>2. /\ t \in Seq(S) /\ Len(t) = Len(q) - k
      /\ \A i \in 1 .. Len(q) - k : t[i] = q[k + i]
  OBVIOUS
<1>3. RemoveAt(q, k) = s \o t
  BY DEF RemoveAt
<1> HIDE DEF s, t
<1>4. /\ s \o t \in Seq(S) /\ Len(s \o t) = Len(s) + Len(t)
      /\ \A i \in 1 .. Len(s) + Len(t) : (s \o t)[i] = IF i <= Len(s) THEN s[i] ELSE t[i - Len(s)]
  BY <1>1, <1>2, ConcatProperties
<1>5. \A i \in 1 .. Len(q) - 1 : (s \o t)[i] = IF i < k THEN s[i] ELSE t[i - (k - 1)]
  BY <1>1, <1>2, <1>4
<1>6. \A i \in 1 .. Len(q) - 1 : ~ i < k => i - (k - 1) \in 1 .. Len(q) - k /\ k + (i - (k - 1)) = i + 1
  BY <1>1
<1>7. \A i \in 1 .. Len(q) - 1 : ~ i < k => t[i - (k - 1)] = q[i + 1]
  BY <1>2, <1>6
<1>8. \A i \in 1 .. Len(q) - 1 : i < k => s[i] = q[i]
  BY <1>1
<1>9. Len(s) + Len(t) = Len(q) - 1
  BY <1>1, <1>2
<1> QED
  BY <1>3, <1>4, <1>5, <1>7, <1>8, <1>9 DEF Skip

LEMMA Removal ==
    ASSUME NEW S, NEW q \in Seq(S), Once(q), NEW e
    PROVE  \/ (\A k \in 1 .. Len(q) : q[k] # e) /\ RemoveFirst(q, e) = q
           \/ \E k \in 1 .. Len(q) : q[k] = e /\ RemoveFirst(q, e) = RemoveAt(q, k)
<1>1. CASE \A k \in 1 .. Len(q) : q[k] # e
  <2>1. RemoveFirst(q, e) = q
    BY <1>1 DEF RemoveFirst
  <2> QED
    BY <1>1, <2>1
<1>2. ASSUME NEW k \in 1 .. Len(q), q[k] = e PROVE RemoveFirst(q, e) = RemoveAt(q, k)
  <2>1. {i \in 1 .. Len(q) : q[i] = e} = {k} /\ Min({k}) = k
    BY <1>2 DEF Once, Min
  <2> QED
    BY <1>2, <2>1 DEF RemoveFirst, SelectInSeq
<1> QED
  BY <1>1, <1>2

\* What is handed over, from any place, is no longer expected.
LEMMA Taken ==
    ASSUME NEW h \in Seq(Message), NEW o \in Seq(Buffers), InStep(h, o), NEW p \in 1 .. Len(h),
           NEW g \in Seq(Message), Len(g) = Len(h) - 1,
           \A i \in 1 .. Len(g) : g[i] = h[Skip(p, i)]
    PROVE  RemoveFirst(o, h[p].buffer) \in Seq(Buffers) /\ InStep(g, RemoveFirst(o, h[p].buffer))
<1> DEFINE e == h[p].buffer
           r == RemoveFirst(o, e)
<1>0. Len(h) \in Nat /\ Len(o) \in Nat /\ Singly(h) /\ Once(o)
  BY DEF InStep
<1>a. /\ \A i \in 1 .. Len(g) : Skip(p, i) \in 1 .. Len(h) /\ Skip(p, i) # p
      /\ \A i, j \in 1 .. Len(g) : /\ Skip(p, i) = Skip(p, j) => i = j
                                   /\ Skip(p, i) < Skip(p, j) <=> i < j
      /\ \A n \in 1 .. Len(h) : n # p => \E i \in 1 .. Len(g) : Skip(p, i) = n
  <2>1. Closes(p, Len(g), Len(h))
    BY <1>0, Skips
  <2> QED
    BY <2>1 DEF Closes
<1>b. Singly(g) /\ \A n \in 1 .. Len(g) : g[n].buffer # e
  <2>1. Singly(g)
    <3> SUFFICES ASSUME NEW m \in 1 .. Len(g), NEW n \in 1 .. Len(g), g[m].buffer = g[n].buffer
                 PROVE  m = n
      BY DEF Singly
    <3>1. Skip(p, m) = Skip(p, n)
      BY <1>0, <1>a DEF Singly
    <3> QED
      BY <1>a, <3>1
  <2>2. ASSUME NEW n \in 1 .. Len(g), g[n].buffer = e PROVE FALSE
    <3>1. Skip(p, n) = p
      BY <1>0, <1>a, <2>2 DEF Singly
    <3> QED
      BY <1>a, <3>1
  <2> QED
    BY <2>1, <2>2
<1>c. \A n \in 1 .. Len(h) : h[n].buffer # e => \E i \in 1 .. Len(g) : g[i] = h[n]
  BY <1>a
<1>1. ASSUME \A k \in 1 .. Len(o) : o[k] # e, r = o
      PROVE  r \in Seq(Buffers) /\ InStep(g, r)
  <2>1. OfMessage(g, o)
    <3> SUFFICES ASSUME NEW i \in 1 .. Len(o)
                 PROVE  \E n \in 1 .. Len(g) : g[n].buffer = o[i] /\ Told(g[n])
      BY DEF OfMessage
    <3>1. PICK n \in 1 .. Len(h) : h[n].buffer = o[i] /\ Told(h[n])
      BY DEF InStep, OfMessage
    <3> QED
      BY <1>1, <1>c, <3>1
  <2>2. EachTold(g, o)
    <3> SUFFICES ASSUME NEW n \in 1 .. Len(g), Told(g[n])
                 PROVE  \E i \in 1 .. Len(o) : o[i] = g[n].buffer
      BY DEF EachTold
    <3>1. Skip(p, n) \in 1 .. Len(h) /\ g[n] = h[Skip(p, n)]
      BY <1>a
    <3> QED
      BY <3>1 DEF InStep, EachTold
  <2>3. SameWay(g, o)
    <3> SUFFICES ASSUME NEW m \in 1 .. Len(g), NEW n \in 1 .. Len(g),
                        NEW i \in 1 .. Len(o), NEW j \in 1 .. Len(o),
                        o[i] = g[m].buffer, o[j] = g[n].buffer, m < n
                 PROVE  i < j
      BY DEF SameWay
    <3>1. /\ Skip(p, m) < Skip(p, n) /\ Skip(p, m) \in 1 .. Len(h) /\ Skip(p, n) \in 1 .. Len(h)
          /\ o[i] = h[Skip(p, m)].buffer /\ o[j] = h[Skip(p, n)].buffer
      BY <1>a
    <3> QED
      BY <3>1 DEF InStep, SameWay
  <2> QED
    BY <1>0, <1>1, <1>b, <2>1, <2>2, <2>3 DEF InStep
<1>2. ASSUME NEW k \in 1 .. Len(o), o[k] = e, r = RemoveAt(o, k)
      PROVE  r \in Seq(Buffers) /\ InStep(g, r)
  <2>0. /\ r \in Seq(Buffers) /\ Len(r) = Len(o) - 1
        /\ \A i \in 1 .. Len(r) : r[i] = o[Skip(k, i)]
    BY <1>2, Without
  <2>a. /\ \A i \in 1 .. Len(r) : Skip(k, i) \in 1 .. Len(o) /\ Skip(k, i) # k
        /\ \A i, j \in 1 .. Len(r) : /\ Skip(k, i) = Skip(k, j) => i = j
                                     /\ Skip(k, i) < Skip(k, j) <=> i < j
        /\ \A n \in 1 .. Len(o) : n # k => \E i \in 1 .. Len(r) : Skip(k, i) = n
    <3>1. Closes(k, Len(r), Len(o))
      BY <1>0, <2>0, Skips
    <3> QED
      BY <3>1 DEF Closes
  <2> HIDE DEF r, e
  <2>1. Once(r) /\ \A i \in 1 .. Len(r) : r[i] # e
    <3>1. Once(r)
      <4> SUFFICES ASSUME NEW i \in 1 .. Len(r), NEW j \in 1 .. Len(r), r[i] = r[j]
                   PROVE  i = j
        BY DEF Once
      <4>1. Skip(k, i) = Skip(k, j)
        BY <1>0, <2>0, <2>a DEF Once
      <4> QED
        BY <2>a, <4>1
    <3>2. ASSUME NEW i \in 1 .. Len(r), r[i] = e PROVE FALSE
      <4>1. Skip(k, i) = k
        <5>1. Skip(k, i) \in 1 .. Len(o) /\ o[Skip(k, i)] = o[k]
          BY <1>2, <2>0, <2>a, <3>2
        <5> QED
          BY <1>0, <5>1 DEF Once
      <4> QED
        BY <2>a, <4>1
    <3> QED
      BY <3>1, <3>2
  <2>2. OfMessage(g, r)
    <3> SUFFICES ASSUME NEW i \in 1 .. Len(r)
                 PROVE  \E n \in 1 .. Len(g) : g[n].buffer = r[i] /\ Told(g[n])
      BY DEF OfMessage
    <3>0. Skip(k, i) \in 1 .. Len(o) /\ r[i] = o[Skip(k, i)]
      BY <2>0, <2>a
    <3>1. PICK n \in 1 .. Len(h) : h[n].buffer = r[i] /\ Told(h[n])
      BY <3>0 DEF InStep, OfMessage
    <3> QED
      BY <1>c, <2>1, <3>1
  <2>3. EachTold(g, r)
    <3> SUFFICES ASSUME NEW n \in 1 .. Len(g), Told(g[n])
                 PROVE  \E i \in 1 .. Len(r) : r[i] = g[n].buffer
      BY DEF EachTold
    <3>0. Skip(p, n) \in 1 .. Len(h) /\ g[n] = h[Skip(p, n)]
      BY <1>a
    <3>1. PICK j \in 1 .. Len(o) : o[j] = g[n].buffer
      BY <3>0 DEF InStep, EachTold
    <3>2. j # k
      BY <1>2, <1>b, <3>1
    <3> QED
      BY <2>0, <2>a, <3>1, <3>2
  <2>4. SameWay(g, r)
    <3> SUFFICES ASSUME NEW m \in 1 .. Len(g), NEW n \in 1 .. Len(g),
                        NEW i \in 1 .. Len(r), NEW j \in 1 .. Len(r),
                        r[i] = g[m].buffer, r[j] = g[n].buffer, m < n
                 PROVE  i < j
      BY DEF SameWay
    <3>1. /\ Skip(p, m) < Skip(p, n) /\ Skip(p, m) \in 1 .. Len(h) /\ Skip(p, n) \in 1 .. Len(h)
          /\ g[m] = h[Skip(p, m)] /\ g[n] = h[Skip(p, n)]
      BY <1>a
    <3>2. /\ Skip(k, i) \in 1 .. Len(o) /\ Skip(k, j) \in 1 .. Len(o)
          /\ r[i] = o[Skip(k, i)] /\ r[j] = o[Skip(k, j)]
      BY <2>0, <2>a
    <3>3. Skip(k, i) < Skip(k, j)
      BY <3>1, <3>2 DEF InStep, SameWay
    <3> QED
      BY <2>a, <3>3
  <2> QED
    BY <1>b, <2>0, <2>1, <2>2, <2>3, <2>4 DEF InStep
<1>3. \/ (\A k \in 1 .. Len(o) : o[k] # e) /\ r = o
      \/ \E k \in 1 .. Len(o) : o[k] = e /\ r = RemoveAt(o, k)
  BY <1>0, Removal
<1> HIDE DEF r, e
<1>4. r \in Seq(Buffers) /\ InStep(g, r)
  BY <1>1, <1>2, <1>3
<1> QED
  BY <1>4 DEF r, e

\* What is next and not empty is what is expected first.
LEMMA FirstIsNext ==
    ASSUME NEW h \in Seq(Message), NEW o \in Seq(Buffers), InStep(h, o), h # <<>>, Told(h[1])
    PROVE  o # <<>> /\ Head(o) = h[1].buffer
<1>1. Len(h) \in Nat /\ Len(o) \in Nat /\ 1 \in 1 .. Len(h)
  OBVIOUS
<1>2. PICK i \in 1 .. Len(o) : o[i] = h[1].buffer
  BY <1>1 DEF InStep, EachTold
<1>3. 1 \in 1 .. Len(o)
  BY <1>1, <1>2
<1>4. PICK n \in 1 .. Len(h) : h[n].buffer = o[1]
  BY <1>3 DEF InStep, OfMessage
<1>5. n = 1
  <2> SUFFICES ASSUME n # 1 PROVE FALSE
    OBVIOUS
  <2>1. 1 < n
    BY <1>1
  <2>2. i < 1
    BY <1>1, <1>2, <1>3, <1>4, <2>1 DEF InStep, SameWay
  <2> QED
    BY <1>1, <1>2, <2>2
<1> QED
  BY <1>3, <1>4, <1>5

\* What VideoCore sends comes last.
LEMMA Sent ==
    ASSUME NEW h \in Seq(Message), NEW o \in Seq(Buffers), InStep(h, o), NEW m \in Message,
           \A n \in 1 .. Len(h) : h[n].buffer # m.buffer,
           NEW q, q = IF Told(m) THEN Append(o, m.buffer) ELSE o
    PROVE  q \in Seq(Buffers) /\ InStep(Append(h, m), q)
<1> DEFINE g == Append(h, m)
           b == m.buffer
<1>0. /\ Len(h) \in Nat /\ Len(g) = Len(h) + 1 /\ g[Len(h) + 1] = m
      /\ \A n \in 1 .. Len(h) : g[n] = h[n]
  OBVIOUS
<1>1. b \in Buffers
  BY DEF Message
<1>2. Len(o) \in Nat /\ \A i \in 1 .. Len(o) : o[i] # b
  BY DEF InStep, OfMessage
<1> HIDE DEF g, b
<1>3. \A n \in 1 .. Len(g) :
          \/ n \in 1 .. Len(h) /\ g[n] = h[n]
          \/ n = Len(h) + 1 /\ g[n] = m
  <2>1. \A n \in 1 .. Len(h) + 1 : n \in 1 .. Len(h) \/ n = Len(h) + 1
    BY <1>0
  <2>2. \A n \in 1 .. Len(g) : n \in 1 .. Len(h) + 1
    BY <1>0
  <2> SUFFICES ASSUME NEW n \in 1 .. Len(g)
               PROVE  \/ n \in 1 .. Len(h) /\ g[n] = h[n]
                      \/ n = Len(h) + 1 /\ g[n] = m
    OBVIOUS
  <2>3. n \in 1 .. Len(h) \/ n = Len(h) + 1
    BY <2>1, <2>2
  <2>4. CASE n \in 1 .. Len(h)
    BY <1>0, <2>4
  <2>5. CASE n = Len(h) + 1
    BY <1>0, <2>5
  <2> QED
    BY <2>3, <2>4, <2>5
<1>4. 1 .. Len(h) \subseteq 1 .. Len(g) /\ Len(h) + 1 \in 1 .. Len(g)
  BY <1>0
<1>5. Singly(g)
  BY <1>0, <1>3 DEF Singly, InStep, b
<1>6. ASSUME ~Told(m) PROVE q \in Seq(Buffers) /\ InStep(g, q)
  <2>1. q = o
    BY <1>6
  <2>2. OfMessage(g, o)
    BY <1>0, <1>4 DEF InStep, OfMessage
  <2>3. EachTold(g, o)
    BY <1>3, <1>6 DEF InStep, EachTold
  <2>4. SameWay(g, o)
    <3> SUFFICES ASSUME NEW x \in 1 .. Len(g), NEW y \in 1 .. Len(g),
                        NEW i \in 1 .. Len(o), NEW j \in 1 .. Len(o),
                        o[i] = g[x].buffer, o[j] = g[y].buffer, x < y
                 PROVE  i < j
      BY DEF SameWay
    <3>1. x \in 1 .. Len(h) /\ y \in 1 .. Len(h) /\ g[x] = h[x] /\ g[y] = h[y]
      BY <1>2, <1>3 DEF b
    <3> QED
      BY <3>1 DEF InStep, SameWay
  <2> QED
    BY <1>5, <2>1, <2>2, <2>3, <2>4 DEF InStep
<1>7. ASSUME Told(m) PROVE q \in Seq(Buffers) /\ InStep(g, q)
  <2>0. /\ q = Append(o, b) /\ q \in Seq(Buffers) /\ Len(q) = Len(o) + 1 /\ q[Len(o) + 1] = b
        /\ \A i \in 1 .. Len(o) : q[i] = o[i]
    BY <1>1, <1>7 DEF b
  <2>1. \A i \in 1 .. Len(q) :
          \/ i \in 1 .. Len(o) /\ q[i] = o[i]
          \/ i = Len(o) + 1 /\ q[i] = b
    <3>1. \A i \in 1 .. Len(o) + 1 : i \in 1 .. Len(o) \/ i = Len(o) + 1
      BY <1>2
    <3>2. \A i \in 1 .. Len(q) : i \in 1 .. Len(o) + 1
      BY <1>2, <2>0
    <3> SUFFICES ASSUME NEW i \in 1 .. Len(q)
                 PROVE  \/ i \in 1 .. Len(o) /\ q[i] = o[i]
                        \/ i = Len(o) + 1 /\ q[i] = b
      OBVIOUS
    <3>3. i \in 1 .. Len(o) \/ i = Len(o) + 1
      BY <3>1, <3>2
    <3>4. CASE i \in 1 .. Len(o)
      BY <2>0, <3>4
    <3>5. CASE i = Len(o) + 1
      BY <2>0, <3>5
    <3> QED
      BY <3>3, <3>4, <3>5
  <2>2. 1 .. Len(o) \subseteq 1 .. Len(q) /\ Len(o) + 1 \in 1 .. Len(q)
    BY <1>2, <2>0
  <2>3. Once(q)
    BY <1>2, <2>1 DEF Once, InStep
  <2>4. OfMessage(g, q)
    <3> SUFFICES ASSUME NEW i \in 1 .. Len(q)
                 PROVE  \E n \in 1 .. Len(g) : g[n].buffer = q[i] /\ Told(g[n])
      BY DEF OfMessage
    <3>1. CASE i \in 1 .. Len(o) /\ q[i] = o[i]
      BY <1>0, <1>4, <3>1 DEF InStep, OfMessage
    <3>2. CASE q[i] = b
      BY <1>0, <1>4, <1>7, <3>2 DEF b
    <3> QED
      BY <2>1, <3>1, <3>2
  <2>5. EachTold(g, q)
    <3> SUFFICES ASSUME NEW n \in 1 .. Len(g), Told(g[n])
                 PROVE  \E i \in 1 .. Len(q) : q[i] = g[n].buffer
      BY DEF EachTold
    <3>1. CASE n \in 1 .. Len(h) /\ g[n] = h[n]
      BY <2>0, <2>2, <3>1 DEF InStep, EachTold
    <3>2. CASE g[n] = m
      BY <2>0, <2>2, <3>2 DEF b
    <3> QED
      BY <1>3, <3>1, <3>2
  <2>6. SameWay(g, q)
    <3> SUFFICES ASSUME NEW x \in 1 .. Len(g), NEW y \in 1 .. Len(g),
                        NEW i \in 1 .. Len(q), NEW j \in 1 .. Len(q),
                        q[i] = g[x].buffer, q[j] = g[y].buffer, x < y
                 PROVE  i < j
      BY DEF SameWay
    <3>1. x \in 1 .. Len(h) /\ g[x] = h[x] /\ i \in 1 .. Len(o) /\ q[i] = o[i]
      <4>1. x \in 1 .. Len(h) /\ g[x] = h[x]
        BY <1>0, <1>3
      <4>2. q[i] # b
        BY <4>1 DEF b
      <4> QED
        BY <2>1, <4>1, <4>2
    <3>2. CASE y \in 1 .. Len(h) /\ g[y] = h[y]
      <4>1. q[j] # b
        BY <3>2 DEF b
      <4>2. j \in 1 .. Len(o) /\ q[j] = o[j]
        BY <2>1, <4>1
      <4> QED
        BY <3>1, <3>2, <4>2 DEF InStep, SameWay
    <3>3. CASE g[y] = m
      <4>1. j = Len(o) + 1
        BY <1>2, <2>1, <3>3 DEF b
      <4> QED
        BY <1>2, <3>1, <4>1
    <3> QED
      BY <1>3, <3>2, <3>3
  <2> QED
    BY <1>5, <2>0, <2>3, <2>4, <2>5, <2>6 DEF InStep
<1>8. q \in Seq(Buffers) /\ InStep(g, q)
  BY <1>6, <1>7
<1> QED
  BY <1>8 DEF g
---------------------------------------------------------------------------
LEMMA InTypedInit == Init => InTyped /\ InLine
<1> SUFFICES ASSUME Init PROVE InTyped /\ InLine
  OBVIOUS
<1>1. toHost = <<>> /\ receiving = <<>> /\ order = <<>> /\ ~overtaken
  BY DEF Init
<1>2. InTyped
  <2>1. {inited, awake, overtaken} \subseteq BOOLEAN /\ broken \subseteq {"use", "bulk", "receive"}
    BY DEF Init
  <2>2. <<>> \in Seq(Message) /\ <<>> \in Seq(Buffers) /\ 1 .. Len(<<>>) = {}
    OBVIOUS
  <2> QED
    BY <1>1, <2>1, <2>2 DEF InTyped
<1>3. Under = <<>>
  BY <1>1, ConcatEmptySeq DEF Under
<1>4. InLine
  BY <1>1, <1>3 DEF InLine, InStep, Singly, Once, OfMessage, EachTold, SameWay
<1> QED
  BY <1>2, <1>4

\* What is under way, by its place.
LEMMA UnderWay ==
    ASSUME NEW r \in Seq(Message), NEW t \in Seq(Message)
    PROVE  /\ r \o t \in Seq(Message) /\ Len(r \o t) = Len(r) + Len(t)
           /\ Len(r) \in Nat /\ Len(t) \in Nat
           /\ \A i \in 1 .. Len(r) : (r \o t)[i] = r[i]
           /\ \A i \in 1 .. Len(t) : (r \o t)[Len(r) + i] = t[i]
<1>1. /\ r \o t \in Seq(Message) /\ Len(r \o t) = Len(r) + Len(t)
      /\ \A i \in 1 .. Len(r) + Len(t) : (r \o t)[i] = IF i <= Len(r) THEN r[i] ELSE t[i - Len(r)]
  BY ConcatProperties
<1>2. Len(r) \in Nat /\ Len(t) \in Nat
  OBVIOUS
<1>3. \A i \in 1 .. Len(t) : /\ Len(r) + i \in 1 .. Len(r) + Len(t)
                             /\ ~ Len(r) + i <= Len(r) /\ Len(r) + i - Len(r) = i
  BY <1>2
<1>4. \A i \in 1 .. Len(r) : i \in 1 .. Len(r) + Len(t) /\ i <= Len(r)
  BY <1>2
<1> QED
  BY <1>1, <1>2, <1>3, <1>4

LEMMA Rest ==
    ASSUME NEW S, NEW s \in Seq(S), s # <<>>
    PROVE  /\ Head(s) = s[1] /\ s[1] \in S /\ 1 \in 1 .. Len(s) /\ Len(s) \in Nat
           /\ Tail(s) \in Seq(S) /\ Len(Tail(s)) = Len(s) - 1
           /\ \A i \in 1 .. Len(s) - 1 : Tail(s)[i] = s[i + 1]
  OBVIOUS

\* A buffer comes from VideoCore.
LEMMA SendKeeps ==
    ASSUME InTyped, InLine, NEW b \in Buffers, VideoCoreSends(b)
    PROVE  InTyped' /\ InLine'
<1>1. PICK k \in {"data", "eos", "empty"} :
          /\ toHost' = Append(toHost, [buffer |-> b, kind |-> k])
          /\ order' = IF k = "empty" THEN order ELSE Append(order, b)
  BY DEF VideoCoreSends
<1>2. UNCHANGED <<inited, awake, overtaken, receiving, broken>>
  BY DEF VideoCoreSends, service
<1> DEFINE m == [buffer |-> b, kind |-> k]
<1>3. m \in Message /\ m.buffer = b /\ m.kind = k
  BY DEF Message
<1> HIDE DEF m
<1>4. toHost' = Append(toHost, m) /\ order' = IF Told(m) THEN Append(order, m.buffer) ELSE order
  BY <1>1, <1>3 DEF Told, m
<1>5. toHost \in Seq(Message) /\ receiving \in Seq(Message) /\ order \in Seq(Buffers)
  BY DEF InTyped
<1>6. toHost' \in Seq(Message)
  BY <1>3, <1>4, <1>5
<1>7. Under \in Seq(Message) /\ Under' = Append(Under, m)
  <2>1. Under \in Seq(Message)
    BY <1>5, UnderWay DEF Under
  <2>2. Under' = receiving \o Append(toHost, m)
    BY <1>2, <1>4 DEF Under
  <2>3. receiving \o Append(toHost, m) = Append(receiving \o toHost, m)
    BY <1>3, <1>5
  <2> QED
    BY <2>1, <2>2, <2>3 DEF Under
<1>8. \A n \in 1 .. Len(Under) : Under[n].buffer # m.buffer
  <2>1. \A n \in 1 .. Len(toHost \o receiving) : (toHost \o receiving)[n].buffer # b
    <3>1. \A x \in ToSet(toHost \o receiving) : x.buffer # b
      BY DEF VideoCoreSends
    <3>2. toHost \o receiving \in Seq(Message)
      BY <1>5, UnderWay
    <3>3. \A n \in 1 .. Len(toHost \o receiving) : (toHost \o receiving)[n] \in ToSet(toHost \o receiving)
      BY <3>2 DEF ToSet
    <3> QED
      BY <3>1, <3>3
  <2>2. /\ \A n \in 1 .. Len(toHost) : toHost[n].buffer # b
        /\ \A n \in 1 .. Len(receiving) : receiving[n].buffer # b
    <3>1. /\ Len(toHost \o receiving) = Len(toHost) + Len(receiving)
          /\ Len(toHost) \in Nat /\ Len(receiving) \in Nat
          /\ \A i \in 1 .. Len(toHost) : (toHost \o receiving)[i] = toHost[i]
          /\ \A i \in 1 .. Len(receiving) : (toHost \o receiving)[Len(toHost) + i] = receiving[i]
      BY <1>5, UnderWay
    <3>2. /\ \A i \in 1 .. Len(toHost) : i \in 1 .. Len(toHost \o receiving)
          /\ \A i \in 1 .. Len(receiving) : Len(toHost) + i \in 1 .. Len(toHost \o receiving)
      BY <3>1
    <3> QED
      BY <2>1, <3>1, <3>2
  <2>3. /\ Len(Under) = Len(receiving) + Len(toHost)
        /\ Len(toHost) \in Nat /\ Len(receiving) \in Nat
        /\ \A i \in 1 .. Len(receiving) : Under[i] = receiving[i]
        /\ \A i \in 1 .. Len(toHost) : Under[Len(receiving) + i] = toHost[i]
    BY <1>5, UnderWay DEF Under
  <2>4. \A n \in 1 .. Len(Under) : \/ n \in 1 .. Len(receiving)
                                   \/ \E i \in 1 .. Len(toHost) : n = Len(receiving) + i
    <3> SUFFICES ASSUME NEW n \in 1 .. Len(Under), n \notin 1 .. Len(receiving)
                 PROVE  \E i \in 1 .. Len(toHost) : n = Len(receiving) + i
      OBVIOUS
    <3>1. n - Len(receiving) \in 1 .. Len(toHost) /\ n = Len(receiving) + (n - Len(receiving))
      BY <2>3
    <3> QED
      BY <3>1
  <2> QED
    BY <1>3, <2>2, <2>3, <2>4
<1>9. order' \in Seq(Buffers) /\ InStep(Under', order')
  <2>1. InStep(Under, order)
    BY DEF InLine
  <2> QED
    BY <1>3, <1>4, <1>5, <1>7, <1>8, <2>1, Sent
<1> QED
  BY <1>2, <1>5, <1>6, <1>9 DEF InTyped, InLine

\* What is handed over, from its place `p` under way.
LEMMA ReturnKeeps ==
    ASSUME InTyped, InLine, NEW p \in 1 .. Len(Under), Returns(Under[p]),
           NEW g, g \in Seq(Message), Len(g) = Len(Under) - 1,
           \A i \in 1 .. Len(g) : g[i] = Under[Skip(p, i)]
    PROVE  /\ order' \in Seq(Buffers) /\ InStep(g, order') /\ overtaken' \in BOOLEAN
           /\ p = 1 \/ ~Told(Under[p]) => overtaken' = overtaken
<1>1. Under \in Seq(Message) /\ order \in Seq(Buffers) /\ overtaken \in BOOLEAN
  <2>1. receiving \in Seq(Message) /\ toHost \in Seq(Message)
    BY DEF InTyped
  <2>2. Under \in Seq(Message)
    BY <2>1, UnderWay DEF Under
  <2> QED
    BY <2>2 DEF InTyped
<1>2. order' = RemoveFirst(order, Under[p].buffer)
  BY DEF Returns
<1>3. InStep(Under, order)
  BY DEF InLine
<1>4. order' \in Seq(Buffers) /\ InStep(g, order')
  BY <1>1, <1>2, <1>3, Taken
<1>5. overtaken' = (overtaken \/ (Told(Under[p]) /\ Under[p].buffer # Head(order)))
  BY DEF Returns, Told
<1>6. p = 1 /\ Told(Under[p]) => Under[p].buffer = Head(order)
  <2>1. Under # <<>>
    BY <1>1
  <2> QED
    BY <1>1, <1>3, <2>1, FirstIsNext
<1> QED
  BY <1>1, <1>4, <1>5, <1>6

\* The first message: its transfer starts, or it is handed over.
LEMMA ReceiveKeeps ==
    ASSUME InTyped, InLine, Receives
    PROVE  InTyped' /\ InLine'
<1> DEFINE m == Head(toHost)
           p == Len(receiving) + 1
           g == receiving \o Tail(toHost)
<1>1. toHost \in Seq(Message) /\ receiving \in Seq(Message) /\ toHost # <<>>
  BY DEF InTyped, Receives
<1>2. /\ m = toHost[1] /\ m \in Message /\ 1 \in 1 .. Len(toHost) /\ Len(toHost) \in Nat
      /\ Tail(toHost) \in Seq(Message) /\ Len(Tail(toHost)) = Len(toHost) - 1
      /\ \A i \in 1 .. Len(toHost) - 1 : Tail(toHost)[i] = toHost[i + 1]
  BY <1>1, Rest
<1>3. toHost' = Tail(toHost) /\ UNCHANGED <<inited, awake>>
  BY DEF Receives, service
<1>4. /\ Len(Under) = Len(receiving) + Len(toHost) /\ Len(receiving) \in Nat
      /\ \A i \in 1 .. Len(receiving) : Under[i] = receiving[i]
      /\ \A i \in 1 .. Len(toHost) : Under[Len(receiving) + i] = toHost[i]
  BY <1>1, UnderWay DEF Under
<1>5. p \in 1 .. Len(Under) /\ Under[p] = m
  BY <1>2, <1>4
<1>6. /\ g \in Seq(Message) /\ Len(g) = Len(receiving) + Len(Tail(toHost))
      /\ \A i \in 1 .. Len(receiving) : g[i] = receiving[i]
      /\ \A i \in 1 .. Len(Tail(toHost)) : g[Len(receiving) + i] = Tail(toHost)[i]
  BY <1>1, <1>2, UnderWay
<1> HIDE DEF m, p, g
<1>7. Transferred(m) <=> Told(m)
  BY <1>2 DEF Message, Transferred, Told
<1>8. ASSUME Returns(m), receiving' = receiving,
             \/ Transferred(m) /\ broken' = broken \cup {"receive"}
             \/ ~Transferred(m) /\ broken' = broken
      PROVE  InTyped' /\ InLine'
  <2>1. Len(g) = Len(Under) - 1
    BY <1>2, <1>4, <1>6
  <2>2. \A i \in 1 .. Len(g) : g[i] = Under[Skip(p, i)]
    <3> SUFFICES ASSUME NEW i \in 1 .. Len(g) PROVE g[i] = Under[Skip(p, i)]
      OBVIOUS
    <3>1. CASE i < p
      <4>1. i \in 1 .. Len(receiving) /\ Skip(p, i) = i
        BY <1>4, <1>6, <2>1, <3>1 DEF p, Skip
      <4> QED
        BY <1>4, <1>6, <4>1
    <3>2. CASE ~ i < p
      <4> DEFINE j == i - Len(receiving)
      <4>1. j \in 1 .. Len(toHost) - 1 /\ i = Len(receiving) + j /\ j + 1 \in 1 .. Len(toHost)
        BY <1>2, <1>4, <1>6, <3>2 DEF p
      <4>2. Skip(p, i) = Len(receiving) + (j + 1)
        BY <1>4, <3>2, <4>1 DEF p, Skip
      <4> HIDE DEF j
      <4> QED
        BY <1>2, <1>4, <1>6, <4>1, <4>2
    <3> QED
      BY <3>1, <3>2
  <2>3. Under' = g
    BY <1>3, <1>8 DEF Under, g
  <2>4. /\ order' \in Seq(Buffers) /\ InStep(g, order') /\ overtaken' \in BOOLEAN
        /\ ~Told(m) => overtaken' = overtaken
    BY <1>5, <1>6, <1>8, <2>1, <2>2, ReturnKeeps
  <2>5. InLine'
    BY <1>7, <1>8, <2>3, <2>4 DEF InLine
  <2> QED
    BY <1>2, <1>3, <1>8, <2>4, <2>5 DEF InTyped
<1>9. ASSUME Transferred(m), receiving' = Append(receiving, m), UNCHANGED <<order, overtaken, broken>>
      PROVE  InTyped' /\ InLine'
  <2>1. Under' = Under
    <3>1. toHost = <<m>> \o Tail(toHost)
      BY <1>1, <1>2
    <3>2. Append(receiving, m) = receiving \o <<m>> /\ <<m>> \in Seq(Message)
      BY <1>1, <1>2
    <3>3. (receiving \o <<m>>) \o Tail(toHost) = receiving \o (<<m>> \o Tail(toHost))
      BY <1>1, <1>2, <3>2, ConcatAssociative
    <3>4. Under' = Append(receiving, m) \o Tail(toHost)
      BY <1>3, <1>9 DEF Under
    <3> QED
      BY <3>1, <3>2, <3>3, <3>4 DEF Under
  <2>2. receiving' \in Seq(Message) /\ \A i \in 1 .. Len(receiving') : Told(receiving'[i])
    <3>1. /\ receiving' \in Seq(Message) /\ Len(receiving') = Len(receiving) + 1
          /\ \A i \in 1 .. Len(receiving) : receiving'[i] = receiving[i]
          /\ receiving'[Len(receiving) + 1] = m
      BY <1>1, <1>2, <1>9
    <3>2. \A i \in 1 .. Len(receiving) + 1 : i \in 1 .. Len(receiving) \/ i = Len(receiving) + 1
      BY <1>4
    <3>3. \A i \in 1 .. Len(receiving) : Told(receiving[i])
      BY DEF InTyped
    <3> QED
      BY <1>7, <1>9, <3>1, <3>2, <3>3
  <2> QED
    BY <1>2, <1>3, <1>9, <2>1, <2>2 DEF InTyped, InLine
<1>10. \/ Transferred(m) /\ receiving' = Append(receiving, m) /\ UNCHANGED <<order, overtaken, broken>>
       \/ Transferred(m) /\ Returns(m) /\ broken' = broken \cup {"receive"} /\ UNCHANGED receiving
       \/ ~Transferred(m) /\ Returns(m) /\ UNCHANGED <<receiving, broken>>
  BY DEF Receives, m
<1>11. CASE Transferred(m) /\ receiving' = Append(receiving, m) /\ UNCHANGED <<order, overtaken, broken>>
  BY <1>9, <1>11
<1>12. CASE Transferred(m) /\ Returns(m) /\ broken' = broken \cup {"receive"} /\ UNCHANGED receiving
  <2>1. receiving' = receiving
    BY <1>12
  <2> QED
    BY <1>8, <1>12, <2>1
<1>13. CASE ~Transferred(m) /\ Returns(m) /\ UNCHANGED <<receiving, broken>>
  <2>1. receiving' = receiving /\ broken' = broken
    BY <1>13
  <2> QED
    BY <1>8, <1>13, <2>1
<1> QED
  BY <1>10, <1>11, <1>12, <1>13

\* The transfer that started first is done.
LEMMA DoneKeeps ==
    ASSUME InTyped, InLine, BulkReceived
    PROVE  InTyped' /\ InLine'
<1> DEFINE g == Tail(receiving) \o toHost
<1>1. toHost \in Seq(Message) /\ receiving \in Seq(Message) /\ receiving # <<>>
  BY DEF InTyped, BulkReceived
<1>2. /\ Head(receiving) = receiving[1] /\ 1 \in 1 .. Len(receiving) /\ Len(receiving) \in Nat
      /\ Tail(receiving) \in Seq(Message) /\ Len(Tail(receiving)) = Len(receiving) - 1
      /\ \A i \in 1 .. Len(receiving) - 1 : Tail(receiving)[i] = receiving[i + 1]
  BY <1>1, Rest
<1>3. /\ receiving' = Tail(receiving) /\ Returns(Head(receiving))
      /\ UNCHANGED <<inited, awake, toHost, broken>>
  BY DEF BulkReceived, service
<1>4. /\ Len(Under) = Len(receiving) + Len(toHost) /\ Len(toHost) \in Nat
      /\ \A i \in 1 .. Len(receiving) : Under[i] = receiving[i]
      /\ \A i \in 1 .. Len(toHost) : Under[Len(receiving) + i] = toHost[i]
  BY <1>1, UnderWay DEF Under
<1>5. /\ g \in Seq(Message) /\ Len(g) = Len(Tail(receiving)) + Len(toHost)
      /\ \A i \in 1 .. Len(Tail(receiving)) : g[i] = Tail(receiving)[i]
      /\ \A i \in 1 .. Len(toHost) : g[Len(Tail(receiving)) + i] = toHost[i]
  BY <1>1, <1>2, UnderWay
<1> HIDE DEF g
<1>6. 1 \in 1 .. Len(Under) /\ Under[1] = Head(receiving)
  BY <1>2, <1>4
<1>7. Len(g) = Len(Under) - 1
  BY <1>2, <1>4, <1>5
<1>8. \A i \in 1 .. Len(g) : g[i] = Under[Skip(1, i)]
  <2> SUFFICES ASSUME NEW i \in 1 .. Len(g) PROVE g[i] = Under[i + 1]
    BY DEF Skip
  <2>1. CASE i <= Len(receiving) - 1
    <3>1. i \in 1 .. Len(receiving) - 1 /\ i + 1 \in 1 .. Len(receiving)
      BY <1>2, <1>4, <1>7, <2>1
    <3> QED
      BY <1>2, <1>4, <1>5, <3>1
  <2>2. CASE ~ i <= Len(receiving) - 1
    <3> DEFINE j == i - (Len(receiving) - 1)
    <3>1. j \in 1 .. Len(toHost) /\ i = (Len(receiving) - 1) + j /\ i + 1 = Len(receiving) + j
      BY <1>2, <1>4, <1>7, <2>2
    <3> HIDE DEF j
    <3> QED
      BY <1>2, <1>4, <1>5, <3>1
  <2> QED
    BY <2>1, <2>2
<1>9. Under' = g
  BY <1>3 DEF Under, g
<1>10. order' \in Seq(Buffers) /\ InStep(g, order') /\ overtaken' = overtaken
  BY <1>3, <1>5, <1>6, <1>7, <1>8, ReturnKeeps
<1>11. \A i \in 1 .. Len(Tail(receiving)) : Told(Tail(receiving)[i])
  <2>1. \A i \in 1 .. Len(receiving) : Told(receiving[i])
    BY DEF InTyped
  <2>2. \A i \in 1 .. Len(receiving) - 1 : i + 1 \in 1 .. Len(receiving)
    BY <1>2
  <2> QED
    BY <1>2, <2>1, <2>2
<1> QED
  BY <1>1, <1>2, <1>3, <1>9, <1>10, <1>11 DEF InTyped, InLine

\* The others leave it alone.
LEMMA OthersKeep ==
    ASSUME InTyped, InLine, NEW t \in Callers, Starts(t) \/ Continues(t)
    PROVE  InTyped' /\ InLine'
<1> USE DEF service, pool, thread, out, in
<1>1. UNCHANGED <<toHost, receiving, order, overtaken>>
  <2>1. ASSUME Starts(t) PROVE UNCHANGED <<toHost, receiving, order, overtaken>>
    BY <2>1 DEF Starts, InitClient, DeinitClient, CallStarts, SendStarts
  <2>2. ASSUME InitReleases(t) \/ TakesTicket(t) \/ FindsWaiter(t) \/ CallUses(t) \/ CallQueues(t)
        PROVE  UNCHANGED <<toHost, receiving, order, overtaken>>
    BY <2>2 DEF InitReleases, TakesTicket, FindsWaiter, CallUses, CallQueues
  <2>3. ASSUME CallTransmits(t) \/ CallWaits(t) \/ CallReleases(t) \/ CallEnds(t)
               \/ SendQueues(t) \/ SendTransmits(t)
        PROVE  UNCHANGED <<toHost, receiving, order, overtaken>>
    BY <2>3 DEF CallTransmits, CallWaits, CallReleases, CallEnds, SendQueues, SendTransmits, Transmits
  <2> QED
    BY <2>1, <2>2, <2>3 DEF Continues
<1>2. broken' \in {broken, broken \cup {"use"}, broken \cup {"bulk"}}
  <2>1. ASSUME Starts(t) PROVE broken' = broken
    BY <2>1 DEF Starts, InitClient, DeinitClient, CallStarts, SendStarts
  <2>2. ASSUME InitReleases(t) \/ TakesTicket(t) \/ FindsWaiter(t) \/ CallQueues(t)
               \/ CallWaits(t) \/ CallReleases(t) \/ CallEnds(t) \/ SendQueues(t)
        PROVE  broken' = broken
    BY <2>2 DEF InitReleases, TakesTicket, FindsWaiter, CallQueues, CallWaits, CallReleases,
       CallEnds, SendQueues
  <2>3. ASSUME CallUses(t) PROVE broken' = broken \/ broken' = broken \cup {"use"}
    BY <2>3 DEF CallUses, Uses
  <2>4. ASSUME CallTransmits(t) \/ SendTransmits(t)
        PROVE  broken' = broken \/ broken' = broken \cup {"bulk"}
    BY <2>4 DEF CallTransmits, SendTransmits, Transmits
  <2> QED
    BY <2>1, <2>2, <2>3, <2>4 DEF Continues
<1>3. {inited', awake'} \subseteq BOOLEAN
  <2>0. {inited, awake} \subseteq BOOLEAN
    BY DEF InTyped
  <2>1. ASSUME Starts(t) PROVE {inited', awake'} \subseteq BOOLEAN
    BY <2>0, <2>1 DEF Starts, InitClient, Opens, DeinitClient, CallStarts, SendStarts
  <2>2. ASSUME InitReleases(t) \/ TakesTicket(t) \/ FindsWaiter(t) \/ CallUses(t) \/ CallQueues(t)
        PROVE  {inited', awake'} \subseteq BOOLEAN
    BY <2>0, <2>2 DEF InitReleases, TakesTicket, FindsWaiter, CallUses, CallQueues, Uses, Releases
  <2>3. ASSUME CallTransmits(t) \/ CallWaits(t) \/ CallReleases(t) \/ CallEnds(t)
               \/ SendQueues(t) \/ SendTransmits(t)
        PROVE  {inited', awake'} \subseteq BOOLEAN
    BY <2>0, <2>3 DEF CallTransmits, CallWaits, CallReleases, CallEnds, SendQueues,
       SendTransmits, Transmits, Releases
  <2> QED
    BY <2>1, <2>2, <2>3 DEF Continues
<1>4. Under' = Under
  BY <1>1 DEF Under
<1>5. broken' \subseteq {"use", "bulk", "receive"} /\ ("receive" \in broken => "receive" \in broken')
  BY <1>2 DEF InTyped
<1>6. InTyped'
  BY <1>1, <1>3, <1>5 DEF InTyped
<1> QED
  BY <1>1, <1>4, <1>5, <1>6 DEF InLine

LEMMA AnswerKeeps ==
    ASSUME InTyped, InLine, Answers
    PROVE  InTyped' /\ InLine'
<1>1. UNCHANGED <<inited, awake, broken, toHost, receiving, order, overtaken>>
  BY DEF Answers, service, in
<1> QED
  BY <1>1 DEF InTyped, InLine, Under

LEMMA LineInvariant == Spec => [](InTyped /\ InLine)
<1>1. InTyped /\ InLine /\ [Next]_vars => (InTyped /\ InLine)'
  <2> SUFFICES ASSUME InTyped, InLine, [Next]_vars PROVE InTyped' /\ InLine'
    OBVIOUS
  <2>1. CASE UNCHANGED vars
    BY <2>1 DEF vars, service, in, InTyped, InLine, Under
  <2> QED
    BY <2>1, OthersKeep, SendKeeps, ReceiveKeeps, DoneKeeps, AnswerKeeps DEF Next, Vchiq
<1> QED
  BY <1>1, InTypedInit, PTL DEF Spec

\* mmal_vc_vchiq_callback hands the data over in order and the end of the stream
\* after all of it, for it transfers that too, until a transfer cannot start.
THEOREM StreamInOrder == Spec => []DataInOrder
<1>1. InLine => DataInOrder
  BY DEF InLine, DataInOrder
<1> QED
  BY <1>1, LineInvariant, PTL

\* Every variable keeps its type, for any number of threads, waiters and buffers.
THEOREM TypeCorrectness == Spec => []TypeOK
<1>1. IInv /\ InTyped => TypeOK
  <2> SUFFICES ASSUME IInv, InTyped PROVE TypeOK
    OBVIOUS
  <2>1. refcount \in 0 .. Cardinality(Callers)
    <3>1. Cardinality(Where(pc, Inside)) <= Cardinality(Callers) /\ Cardinality(Callers) \in Nat
      BY ClientAssumption, FS_Subset, FS_CardinalityType DEF Where
    <3> QED
      BY <3>1 DEF IInv, Typed, Counted
  <2>2. calls \in 0 .. MaxCalls
    BY ClientAssumption DEF IInv, Typed, Calls
  <2> QED
    BY <2>1, <2>2 DEF IInv, Typed, InTyped, TypeOK
<1> QED
  BY <1>1, Invariant, LineInvariant, PTL

---------------------------------------------------------------------------
(* Nobody waits for nothing.                                               *)

\* Whoever moves, the others keep their calls.
Alone(t) == \A u \in Callers \ {t} : pc'[u] = pc[u] /\ waiter'[u] = waiter[u] /\ dummy'[u] = dummy[u]

\* While the client is open, a waiter in use is in some call's use.
Owned == refcount > 0 => \A w \in inuse : \E t \in Where(pc, Holding) : waiter[t] = w

\* Whoever has the lock has a transfer ahead.
Spanned == \A t \in Callers : bulk_lock = t => Spans(pc[t], dummy[t])

\* A call that waits was answered, or VideoCore has a message that names its
\* waiter, though perhaps that of an earlier call.
Asked == \A t \in Where(pc, Wanting) :
    posted[waiter[t]] > 0 \/ \E r \in requests : r.waiter = waiter[t]

LEMMA OwnedKept == IInv /\ Owned /\ Next => Owned'
<1> SUFFICES ASSUME IInv, Owned, Next PROVE Owned'
  OBVIOUS
<1> USE DEF service, pool, thread, out, in, Goes
<1>0. Typed /\ Counted /\ Holders
  BY DEF IInv
<1>1. ASSUME NEW t \in Callers, Alone(t), inuse' = inuse, refcount' > 0 => refcount > 0,
             pc[t] \in Holding => pc'[t] \in Holding /\ waiter'[t] = waiter[t]
      PROVE  Owned'
  <2>1. \A u \in Where(pc, Holding) : u \in Where(pc', Holding) /\ waiter'[u] = waiter[u]
    BY <1>1 DEF Alone, Where
  <2> QED
    BY <1>1, <2>1 DEF Owned
<1>2. ASSUME NEW t \in Callers, InitClient(t) PROVE Owned'
  <2>1. CASE refcount = 0
    BY <1>0, <1>2, <2>1 DEF InitClient, Opens, Owned, Typed
  <2>2. CASE refcount # 0
    <3>1. Alone(t) /\ inuse' = inuse /\ refcount > 0 /\ pc[t] \notin Holding
      BY <1>0, <1>2, <2>2 DEF InitClient, Typed, Alone, Holding
    <3> QED
      BY <1>1, <3>1
  <2> QED
    BY <2>1, <2>2
<1>3. ASSUME NEW t \in Callers,
             \/ DeinitClient(t) \/ InitReleases(t) \/ SendStarts(t) \/ TakesTicket(t)
             \/ \E transfer \in BOOLEAN : CallStarts(t, transfer)
      PROVE  Owned'
  <2>1. Alone(t) /\ inuse' = inuse /\ (refcount' > 0 => refcount > 0) /\ pc[t] \notin Holding
    BY <1>0, <1>3 DEF DeinitClient, InitReleases, SendStarts, TakesTicket, CallStarts, Typed,
       Alone, Holding
  <2> QED
    BY <1>1, <2>1
<1>4. ASSUME NEW t \in Callers, FindsWaiter(t) PROVE Owned'
  <2>1. PICK w \in Waiters : inuse' = inuse \cup {w} /\ waiter' = [waiter EXCEPT ![t] = w]
    BY <1>4 DEF FindsWaiter
  <2>2. /\ pc[t] = "searches" /\ pc'[t] = "has" /\ waiter'[t] = w /\ refcount' = refcount
        /\ Alone(t)
    BY <1>0, <1>4, <2>1 DEF FindsWaiter, Typed, Alone
  <2>3. /\ \A u \in Where(pc, Holding) : u \in Where(pc', Holding) /\ waiter'[u] = waiter[u]
        /\ t \in Where(pc', Holding)
    BY <2>2 DEF Alone, Where, Holding
  <2> QED
    BY <2>1, <2>2, <2>3 DEF Owned
<1>5. ASSUME NEW t \in Callers,
             CallUses(t) \/ CallWaits(t) \/ CallReleases(t) \/ CallQueues(t)
      PROVE  Owned'
  <2>1. Alone(t) /\ inuse' = inuse /\ refcount' = refcount /\ pc'[t] \in Holding /\ waiter' = waiter
    BY <1>0, <1>5 DEF CallUses, CallWaits, CallReleases, CallQueues, Typed, Alone, Holding
  <2> QED
    BY <1>1, <2>1
<1>6. ASSUME NEW t \in Callers, CallTransmits(t) PROVE Owned'
  <2>1. Alone(t) /\ inuse' = inuse /\ refcount' = refcount /\ pc'[t] \in Holding /\ waiter' = waiter
    BY <1>0, <1>6 DEF CallTransmits, Transmits, Typed, Alone, Holding
  <2> QED
    BY <1>1, <2>1
<1>7. ASSUME NEW t \in Callers, SendQueues(t) \/ SendTransmits(t) PROVE Owned'
  <2>1. Alone(t) /\ inuse' = inuse /\ refcount' = refcount /\ pc[t] \notin Holding
    BY <1>0, <1>7 DEF SendQueues, SendTransmits, Transmits, Typed, Alone, Holding
  <2> QED
    BY <1>1, <2>1
<1>8. ASSUME NEW t \in Callers, CallEnds(t), pc[t] = "frees" PROVE Owned'
  <2>1. /\ pc'[t] = "posts" /\ inuse' = inuse \ {waiter[t]} /\ waiter' = waiter
        /\ refcount' = refcount /\ Alone(t)
    BY <1>0, <1>8 DEF CallEnds, FreesWaiter, Typed, Alone
  <2>2. \A u \in Where(pc, Holding) : u # t => u \in Where(pc', Holding)
    BY <2>1 DEF Alone, Where
  <2> QED
    BY <2>1, <2>2 DEF Owned
<1>9. ASSUME NEW t \in Callers, CallEnds(t), pc[t] = "posts" PROVE Owned'
  <2>1. /\ pc'[t] = "idle" /\ inuse' = inuse /\ refcount' = refcount
        /\ \A u \in Callers \ {t} : pc'[u] = pc[u]
    BY <1>0, <1>9 DEF CallEnds, FreesWaiter, Typed
  <2>2. Forgets(t)
    BY <1>9, <2>1 DEF CallEnds
  <2>3. Alone(t)
    BY <1>0, <2>1, <2>2 DEF Forgets, Typed, Alone
  <2> QED
    BY <1>1, <1>9, <2>1, <2>3 DEF Holding
<1>10. ASSUME Vchiq \/ \E b \in Buffers : VideoCoreSends(b) PROVE Owned'
  <2>1. UNCHANGED <<pc, waiter, inuse, refcount>>
    BY <1>10 DEF Vchiq, Answers, Receives, BulkReceived, VideoCoreSends
  <2> QED
    BY <2>1 DEF Owned, Where
<1> HIDE DEF service, pool, thread, out, in, Goes
<1>11. \A t \in Callers : CallEnds(t) => pc[t] = "frees" \/ pc[t] = "posts"
  BY DEF CallEnds, FreesWaiter
<1> QED
  BY <1>2, <1>3, <1>4, <1>5, <1>6, <1>7, <1>8, <1>9, <1>10, <1>11
     DEF Next, Starts, Continues

LEMMA SpannedKept == IInv /\ Spanned /\ Next => Spanned'
<1> SUFFICES ASSUME IInv, Spanned, Next PROVE Spanned'
  OBVIOUS
<1> USE DEF service, pool, thread, out, in, Goes
<1>0. Typed /\ Locked /\ NoOne \notin Callers
  BY ClientAssumption DEF IInv
<1> DEFINE Others(t) == \A u \in Callers \ {t} : pc'[u] = pc[u] /\ dummy'[u] = dummy[u]
<1>1. ASSUME NEW t \in Callers, Others(t),
             \/ bulk_lock' = bulk_lock /\ (Spans(pc[t], dummy[t]) => Spans(pc'[t], dummy'[t]))
             \/ bulk_lock' = t /\ Spans(pc'[t], dummy'[t])
             \/ bulk_lock' = NoOne
      PROVE  Spanned'
  BY <1>0, <1>1 DEF Spanned
<1>2. ASSUME NEW t \in Callers, NEW transfer \in BOOLEAN, CallStarts(t, transfer) PROVE Spanned'
  <2>1. /\ pc[t] = "idle" /\ pc'[t] = "wants" /\ dummy'[t] = transfer /\ Others(t)
        /\ bulk_lock' = IF transfer THEN t ELSE bulk_lock
    BY <1>0, <1>2 DEF CallStarts, Typed
  <2> QED
    BY <1>1, <2>1 DEF Spans
<1>3. ASSUME NEW t \in Callers, SendStarts(t) PROVE Spanned'
  <2>1. pc'[t] = "sends" /\ Others(t) /\ bulk_lock' = t
    BY <1>0, <1>3 DEF SendStarts, Typed
  <2> QED
    BY <1>1, <2>1 DEF Spans
<1>4. ASSUME NEW t \in Callers,
             \/ InitClient(t) \/ DeinitClient(t) \/ InitReleases(t) \/ CallWaits(t)
             \/ CallReleases(t)
      PROVE  Spanned'
  <2>1. /\ pc[t] \in {"out", "idle", "opened", "waits", "answered", "fails"}
        /\ Others(t) /\ bulk_lock' = bulk_lock
    BY <1>0, <1>4 DEF InitClient, DeinitClient, InitReleases, CallWaits, CallReleases, Typed
  <2> QED
    BY <1>1, <2>1 DEF Spans
<1>5. ASSUME NEW t \in Callers, TakesTicket(t) \/ FindsWaiter(t) \/ CallUses(t) PROVE Spanned'
  <2>1. /\ pc[t] \in {"wants", "searches", "has"} /\ pc'[t] \in {"searches", "has", "queues"}
        /\ Others(t) /\ dummy' = dummy /\ bulk_lock' = bulk_lock
    BY <1>0, <1>5 DEF TakesTicket, FindsWaiter, CallUses, Typed
  <2> QED
    BY <1>1, <2>1 DEF Spans
<1>6. ASSUME NEW t \in Callers, CallQueues(t) \/ SendQueues(t) PROVE Spanned'
  <2>1. /\ pc[t] \in {"queues", "sends"} /\ Others(t) /\ dummy' = dummy
        /\ \/ bulk_lock' = NoOne
           \/ bulk_lock' = bulk_lock /\ pc'[t] \in {"transmits", "follows"}
           \/ bulk_lock' = bulk_lock /\ pc[t] = "queues" /\ ~dummy[t]
    BY <1>0, <1>6 DEF CallQueues, SendQueues, Typed
  <2> QED
    BY <1>1, <2>1 DEF Spans
<1>7. ASSUME NEW t \in Callers, CallTransmits(t) \/ SendTransmits(t) PROVE Spanned'
  <2>1. Others(t) /\ bulk_lock' = NoOne
    BY <1>0, <1>7 DEF CallTransmits, SendTransmits, Transmits, Typed
  <2> QED
    BY <1>1, <2>1
<1>8. ASSUME NEW t \in Callers, CallEnds(t) PROVE Spanned'
  <2>1. /\ pc[t] \in {"frees", "posts"} /\ bulk_lock' = bulk_lock
        /\ \A u \in Callers \ {t} : pc'[u] = pc[u]
    BY <1>0, <1>8 DEF CallEnds, FreesWaiter, Typed
  <2>2. \A u \in Callers \ {t} : dummy'[u] = dummy[u]
    BY <1>0, <1>8 DEF CallEnds, Forgets, Typed
  <2> QED
    BY <1>1, <2>1, <2>2 DEF Spans
<1>9. ASSUME Vchiq \/ \E b \in Buffers : VideoCoreSends(b) PROVE Spanned'
  <2>1. UNCHANGED <<pc, dummy, bulk_lock>>
    BY <1>9 DEF Vchiq, Answers, Receives, BulkReceived, VideoCoreSends
  <2> QED
    BY <2>1 DEF Spanned
<1> HIDE DEF service, pool, thread, out, in, Goes
<1> QED
  BY <1>2, <1>3, <1>4, <1>5, <1>6, <1>7, <1>8, <1>9 DEF Next, Starts, Continues

LEMMA AskedKept == IInv /\ Asked /\ Next => Asked'
<1> SUFFICES ASSUME IInv, Asked, Next PROVE Asked'
  OBVIOUS
<1> USE DEF service, pool, thread, out, in, Goes
<1>0. Typed /\ Counted /\ Holders
  BY DEF IInv
<1>1. ASSUME NEW t \in Callers, Alone(t), pc'[t] \notin Wanting, UNCHANGED <<posted, requests>>
      PROVE  Asked'
  <2>1. \A u \in Where(pc', Wanting) : u \in Where(pc, Wanting) /\ waiter'[u] = waiter[u]
    BY <1>1 DEF Where, Alone
  <2> QED
    BY <1>1, <2>1 DEF Asked
<1>2. ASSUME NEW t \in Callers, InitClient(t) \/ DeinitClient(t) PROVE Asked'
  <2>1. Alone(t) /\ pc[t] \in {"out", "idle"} /\ pc'[t] \notin Wanting
    BY <1>0, <1>2 DEF InitClient, DeinitClient, Typed, Alone, Wanting
  <2>2. CASE UNCHANGED <<posted, requests>>
    BY <1>1, <2>1, <2>2
  <2>3. CASE ~UNCHANGED <<posted, requests>>
    <3>1. refcount = 0 \/ (refcount = 1 /\ pc[t] # "out")
      BY <1>2, <2>3 DEF InitClient, DeinitClient
    <3>2. \A u \in Callers \ {t} : pc[u] = "out"
      BY <1>0, <3>1, NobodyElse
    <3> QED
      BY <2>1, <3>2 DEF Asked, Where, Alone, Wanting
  <2> QED
    BY <2>2, <2>3
<1>3. ASSUME NEW t \in Callers,
             \/ InitReleases(t) \/ SendStarts(t) \/ TakesTicket(t) \/ FindsWaiter(t)
             \/ CallUses(t) \/ CallReleases(t) \/ \E transfer \in BOOLEAN : CallStarts(t, transfer)
      PROVE  Asked'
  <2>1. Alone(t) /\ pc'[t] \notin Wanting /\ UNCHANGED <<posted, requests>>
    BY <1>0, <1>3 DEF InitReleases, SendStarts, TakesTicket, FindsWaiter, CallUses, CallReleases,
       CallStarts, Typed, Alone, Wanting
  <2> QED
    BY <1>1, <2>1
<1>4. ASSUME NEW t \in Callers, CallQueues(t) PROVE Asked'
  <2>1. /\ Alone(t) /\ waiter' = waiter /\ posted' = posted
        /\ \/ requests' = requests \cup {[waiter |-> waiter[t], call |-> call[t]]}
           \/ requests' = requests /\ pc'[t] \notin Wanting
    BY <1>0, <1>4 DEF CallQueues, Typed, Alone, Wanting
  <2>2. \A u \in Where(pc', Wanting) : u = t \/ u \in Where(pc, Wanting)
    BY <2>1 DEF Where, Alone
  <2>3. CASE requests' = requests \cup {[waiter |-> waiter[t], call |-> call[t]]}
    <3> DEFINE m == [waiter |-> waiter[t], call |-> call[t]]
    <3>1. m \in requests' /\ m.waiter = waiter[t]
      BY <2>3
    <3> HIDE DEF m
    <3>2. \A r \in requests : r \in requests'
      BY <2>3
    <3> QED
      BY <2>1, <2>2, <3>1, <3>2 DEF Asked
  <2>4. CASE requests' = requests /\ pc'[t] \notin Wanting
    BY <1>1, <2>1, <2>4
  <2> QED
    BY <2>1, <2>3, <2>4
<1>5. ASSUME NEW t \in Callers, CallTransmits(t) PROVE Asked'
  <2>1. /\ Alone(t) /\ pc[t] = "transmits" /\ UNCHANGED <<waiter, posted, requests>>
    BY <1>0, <1>5 DEF CallTransmits, Transmits, Typed, Alone
  <2>2. \A u \in Where(pc', Wanting) : u \in Where(pc, Wanting)
    BY <2>1 DEF Where, Alone, Wanting
  <2> QED
    BY <2>1, <2>2 DEF Asked
<1>6. ASSUME NEW t \in Callers, SendQueues(t) \/ SendTransmits(t) PROVE Asked'
  <2>1. Alone(t) /\ pc'[t] \notin Wanting /\ UNCHANGED <<posted, requests>>
    BY <1>0, <1>6 DEF SendQueues, SendTransmits, Transmits, Typed, Alone, Wanting
  <2> QED
    BY <1>1, <2>1
<1>7. ASSUME NEW t \in Callers, CallWaits(t) PROVE Asked'
  <2>1. /\ Alone(t) /\ pc[t] = "waits" /\ pc'[t] \notin Wanting
        /\ UNCHANGED <<waiter, requests>>
        /\ posted' = [posted EXCEPT ![waiter[t]] = @ - 1]
    BY <1>0, <1>7 DEF CallWaits, Woken, Typed, Alone, Wanting
  <2>2. \A u \in Where(pc', Wanting) :
            u # t /\ u \in Where(pc, Wanting) /\ waiter[u] # waiter[t] /\ waiter[u] \in Waiters
    BY <1>0, <2>1 DEF Where, Alone, Holders, Holding, Wanting, Typed
  <2>3. \A u \in Where(pc', Wanting) : posted'[waiter[u]] = posted[waiter[u]]
    BY <1>0, <2>1, <2>2 DEF Typed
  <2> QED
    BY <2>1, <2>2, <2>3 DEF Asked
<1>8. ASSUME NEW t \in Callers, CallEnds(t) PROVE Asked'
  <2>1. /\ pc'[t] \notin Wanting /\ \A u \in Callers \ {t} : pc'[u] = pc[u]
        /\ UNCHANGED <<posted, requests>>
    BY <1>0, <1>8 DEF CallEnds, FreesWaiter, Typed, Wanting
  <2>2. \A u \in Callers \ {t} : waiter'[u] = waiter[u] /\ dummy'[u] = dummy[u]
    BY <1>0, <1>8 DEF CallEnds, Forgets, Typed
  <2> QED
    BY <1>1, <2>1, <2>2 DEF Alone
<1>9. ASSUME Answers PROVE Asked'
  <2>1. PICK r \in requests : /\ requests' = requests \ {r}
                              /\ posted' = [posted EXCEPT ![r.waiter] = @ + 1]
    BY <1>9 DEF Answers
  <2>2. UNCHANGED <<pc, waiter>> /\ r.waiter \in Waiters
    BY <1>0, <1>9 DEF Answers, Typed
  <2>3. \A u \in Where(pc, Wanting) : waiter[u] \in Waiters
    BY <1>0 DEF Holders, Typed, Where, Wanting, Holding
  <2>4. ASSUME NEW u \in Where(pc, Wanting)
        PROVE  posted'[waiter[u]] > 0 \/ \E q \in requests' : q.waiter = waiter[u]
    <3>1. CASE waiter[u] = r.waiter
      BY <1>0, <2>1, <2>2, <3>1 DEF Typed
    <3>2. CASE waiter[u] # r.waiter
      BY <1>0, <2>1, <2>2, <2>3, <3>2 DEF Asked, Typed
    <3> QED
      BY <3>1, <3>2
  <2> QED
    BY <2>2, <2>4 DEF Asked, Where
<1>10. ASSUME Receives \/ BulkReceived \/ \E b \in Buffers : VideoCoreSends(b) PROVE Asked'
  <2>1. UNCHANGED <<pc, waiter, posted, requests>>
    BY <1>10 DEF Receives, BulkReceived, VideoCoreSends
  <2> QED
    BY <2>1 DEF Asked, Where
<1> HIDE DEF service, pool, thread, out, in, Goes
<1> QED
  BY <1>2, <1>3, <1>4, <1>5, <1>6, <1>7, <1>8, <1>9, <1>10 DEF Next, Starts, Continues, Vchiq

\* A thread in a call need not wait, or what it waits for is there: a ticket
\* (TakesTicket), a waiter (FindsWaiter), its answer (CallWaits).
Ready(t) ==
    \/ pc[t] \in {"opened", "has", "queues", "transmits", "answered", "fails", "frees", "posts",
                  "sends", "follows"}
    \/ pc[t] = "wants" /\ sem > 0
    \/ pc[t] = "searches" /\ Waiters \ inuse # {}
    \/ pc[t] = "waits" /\ posted[waiter[t]] > 0

\* While a thread is in a call, or has bulk_lock, some thread can go on or
\* VideoCore has a message to answer: a call that waits for a ticket waits for
\* calls that come to an end, bulk_lock is never left behind, and a call whose
\* answer went elsewhere has another's to come.
NobodyStuck ==
    bulk_lock # NoOne \/ (\E t \in Callers : pc[t] \notin {"out", "idle"})
        => requests # {} \/ \E t \in Callers : Ready(t)

LEMMA SomeoneGoes == IInv /\ Owned /\ Spanned /\ Asked => NobodyStuck
<1> SUFFICES ASSUME IInv, Owned, Spanned, Asked, requests = {}, \A t \in Callers : ~Ready(t),
                    bulk_lock # NoOne \/ \E t \in Callers : pc[t] \notin {"out", "idle"}
             PROVE  FALSE
  BY DEF NobodyStuck
<1>0. Typed /\ Counted /\ Tickets
  BY DEF IInv
<1>1. PICK t \in Callers : pc[t] \notin {"out", "idle"}
  <2>1. CASE bulk_lock # NoOne
    <3>1. bulk_lock \in Callers /\ Spans(pc[bulk_lock], dummy[bulk_lock])
      BY <1>0, <2>1 DEF Typed, Spanned
    <3> QED
      BY <3>1 DEF Spans
  <2> QED
    BY <2>1
<1>2. \A u \in Callers : pc[u] # "waits"
  BY DEF Asked, Where, Wanting, Ready
<1>3. /\ Cardinality(Where(pc, {"searches"})) \in Nat
      /\ Cardinality(Where(pc, {"posts"})) \in Nat
      /\ IsFiniteSet(Waiters \ inuse) /\ Cardinality(Waiters \ inuse) \in Nat
  BY SomeCount, ClientAssumption, FS_Difference, FS_CardinalityType
<1>4. refcount > 0
  <2>1. t \in Where(pc, Inside)
    BY <1>0, <1>1 DEF Where, Inside, Typed
  <2>2. Cardinality(Where(pc, Inside)) # 0
    BY <2>1, CountZero
  <2> QED
    BY <1>0, <2>2 DEF Counted, Typed
<1>5. Waiters \ inuse # {}
  <2>1. PICK w \in Waiters : TRUE
    BY ClientAssumption
  <2>2. CASE w \in inuse
    <3>1. PICK u \in Where(pc, Holding) : waiter[u] = w
      BY <1>4, <2>2 DEF Owned
    <3> QED
      BY <1>2, <3>1 DEF Where, Holding, Ready
  <2> QED
    BY <2>1, <2>2
<1>6. Where(pc, {"searches"}) = {} /\ Where(pc, {"posts"}) = {}
  BY <1>5 DEF Where, Ready
<1>7. Cardinality(Where(pc, {"searches"})) = 0 /\ Cardinality(Where(pc, {"posts"})) = 0
  BY <1>6, CountZero
<1>8. Cardinality(Waiters \ inuse) # 0
  BY <1>3, <1>5, FS_EmptySet
<1>9. sem > 0
  BY <1>0, <1>3, <1>4, <1>7, <1>8 DEF Tickets, Typed
<1> QED
  BY <1>0, <1>1, <1>2, <1>5, <1>9 DEF Typed, Stages, Ready

\* However many threads share however few waiters, and whatever VCHIQ refuses,
\* the semaphores and the lock of mmal_vc_client.c never leave every call
\* waiting.
THEOREM CallsComeToAnEnd == Spec => []NobodyStuck
<1>1. Init => Owned /\ Spanned /\ Asked
  BY ClientAssumption DEF Init, Owned, Spanned, Asked, Where, Wanting
<1>2. IInv /\ Owned /\ Spanned /\ Asked /\ [Next]_vars => (Owned /\ Spanned /\ Asked)'
  <2> SUFFICES ASSUME IInv, Owned, Spanned, Asked, [Next]_vars PROVE (Owned /\ Spanned /\ Asked)'
    OBVIOUS
  <2>1. CASE UNCHANGED vars
    BY <2>1 DEF vars, service, pool, thread, out, Owned, Spanned, Asked, Where
  <2> QED
    BY <2>1, OwnedKept, SpannedKept, AskedKept
<1> QED
  BY <1>1, <1>2, SomeoneGoes, Invariant, PTL DEF Spec
=============================================================================
