----------------------------- MODULE MmalClient -----------------------------
(***************************************************************************)
(* The one channel of a process to the MMAL server on VideoCore            *)
(* (mmal_vc_client.c): the calls that wait for an answer, the buffers sent *)
(* with a bulk transfer, the buffers that come back, the count of users    *)
(* that keeps the service awake, and the making and closing of it all.     *)
(*                                                                         *)
(* VCHIQ keeps the order of messages and the order of bulk transfers, each *)
(* for itself; which message a transfer belongs to is its place among the  *)
(* messages that announce one.  The server answers in any order.           *)
(***************************************************************************)
EXTENDS Integers, FiniteSets, SequencesExt

CONSTANTS
    Callers,        \* threads of the process
    Waiters,        \* the waiters of the pool: MAX_WAITERS
    Buffers,        \* buffers that come back from VideoCore
    MaxCalls,       \* bound: calls and buffers sent
    NoOne           \* nobody; nothing

ASSUME ClientAssumption ==
    /\ Waiters # {} /\ IsFiniteSet(Waiters) /\ IsFiniteSet(Callers)
    /\ MaxCalls \in Nat
    /\ NoOne \notin Callers \cup Waiters

Calls == 1 .. MaxCalls

VARIABLES
    refcount, inited, usecount,
    awake,          \* the use of the service, as VCHIQ has it
    sem,            \* waitpool.sem
    inuse, dest,    \* of a waiter; dest is the call its answer is for
    posted,         \* sem of a waiter
    bulk_lock,
    pc, call, waiter, dummy,    \* of a thread, in a call
    answer,         \* what was written to the thread's reply
    calls,          \* calls so far
    requests,       \* messages with VideoCore that it will answer
    announced,      \* the calls whose message announces a transfer to come, in order
    toHost,         \* messages under way from VideoCore: a buffer each
    receiving,      \* those whose bulk transfer is under way
    order,          \* history: those to be transferred, as VideoCore sent them
    overtaken,      \* history: one was handed to its port before an earlier one
    broken          \* history: "use", "bulk", "receive": what VCHIQ has refused

service == <<refcount, inited, usecount, awake>>
pool    == <<sem, inuse, dest, posted>>
thread  == <<pc, call, waiter, dummy, answer, calls>>
out     == <<requests, announced>>
in      == <<toHost, receiving, order, overtaken>>
vars    == <<service, pool, bulk_lock, thread, out, in, broken>>

Init ==
    /\ refcount = 0 /\ inited = FALSE /\ usecount = 0 /\ awake = FALSE
    /\ sem = 0 /\ inuse = {} /\ dest = [w \in Waiters |-> NoOne]
    /\ posted = [w \in Waiters |-> 0] /\ bulk_lock = NoOne
    /\ pc = [t \in Callers |-> "out"] /\ call = [t \in Callers |-> 0]
    /\ waiter = [t \in Callers |-> NoOne] /\ dummy = [t \in Callers |-> FALSE]
    /\ answer = [t \in Callers |-> 0] /\ calls = 0
    /\ requests = {} /\ announced = <<>>
    /\ toHost = <<>> /\ receiving = <<>> /\ order = <<>> /\ overtaken = FALSE
    /\ broken = {}

Goes(t, where) == pc' = [pc EXCEPT ![t] = where]

---------------------------------------------------------------------------
(* mmal_vc_init and mmal_vc_deinit: once for each component a thread has.  *)

\* The first one opens the service, which counts as a use until it is done.
Opens ==
    /\ inited' = TRUE /\ usecount' = 1 /\ awake' = TRUE
    /\ sem' = Cardinality(Waiters) /\ inuse' = {} /\ posted' = [w \in Waiters |-> 0]

InitClient(t) ==
    /\ pc[t] = "out"
    /\ \/ /\ refcount = 0 /\ Opens /\ refcount' = 1 /\ Goes(t, "opened")
       \/ /\ refcount > 0 /\ refcount' = refcount + 1 /\ Goes(t, "idle")
          /\ UNCHANGED <<inited, usecount, awake, sem, inuse, posted>>
    /\ UNCHANGED <<dest, bulk_lock, call, waiter, dummy, answer, calls, out, in, broken>>

\* mmal_vc_deinit closes everything with the last component, whose ports have
\* been disabled: no buffer is under way (MmalPort).  What a failed call left
\* with VideoCore goes with the service.
DeinitClient(t) ==
    /\ pc[t] = "idle" /\ refcount' = refcount - 1 /\ Goes(t, "out")
    /\ \/ refcount > 1 /\ UNCHANGED <<inited, awake, out>>
       \/ /\ refcount = 1 /\ toHost = <<>> /\ receiving = <<>>
          /\ inited' = FALSE /\ awake' = FALSE /\ requests' = {} /\ announced' = <<>>
    /\ UNCHANGED <<usecount, pool, bulk_lock, call, waiter, dummy, answer, calls, in, broken>>

---------------------------------------------------------------------------
(* mmal_vc_use_internal and mmal_vc_release_internal: the first use wakes  *)
(* the service, the last lets it sleep; VCHIQ may refuse either.           *)

Uses ==
    \/ usecount > 0 /\ usecount' = usecount + 1 /\ UNCHANGED <<awake, broken>>
    \/ usecount = 0 /\ usecount' = 1 /\ awake' = TRUE /\ UNCHANGED broken
    \/ usecount = 0 /\ broken' = broken \cup {"use"} /\ UNCHANGED <<usecount, awake>>
    \/ usecount < 0 /\ usecount' = usecount + 1 /\ UNCHANGED <<awake, broken>>

\* Mutant: whoever is done lets the service sleep.
ReleasesAlways == usecount' = usecount - 1 /\ awake' = FALSE

Releases ==
    \/ usecount # 1 /\ usecount' = usecount - 1 /\ UNCHANGED awake
    \/ usecount = 1 /\ usecount' = 0 /\ awake' = FALSE
    \/ usecount = 1 /\ UNCHANGED <<usecount, awake>>         \* VCHIQ refuses

\* Init, outside its lock.
InitReleases(t) ==
    /\ pc[t] = "opened" /\ Releases /\ Goes(t, "idle")
    /\ UNCHANGED <<refcount, inited, pool, bulk_lock, call, waiter, dummy, answer, calls, out, in, broken>>

---------------------------------------------------------------------------
(* mmal_vc_sendwait_message.                                               *)

\* Mutant: a message that announces a transfer does not wait for the lock.
BulkUnlocked == TRUE

BulkFree == bulk_lock = NoOne

CallStarts(t, transfer) ==
    /\ pc[t] = "idle" /\ calls < MaxCalls
    /\ transfer => BulkFree
    /\ bulk_lock' = IF transfer THEN t ELSE bulk_lock
    /\ calls' = calls + 1 /\ call' = [call EXCEPT ![t] = calls + 1]
    /\ dummy' = [dummy EXCEPT ![t] = transfer]
    /\ Goes(t, "wants")
    /\ UNCHANGED <<service, pool, waiter, answer, out, in, broken>>

\* get_waiter: the semaphore counts the free ones, the lock is for the search.
TakesTicket(t) ==
    /\ pc[t] = "wants" /\ sem > 0 /\ sem' = sem - 1 /\ Goes(t, "searches")
    /\ UNCHANGED <<service, inuse, dest, posted, bulk_lock, call, waiter, dummy, answer, calls, out, in, broken>>

FindsWaiter(t) ==
    /\ pc[t] = "searches"
    /\ \E w \in Waiters \ inuse :
        /\ inuse' = inuse \cup {w} /\ dest' = [dest EXCEPT ![w] = call[t]]
        /\ waiter' = [waiter EXCEPT ![t] = w]
    /\ Goes(t, "has")
    /\ UNCHANGED <<service, sem, posted, bulk_lock, call, dummy, answer, calls, out, in, broken>>

\* The outcome of the use is not looked at.
CallUses(t) ==
    /\ pc[t] = "has" /\ Uses /\ Goes(t, "queues")
    /\ UNCHANGED <<refcount, inited, pool, bulk_lock, call, waiter, dummy, answer, calls, out, in>>

CallQueues(t) ==
    /\ pc[t] = "queues"
    /\ \/ /\ requests' = requests \cup {[waiter |-> waiter[t], call |-> call[t]]}
          /\ IF dummy[t] THEN announced' = Append(announced, call[t]) /\ Goes(t, "transmits")
             ELSE Goes(t, "waits") /\ UNCHANGED announced
          /\ UNCHANGED bulk_lock
       \/ /\ Goes(t, "fails") /\ UNCHANGED <<requests, announced>>
          /\ bulk_lock' = IF dummy[t] THEN NoOne ELSE bulk_lock
    /\ UNCHANGED <<service, pool, call, waiter, dummy, answer, calls, in, broken>>

\* The transfer that the message announced.  If it fails the call gives its
\* waiter up, although the message is with VideoCore.
Transmits(t, done, failed) ==
    /\ \/ announced' = Tail(announced) /\ Goes(t, done) /\ UNCHANGED broken
       \/ broken' = broken \cup {"bulk"} /\ Goes(t, failed) /\ UNCHANGED announced
    /\ bulk_lock' = NoOne
    /\ UNCHANGED <<service, pool, call, waiter, dummy, answer, calls, requests, in>>

CallTransmits(t) == pc[t] = "transmits" /\ Transmits(t, "waits", "fails")

\* Mutant: a wait leaves the semaphore up, like a flag.
WokenByFlag(w) == posted[w] > 0 /\ posted' = posted

Woken(w) == posted[w] > 0 /\ posted' = [posted EXCEPT ![w] = @ - 1]

CallWaits(t) ==
    /\ pc[t] = "waits" /\ Woken(waiter[t]) /\ Goes(t, "answered")
    /\ UNCHANGED <<service, sem, inuse, dest, bulk_lock, call, waiter, dummy, answer, calls, out, in, broken>>

CallReleases(t) ==
    /\ pc[t] \in {"answered", "fails"} /\ Releases /\ Goes(t, "frees")
    /\ UNCHANGED <<refcount, inited, pool, bulk_lock, call, waiter, dummy, answer, calls, out, in, broken>>

\* Mutant: the ticket is given back before the waiter.
TicketFirst(t) ==
    \/ pc[t] = "frees" /\ sem' = sem + 1 /\ Goes(t, "posts") /\ UNCHANGED inuse
    \/ pc[t] = "posts" /\ inuse' = inuse \ {waiter[t]} /\ Goes(t, "idle") /\ UNCHANGED sem

\* release_waiter, without a lock.
FreesWaiter(t) ==
    \/ pc[t] = "frees" /\ inuse' = inuse \ {waiter[t]} /\ Goes(t, "posts") /\ UNCHANGED sem
    \/ pc[t] = "posts" /\ sem' = sem + 1 /\ Goes(t, "idle") /\ UNCHANGED inuse

\* The call's variables are gone with it.
Forgets(t) ==
    /\ call' = [call EXCEPT ![t] = 0] /\ waiter' = [waiter EXCEPT ![t] = NoOne]
    /\ dummy' = [dummy EXCEPT ![t] = FALSE] /\ answer' = [answer EXCEPT ![t] = 0]

CallEnds(t) ==
    /\ FreesWaiter(t)
    /\ IF pc'[t] = "idle" THEN Forgets(t) ELSE UNCHANGED <<call, waiter, dummy, answer>>
    /\ UNCHANGED <<service, dest, posted, bulk_lock, calls, out, in, broken>>

---------------------------------------------------------------------------
(* mmal_vc_send_message, with a bulk transfer: a buffer with data.         *)

SendStarts(t) ==
    /\ pc[t] = "idle" /\ calls < MaxCalls /\ BulkFree /\ bulk_lock' = t
    /\ calls' = calls + 1 /\ call' = [call EXCEPT ![t] = calls + 1] /\ Goes(t, "sends")
    /\ UNCHANGED <<service, pool, waiter, dummy, answer, out, in, broken>>

SendQueues(t) ==
    /\ pc[t] = "sends"
    /\ \/ announced' = Append(announced, call[t]) /\ Goes(t, "follows") /\ UNCHANGED bulk_lock
       \/ bulk_lock' = NoOne /\ Goes(t, "idle") /\ UNCHANGED announced
    /\ UNCHANGED <<service, pool, call, waiter, dummy, answer, calls, requests, in, broken>>

SendTransmits(t) == pc[t] = "follows" /\ Transmits(t, "idle", "idle")

---------------------------------------------------------------------------
(* mmal_vc_vchiq_callback, on VCHIQ's thread.                              *)

\* An answer goes where the waiter it names points to now.
Answers ==
    \E r \in requests :
        /\ requests' = requests \ {r}
        /\ answer' = [t \in Callers |-> IF call[t] = dest[r.waiter] THEN r.call ELSE answer[t]]
        /\ posted' = [posted EXCEPT ![r.waiter] = @ + 1]
        /\ UNCHANGED <<service, sem, inuse, dest, bulk_lock, pc, call, waiter, dummy, calls, announced, in, broken>>

\* Mutant: without data there is nothing to transfer.
WithData(m) == m.kind = "data"

\* The end of the stream is transferred too, 8 bytes, to stay behind the data.
Transferred(m) == m.kind \in {"data", "eos"}

\* A buffer comes back with data, at the end of the stream without, or empty.
VideoCoreSends(b) ==
    /\ inited /\ \A m \in ToSet(toHost \o receiving) : m.buffer # b
    /\ \E k \in {"data", "eos", "empty"} :
        /\ toHost' = Append(toHost, [buffer |-> b, kind |-> k])
        /\ order' = IF k = "empty" THEN order ELSE Append(order, b)
    /\ UNCHANGED <<service, pool, bulk_lock, thread, out, receiving, overtaken, broken>>

Returns(m) ==
    /\ order' = RemoveFirst(order, m.buffer)
    /\ overtaken' = (overtaken \/ (m.kind # "empty" /\ m.buffer # Head(order)))

\* A transfer that does not fit, or cannot start, is left out.
Receives ==
    /\ toHost # <<>> /\ toHost' = Tail(toHost)
    /\ LET m == Head(toHost) IN
       \/ Transferred(m) /\ receiving' = Append(receiving, m) /\ UNCHANGED <<order, overtaken, broken>>
       \/ Transferred(m) /\ Returns(m) /\ broken' = broken \cup {"receive"} /\ UNCHANGED receiving
       \/ ~Transferred(m) /\ Returns(m) /\ UNCHANGED <<receiving, broken>>
    /\ UNCHANGED <<service, pool, bulk_lock, thread, out>>

\* Done or aborted, the buffer goes to its port.
BulkReceived ==
    /\ receiving # <<>> /\ receiving' = Tail(receiving) /\ Returns(Head(receiving))
    /\ UNCHANGED <<service, pool, bulk_lock, thread, out, toHost, broken>>

---------------------------------------------------------------------------
Continues(t) ==
    \/ InitReleases(t)
    \/ TakesTicket(t) \/ FindsWaiter(t) \/ CallUses(t) \/ CallQueues(t) \/ CallTransmits(t)
    \/ CallWaits(t) \/ CallReleases(t) \/ CallEnds(t)
    \/ SendQueues(t) \/ SendTransmits(t)

Starts(t) ==
    \/ InitClient(t) \/ DeinitClient(t)
    \/ \E transfer \in BOOLEAN : CallStarts(t, transfer)
    \/ SendStarts(t)

Vchiq == Answers \/ Receives \/ BulkReceived

Next ==
    \/ \E t \in Callers : Starts(t) \/ Continues(t)
    \/ Vchiq \/ \E b \in Buffers : VideoCoreSends(b)

Spec == Init /\ [][Next]_vars

---------------------------------------------------------------------------
\* Every variable keeps its type; usecount may go below 0, see Uses.
TypeOK ==
    /\ refcount \in 0 .. Cardinality(Callers) /\ {inited, awake, overtaken} \subseteq BOOLEAN
    /\ usecount \in Int /\ sem \in Nat /\ calls \in 0 .. MaxCalls
    /\ inuse \subseteq Waiters /\ dest \in [Waiters -> Calls \cup {NoOne}]
    /\ posted \in [Waiters -> Nat] /\ bulk_lock \in Callers \cup {NoOne}
    /\ call \in [Callers -> Calls \cup {0}] /\ answer \in [Callers -> Calls \cup {0}]
    /\ waiter \in [Callers -> Waiters \cup {NoOne}] /\ dummy \in [Callers -> BOOLEAN]
    /\ requests \subseteq [waiter : Waiters, call : Calls] /\ announced \in Seq(Calls)
    /\ order \in Seq(Buffers) /\ broken \subseteq {"use", "bulk", "receive"}

InCall == {t \in Callers : pc[t] \in {"has", "queues", "transmits", "waits", "answered", "fails", "frees"}}

\* A call that is told it was answered has the answer to its own message,
\* whatever other calls came and went and took its waiter before and after,
\* unless VCHIQ refused a transfer it had a message announced for.
AnswerIsOwn ==
    "bulk" \notin broken => \A t \in Callers : pc[t] = "answered" => answer[t] = call[t]

\* A ticket stands for a free waiter: the search never fails, and no two calls
\* share a waiter.
WaitersApart ==
    /\ \A t, u \in InCall : waiter[t] = waiter[u] => t = u
    /\ sem + Cardinality({t \in Callers : pc[t] = "searches"}) <= Cardinality(Waiters \ inuse)

\* VCHIQ matches transfers with messages by their order: when a thread queues
\* a transfer its message is the first that still wants one.
TransfersMatch ==
    "bulk" \notin broken =>
        \A t \in Callers : pc[t] \in {"transmits", "follows"} => Head(announced) = call[t]

\* The end of the stream comes after all the data, and the data in order, unless
\* a transfer could not start.
DataInOrder == overtaken => "receive" \in broken

\* While a call waits the service is awake, unless VCHIQ refused to wake it.
AwakeInCalls ==
    "use" \notin broken => \A t \in Callers : pc[t] \in {"queues", "transmits", "waits", "answered"} => awake
=============================================================================
