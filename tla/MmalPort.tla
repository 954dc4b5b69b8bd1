------------------------------ MODULE MmalPort ------------------------------
(***************************************************************************)
(* A port of a component that runs on VideoCore: the core's side of it     *)
(* (mmal_port.c), the component's action thread (mmal_component.c) and the *)
(* calls that go to VideoCore (mmal_vc_api.c).  Threads of the application *)
(* send headers, enable, disable, flush, pause and resume the port, in any *)
(* order; headers and events come back on VCHIQ's thread, which puts them  *)
(* on the component's queue, and the action thread calls the client.       *)
(*                                                                         *)
(* The core's three mutexes are sendLock, actLock and portLock (the        *)
(* connection lock and the port lock, which are taken together).           *)
(*                                                                         *)
(* Assumed: a send that fails has left no message with VideoCore.  The     *)
(* client may queue the message and then fail to transfer the payload      *)
(* (mmal_vc_client.c:664, "things will go wrong"); what that does to other *)
(* calls is in MmalClient, that the header may come back is left out.      *)
(***************************************************************************)
EXTENDS Integers, FiniteSets, SequencesExt

CONSTANTS
    Headers,        \* the client's buffer headers
    Events,         \* the headers of the component's event pool
    Senders,        \* threads that only send
    Controls,       \* threads that enable, disable, flush, pause and resume
    Action,         \* the component's action thread
    Contexts,       \* buffer_num: how many headers VideoCore can have
    NoOne           \* nobody; nothing

ASSUME PortAssumption ==
    /\ IsFiniteSet(Headers) /\ IsFiniteSet(Senders) /\ IsFiniteSet(Controls)
    /\ Contexts \in Nat \ {0}
    /\ Headers \cap Events = {} /\ NoOne \notin Headers \cup Events
    /\ Senders \cap Controls = {} /\ Action \notin Senders \cup Controls
    /\ NoOne \notin Senders \cup Controls \cup {Action}

Callers == Controls \cup {Action}       \* the threads that call the client
Threads == Callers \cup Senders

VARIABLES
    enabled,        \* is_enabled
    paused,         \* is_paused
    callback,       \* buffer_header_callback is set
    transit,        \* transit_buffer_headers
    queue,          \* queue_first: what came in while the port was paused
    hasPool,        \* has_pool: set by an enable, cleared by a disable
    eventsReady,    \* event_ctx_initialised
    away,           \* the headers VideoCore has, each with a context
    back,           \* callback_queue
    signalled,      \* action_event
    sendLock, actLock, portLock,
    pc,             \* where a caller is in its own code
    call,           \* where a thread is in a send or in a call of the client
    item,           \* the header it has there
    list,           \* the queue a caller has detached to give back
    spoilt          \* history: a disable has failed

locks == <<sendLock, actLock, portLock>>
state == <<enabled, paused, callback, hasPool, eventsReady>>
vc    == <<away, back, signalled>>
stage == <<pc, list>>
calls == <<call, item>>
vars  == <<state, transit, queue, vc, locks, stage, calls, spoilt>>

Init ==
    /\ enabled = FALSE /\ paused = FALSE /\ callback = FALSE
    /\ hasPool = FALSE /\ eventsReady = FALSE
    /\ transit = 0 /\ queue = <<>>
    /\ away = {} /\ back = <<>> /\ signalled = FALSE
    /\ sendLock = NoOne /\ actLock = NoOne /\ portLock = NoOne
    /\ pc = [c \in Callers |-> "idle"] /\ list = [c \in Callers |-> <<>>]
    /\ call = [t \in Threads |-> "none"] /\ item = [t \in Threads |-> NoOne]
    /\ spoilt = FALSE

\* A header is with the port from the send that takes it until the client's
\* callback has it.
Lent ==
    UNION {away, ToSet(queue), ToSet(back) \cap Headers,
           UNION {ToSet(list[c]) : c \in Callers},
           {item[t] : t \in {u \in Threads : call[u] = "hand"}}}

Free(e) == e \notin ToSet(back) /\ \A t \in Threads : item[t] # e

At(t, where, what) ==
    call' = [call EXCEPT ![t] = where] /\ item' = [item EXCEPT ![t] = what]

Goes(c, where) == pc' = [pc EXCEPT ![c] = where]

---------------------------------------------------------------------------
(* mmal_port_send_buffer and mmal_vc_port_send.                            *)

\* Under the lock: a header is counted before it is handed on.
Accepts(t, h) ==
    /\ enabled
    /\ transit' = transit + 1 /\ sendLock' = t /\ At(t, "hand", h)

Send(s, h) ==
    /\ call[s] = "none" /\ h \notin Lent
    /\ \A t \in Threads : item[t] # h
    /\ sendLock = NoOne
    /\ Accepts(s, h)
    /\ UNCHANGED <<state, queue, vc, actLock, portLock, stage, spoilt>>

\* After a send the sender is done; a client that sent from its callback
\* returns to the core.
Returns(t) ==
    IF t \in Senders THEN At(t, "none", NoOne) ELSE At(t, "count", NoOne)

\* A context is taken and the message goes out; this can fail.
ToVideoCore(h) == hasPool /\ Cardinality(away) < Contexts /\ away' = away \cup {h}

\* Mutant: a failed send stays counted.
KeepsCount == transit' = transit

SendFails == transit' = transit - 1

Hand(t) ==
    /\ call[t] = "hand"
    /\ \/ paused /\ queue' = Append(queue, item[t]) /\ UNCHANGED <<away, transit>>
       \/ ~paused /\ ToVideoCore(item[t]) /\ UNCHANGED <<queue, transit>>
       \/ ~paused /\ SendFails /\ UNCHANGED <<queue, away>>
    /\ sendLock' = NoOne /\ Returns(t)
    /\ UNCHANGED <<state, back, signalled, actLock, portLock, stage, spoilt>>

---------------------------------------------------------------------------
(* VideoCore returns a header or sends an event, on VCHIQ's thread.        *)

Triggers == signalled' = TRUE

ComesBack(h) ==
    /\ h \in away /\ away' = away \ {h}
    /\ back' = Append(back, h) /\ Triggers
    /\ UNCHANGED <<state, transit, queue, locks, stage, calls, spoilt>>

Event(e) ==
    /\ eventsReady /\ Free(e)
    /\ back' = Append(back, e) /\ Triggers
    /\ UNCHANGED <<state, transit, queue, away, locks, stage, calls, spoilt>>

---------------------------------------------------------------------------
(* The action thread, and mmal_vc_do_callback, which a disable runs too.   *)

Wakes ==
    /\ pc[Action] = "idle" /\ signalled /\ signalled' = FALSE
    /\ Goes(Action, "woken")
    /\ UNCHANGED <<state, transit, queue, away, back, locks, list, calls, spoilt>>

Locks ==
    /\ pc[Action] = "woken" /\ actLock = NoOne /\ actLock' = Action
    /\ Goes(Action, "drains")
    /\ UNCHANGED <<state, transit, queue, vc, sendLock, portLock, list, calls, spoilt>>

\* mmal_port_buffer_header_callback calls the client, who keeps the header or
\* sends it again from there.
CallsClient(c, h) == At(c, "count", NoOne) \/ At(c, "resend", h)

\* mmal_port_event_send tests the callback and then calls it.
TakesBack(c) ==
    /\ pc[c] \in {"drains", "salvages"} /\ call[c] = "none" /\ back # <<>>
    /\ back' = Tail(back)
    /\ \/ Head(back) \in Headers /\ CallsClient(c, Head(back))
       \/ Head(back) \in Events /\ callback /\ At(c, "event", Head(back))
       \/ Head(back) \in Events /\ ~callback /\ UNCHANGED calls     \* event lost
    /\ UNCHANGED <<state, transit, queue, away, signalled, locks, stage, spoilt>>

Unlocks ==
    /\ pc[Action] = "drains" /\ call[Action] = "none" /\ back = <<>>
    /\ actLock' = NoOne /\ Goes(Action, "idle")
    /\ UNCHANGED <<state, transit, queue, vc, sendLock, portLock, list, calls, spoilt>>

CallsForEvent(c) ==
    /\ call[c] = "event" /\ At(c, "none", NoOne)
    /\ UNCHANGED <<state, transit, queue, vc, locks, stage, spoilt>>

Resends(c) ==
    /\ call[c] = "resend" /\ sendLock = NoOne
    /\ \/ Accepts(c, item[c])
       \/ ~enabled /\ At(c, "count", NoOne) /\ UNCHANGED <<transit, sendLock>>
    /\ UNCHANGED <<state, queue, vc, actLock, portLock, stage, spoilt>>

Counts(c) ==
    /\ call[c] = "count" /\ transit' = transit - 1 /\ At(c, "none", NoOne)
    /\ UNCHANGED <<state, queue, vc, locks, stage, spoilt>>

\* The headers of a detached queue go back through the same callback.
GivesBack(c) ==
    /\ pc[c] \in {"returns", "empties"} /\ call[c] = "none" /\ list[c] # <<>>
    /\ CallsClient(c, Head(list[c])) /\ list' = [list EXCEPT ![c] = Tail(@)]
    /\ UNCHANGED <<state, transit, queue, vc, locks, pc, spoilt>>

---------------------------------------------------------------------------
(* mmal_port_enable and mmal_vc_port_enable.                               *)

EnableStarts(c) ==
    /\ pc[c] = "idle" /\ portLock = NoOne /\ ~enabled
    /\ portLock' = c /\ callback' = TRUE /\ eventsReady' = TRUE /\ hasPool' = TRUE
    /\ Goes(c, "enables")
    /\ UNCHANGED <<enabled, paused, transit, queue, vc, sendLock, actLock, list, calls, spoilt>>

\* VideoCore enables it or not; a failure leaves the callback set.
EnableEnds(c) ==
    /\ pc[c] = "enables"
    /\ \/ sendLock = NoOne /\ enabled' = TRUE
       \/ UNCHANGED enabled
    /\ portLock' = NoOne /\ Goes(c, "idle")
    /\ UNCHANGED <<paused, callback, hasPool, eventsReady, transit, queue, vc, sendLock, actLock, list, calls, spoilt>>

---------------------------------------------------------------------------
(* mmal_port_disable and mmal_vc_port_disable.                             *)

DisableStarts(c) ==
    /\ pc[c] = "idle" /\ portLock = NoOne /\ enabled
    /\ portLock' = c /\ Goes(c, "refuses")
    /\ UNCHANGED <<state, transit, queue, vc, sendLock, actLock, list, calls, spoilt>>

DisableRefuses(c) ==
    /\ pc[c] = "refuses" /\ sendLock = NoOne /\ enabled' = FALSE
    /\ Goes(c, "locks")
    /\ UNCHANGED <<paused, callback, hasPool, eventsReady, transit, queue, vc, locks, list, calls, spoilt>>

\* Mutant: the pool is deleted before VideoCore is asked.
DeletesPool == hasPool' = FALSE

KeepsPool == UNCHANGED hasPool

DisableLocks(c) ==
    /\ pc[c] = "locks" /\ actLock = NoOne /\ actLock' = c
    /\ KeepsPool /\ Goes(c, "tells")
    /\ UNCHANGED <<enabled, paused, callback, eventsReady, transit, queue, vc, sendLock, portLock, list, calls, spoilt>>

\* VideoCore answers when it has returned all it had.  If the message cannot be
\* sent, or VideoCore refuses, the pool of contexts is deleted all the same.
DisableTells(c) ==
    /\ pc[c] = "tells"
    /\ \/ away = {} /\ Goes(c, "drains") /\ UNCHANGED spoilt
       \/ Goes(c, "salvages") /\ spoilt' = TRUE
    /\ hasPool' = FALSE
    /\ UNCHANGED <<enabled, paused, callback, eventsReady, transit, queue, vc, locks, list, calls>>

\* The component's queue is drained under the action lock.  Then the port's own
\* queue is detached (nobody else looks at it: the port is disabled).
DisableDrained(c) ==
    /\ pc[c] \in {"drains", "salvages"} /\ c \in Controls
    /\ call[c] = "none" /\ back = <<>> /\ actLock' = NoOne
    /\ IF pc[c] = "drains"
       THEN Goes(c, "empties") /\ list' = [list EXCEPT ![c] = queue] /\ queue' = <<>>
       ELSE Goes(c, "reopens") /\ UNCHANGED <<list, queue>>
    /\ UNCHANGED <<state, transit, vc, sendLock, portLock, calls, spoilt>>

DisableFails(c) ==
    /\ pc[c] = "reopens" /\ sendLock = NoOne /\ enabled' = TRUE
    /\ portLock' = NoOne /\ Goes(c, "idle")
    /\ UNCHANGED <<paused, callback, hasPool, eventsReady, transit, queue, vc, sendLock, actLock, list, calls, spoilt>>

\* Mutant: the disable does not wait for what is on its way.
WaitsForNothing == TRUE

NoneInTransit == transit = 0

DisableEnds(c) ==
    /\ pc[c] = "empties" /\ call[c] = "none" /\ list[c] = <<>> /\ NoneInTransit
    /\ callback' = FALSE /\ portLock' = NoOne /\ Goes(c, "idle")
    /\ UNCHANGED <<enabled, paused, hasPool, eventsReady, transit, queue, vc, sendLock, actLock, list, calls, spoilt>>

---------------------------------------------------------------------------
(* mmal_port_flush, and mmal_vc_port_flush.                                *)

\* The action lock before the sending lock, which the action thread takes when
\* a client sends from its callback.
FlushBegins(c) ==
    /\ \/ /\ pc[c] = "idle" /\ actLock = NoOne /\ actLock' = c
          /\ Goes(c, "half") /\ UNCHANGED sendLock
       \/ /\ pc[c] = "half" /\ sendLock = NoOne /\ sendLock' = c
          /\ Goes(c, "locked") /\ UNCHANGED actLock
    /\ UNCHANGED <<state, transit, queue, vc, portLock, list, calls, spoilt>>

\* VideoCore returns all it has and answers; or the flush fails.  A disabled
\* port has nothing to flush.
FlushTells(c) ==
    /\ pc[c] = "locked"
    /\ \/ /\ enabled /\ away = {}
          /\ list' = [list EXCEPT ![c] = queue] /\ queue' = <<>> /\ Goes(c, "returns")
       \/ Goes(c, "idle") /\ UNCHANGED <<list, queue>>
    /\ sendLock' = NoOne /\ actLock' = NoOne
    /\ UNCHANGED <<state, transit, vc, portLock, calls, spoilt>>

FlushEnds(c) ==
    /\ pc[c] = "returns" /\ call[c] = "none" /\ list[c] = <<>>
    /\ Goes(c, "idle")
    /\ UNCHANGED <<state, transit, queue, vc, locks, list, calls, spoilt>>

---------------------------------------------------------------------------
(* mmal_port_pause, as mmal_component_disable and mmal_component_enable    *)
(* call it when the component leaves that to the core.  (A component on    *)
(* VideoCore may at a disable, and never does at an enable, where          *)
(* mmal_vc_component_enable takes "not supported" for success.)            *)

Pause(c) ==
    /\ pc[c] = "idle" /\ sendLock = NoOne /\ ~paused /\ paused' = TRUE
    /\ UNCHANGED <<enabled, callback, hasPool, eventsReady, transit, queue, vc, locks, stage, calls, spoilt>>

\* A disabled port only stops being paused.
Resume(c) ==
    /\ pc[c] = "idle" /\ sendLock = NoOne /\ paused
    /\ \/ enabled /\ sendLock' = c /\ Goes(c, "resumes") /\ UNCHANGED paused
       \/ ~enabled /\ paused' = FALSE /\ UNCHANGED <<sendLock, pc>>
    /\ UNCHANGED <<enabled, callback, hasPool, eventsReady, transit, queue, vc, actLock, portLock, list, calls, spoilt>>

ResumeSends(c) ==
    /\ pc[c] = "resumes" /\ queue # <<>>
    /\ ToVideoCore(Head(queue)) /\ queue' = Tail(queue)
    /\ UNCHANGED <<state, transit, back, signalled, locks, stage, calls, spoilt>>

\* Mutant: the port is unpaused although a header is left in the queue.
UnpausesAnyway == paused' = FALSE

\* When a send fails, the rest stays in the queue and the port paused.
StaysPaused == UNCHANGED paused

ResumeEnds(c) ==
    /\ pc[c] = "resumes"
    /\ \/ queue = <<>> /\ paused' = FALSE
       \/ queue # <<>> /\ StaysPaused
    /\ sendLock' = NoOne /\ Goes(c, "idle")
    /\ UNCHANGED <<enabled, callback, hasPool, eventsReady, transit, queue, vc, actLock, portLock, list, calls, spoilt>>

---------------------------------------------------------------------------
\* What a caller does while it calls the client.
Calls(c) ==
    \/ TakesBack(c) \/ CallsForEvent(c) \/ GivesBack(c)
    \/ Resends(c) \/ Hand(c) \/ Counts(c)

ActionThread == Wakes \/ Locks \/ Unlocks \/ Calls(Action)

\* The steps of a control call under way.
Continues(c) ==
    \/ EnableEnds(c)
    \/ DisableRefuses(c) \/ DisableLocks(c) \/ DisableTells(c) \/ DisableDrained(c)
    \/ DisableFails(c) \/ DisableEnds(c)
    \/ (pc[c] = "half" /\ FlushBegins(c)) \/ FlushTells(c) \/ FlushEnds(c)
    \/ ResumeSends(c) \/ ResumeEnds(c)
    \/ Calls(c)

Starts(c) ==
    \/ EnableStarts(c) \/ DisableStarts(c) \/ (pc[c] = "idle" /\ FlushBegins(c))
    \/ Pause(c) \/ Resume(c)

\* Whoever drains the component's queue, which takes the action lock, is done.
Drained == Unlocks \/ \E c \in Controls : DisableDrained(c)

VideoCore == \E h \in Headers : ComesBack(h)

Next ==
    \/ \E s \in Senders : Hand(s) \/ \E h \in Headers : Send(s, h)
    \/ VideoCore \/ \E e \in Events : Event(e)
    \/ ActionThread
    \/ \E c \in Controls : Starts(c) \/ Continues(c)

Spec == Init /\ [][Next]_vars

\* Every thread finishes what it has begun and gets a mutex that is free again
\* and again; VideoCore returns what it has; and its events leave the
\* component's queue empty now and then, so that who drains it comes to an end.
FairSpec ==
    /\ Spec
    /\ WF_vars(VideoCore)
    /\ \A s \in Senders : WF_vars(Hand(s))
    /\ SF_vars(ActionThread) /\ \A c \in Controls : SF_vars(Continues(c))
    /\ SF_vars(Drained)

---------------------------------------------------------------------------
(* Properties.                                                             *)

\* Every variable keeps its type; the count of headers is never negative.
TypeOK ==
    /\ {enabled, paused, callback, hasPool, eventsReady, signalled, spoilt} \subseteq BOOLEAN
    /\ transit \in Nat /\ queue \in Seq(Headers) /\ back \in Seq(Headers \cup Events)
    /\ away \subseteq Headers
    /\ sendLock \in Threads \cup {NoOne}
    /\ actLock \in Callers \cup {NoOne} /\ portLock \in Controls \cup {NoOne}
    /\ list \in [Callers -> Seq(Headers)]
    /\ item \in [Threads -> Headers \cup Events \cup {NoOne}]

\* Calls of the client under way.
Returning ==
    {t \in Threads : call[t] \in {"resend", "count"} \/ (call[t] = "hand" /\ t \notin Senders)}

\* transit_buffer_headers counts each header the port has, wherever it is, and
\* each call of the client that has not returned; no header is in two places.
\* mmal_port_disable's wait stands on this count.
TransitCounts ==
    transit = Cardinality(Lent) + Cardinality(Returning)

\* What a header needs on its way back stays in place: the client's callback,
\* which mmal_port_buffer_header_callback calls without looking, and for what
\* VideoCore has the pool of contexts.  Only a disable that fails deletes the
\* pool early, and leaves the port enabled without it.
WayBackStands ==
    /\ Lent # {} => callback
    /\ away # {} => hasPool \/ spoilt

\* VideoCore gets the headers in the order in which the client sent them,
\* through pauses, resumes that fail half way, and flushes: none overtakes the
\* queue.
NoneOvertakes ==
    [][\A h \in away' \ away : queue = <<>> \/ h = Head(queue)]_vars

\* An enable or a disable ends, whatever the other threads and the client's
\* callbacks do; a disable waits for the port's headers, and for the action
\* thread, which the flush of another thread may keep waiting in turn.
DisableReturns == portLock # NoOne ~> portLock = NoOne

\* Where the port stands for its client.
Stage ==
    IF enabled THEN "open"
    ELSE IF \E c \in Controls : pc[c] \in {"locks", "tells", "drains", "salvages", "reopens", "empties"}
    THEN "closing" ELSE "closed"

Loan == INSTANCE PortLoan WITH state <- Stage, lent <- Lent

\* The port implements the loan: what it lends out comes back once each, and a
\* disable that succeeds leaves it with none.
ImplementsLoan == Loan!Spec

=============================================================================
