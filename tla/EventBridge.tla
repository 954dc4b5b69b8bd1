---------------------------- MODULE EventBridge ----------------------------
(***************************************************************************)
(* How a SAVE, a goal or its scorer gets from the ball analysis to the web *)
(* clients.  analysis_send_to_server opens a FIFO without blocking, writes *)
(* one line and closes it, for every message.  The server's read thread    *)
(* opens the FIFO, reads lines until the end of the file, opens it again,  *)
(* and sends each line to all clients.  One thread per client greets,      *)
(* listens and cleans up, and changes the list of clients the read thread  *)
(* walks through; no lock protects that list.                              *)
(*                                                                         *)
(* A message is its number.  The FIFO is the kernel's: a reader waiting in *)
(* open already counts as a reader, and goes on as soon as a writer opens; *)
(* a read finds the end of the file when it is empty and nobody writes.    *)
(***************************************************************************)
EXTENDS Naturals, Sequences, FiniteSets, SequencesExt

CONSTANTS
    Clients,    \* the connections made, each once
    Reader,     \* the read thread
    None,       \* nobody
    PipeSize,   \* messages the FIFO holds
    MaxSaid     \* bound: messages said

ASSUME BridgeAssumption ==
    /\ IsFiniteSet(Clients) /\ Reader \notin Clients /\ None \notin Clients
    /\ PipeSize \in Nat \ {0} /\ MaxSaid \in Nat

VARIABLES
    said,       \* messages the analysis has said
    wpc,        \* the tracker within analysis_send_to_server
    pipe,       \* messages in the FIFO
    log,        \* history: every message that got into it
    rpc,        \* where the read thread is
    again,      \* the read thread still has the FIFO open from last time
    lines,      \* lines read, the first of them being sent
    clients,    \* the server's list
    conn,       \* each client's connection
    hpc,        \* where each client's thread is
    idx, to,    \* each thread's place in the list, and whom it sends to
    heard,      \* messages that reached each client
    audience,   \* history: who was listed when the sending of a line began ...
    moved       \* ... and whether a client was taken off the list since

writer  == <<said, wpc, log>>
reader  == <<rpc, again, lines, audience>>
threads == <<conn, hpc, clients>>
vars == <<said, wpc, pipe, log, rpc, again, lines, clients, conn, hpc, idx, to,
          heard, audience, moved>>

Threads == Clients \cup {Reader}

Init ==
    /\ said = 0 /\ wpc = "idle" /\ pipe = <<>> /\ log = <<>>
    /\ rpc = "open" /\ again = FALSE /\ lines = <<>>
    /\ clients = <<>>
    /\ conn = [c \in Clients |-> "none"] /\ hpc = [c \in Clients |-> "out"]
    /\ idx = [t \in Threads |-> 1] /\ to = [t \in Threads |-> None]
    /\ heard = [c \in Clients |-> <<>>]
    /\ audience = {} /\ moved = FALSE

Writing == wpc \in {"write", "close"}
Reading == rpc # "dead" /\ (again \/ rpc # "open")

---------------------------------------------------------------------------
(* The tracker: analysis_send_to_server.                                   *)

\* Without a reader the open fails and the message is dropped.
WriterOpens ==
    /\ wpc = "idle" /\ said < MaxSaid /\ said' = said + 1
    /\ wpc' = IF Reading THEN "write" ELSE "idle"
    /\ rpc' = IF rpc = "blocked" THEN "read" ELSE rpc
    /\ UNCHANGED <<pipe, log, again, lines, threads, idx, to, heard, audience, moved>>

\* A full FIFO drops the message; one without readers ends the tracker
\* (SIGPIPE has its default action).
WriterWrites ==
    /\ wpc = "write"
    /\ \/ /\ Reading /\ Len(pipe) < PipeSize
          /\ pipe' = Append(pipe, said) /\ log' = Append(log, said) /\ wpc' = "close"
       \/ /\ Reading /\ Len(pipe) = PipeSize
          /\ wpc' = "close" /\ UNCHANGED <<pipe, log>>
       \/ /\ ~Reading
          /\ wpc' = "killed" /\ UNCHANGED <<pipe, log>>
    /\ UNCHANGED <<said, reader, threads, idx, to, heard, moved>>

WriterCloses ==
    /\ wpc = "close" /\ wpc' = "idle"
    /\ UNCHANGED <<said, pipe, log, reader, threads, idx, to, heard, moved>>

\* The tracker is terminated wherever it is, and started anew.
WriterKilled ==
    /\ wpc # "killed" /\ wpc' = "killed"
    /\ UNCHANGED <<said, pipe, log, reader, threads, idx, to, heard, moved>>
WriterStarts ==
    /\ wpc = "killed" /\ wpc' = "idle"
    /\ UNCHANGED <<said, pipe, log, reader, threads, idx, to, heard, moved>>

Send == WriterOpens \/ WriterWrites \/ WriterCloses

---------------------------------------------------------------------------
(* Sending to all clients, _multicast_: thread t walks the list by index.  *)

Pick(t) ==
    /\ to[t] = None /\ idx[t] <= Len(clients)
    /\ to'  = [to EXCEPT ![t] = clients[idx[t]]]
    /\ idx' = [idx EXCEPT ![t] = @ + 1]

Picked(t) == to[t] = None /\ idx[t] > Len(clients)

\* What sending to c may come to: a connection the client has left takes the
\* data at first, and fails later; one closed here fails.
Delivers(c) == conn[c] = "up"
Swallows(c) == conn[c] = "gone"
Raises(c)   == conn[c] \in {"gone", "closed"}

---------------------------------------------------------------------------
(* The read thread, MyReadThread.run.                                      *)

ReaderOpens ==
    /\ rpc = "open"
    /\ rpc' = IF Writing THEN "read" ELSE "blocked"
    /\ UNCHANGED <<writer, pipe, again, lines, threads, idx, to, heard, audience,
                   moved>>

\* Mutant: the first client is left out.
BeginLineLate == /\ idx' = [idx EXCEPT ![Reader] = 2]
                 /\ audience' = Range(clients) /\ moved' = FALSE

\* Starting on a line.
BeginLine == /\ idx' = [idx EXCEPT ![Reader] = 1]
             /\ audience' = Range(clients) /\ moved' = FALSE

\* Mutants: a line is taken and what came with it forgotten; the lines stay
\* and are read again.
ReaderTakesOne ==
    /\ rpc = "read" /\ pipe # <<>>
    /\ lines' = <<Head(pipe)>> /\ pipe' = <<>> /\ rpc' = "cast" /\ BeginLine
    /\ UNCHANGED <<writer, again, threads, to, heard>>
ReaderRereads ==
    /\ rpc = "read" /\ pipe # <<>>
    /\ lines' = pipe /\ rpc' = "cast" /\ BeginLine
    /\ UNCHANGED <<writer, pipe, again, threads, to, heard>>

\* readline takes all there is; the lines then come one by one.
ReaderReads ==
    /\ rpc = "read" /\ pipe # <<>>
    /\ lines' = pipe /\ pipe' = <<>> /\ rpc' = "cast" /\ BeginLine
    /\ UNCHANGED <<writer, again, threads, to, heard>>

\* Mutant: the file is closed as soon as it is found empty.
ReaderClosesFirst ==
    /\ rpc = "read" /\ pipe = <<>>
    /\ rpc' = "open" /\ again' = FALSE
    /\ UNCHANGED <<writer, pipe, lines, threads, idx, to, heard, audience, moved>>

\* The end of the file; it is closed only once it has been opened again.
ReaderEnds ==
    /\ rpc = "read" /\ pipe = <<>> /\ ~Writing
    /\ rpc' = "open" /\ again' = TRUE
    /\ UNCHANGED <<writer, pipe, lines, threads, idx, to, heard, audience, moved>>

ReaderPicks ==
    /\ rpc = "cast" /\ Pick(Reader)
    /\ UNCHANGED <<writer, pipe, reader, threads, heard, moved>>

ReaderSends ==
    /\ rpc = "cast" /\ to[Reader] # None
    /\ to' = [to EXCEPT ![Reader] = None]
    /\ \/ /\ Delivers(to[Reader])
          /\ heard' = [heard EXCEPT ![to[Reader]] = Append(@, Head(lines))]
          /\ UNCHANGED rpc
       \/ Swallows(to[Reader]) /\ UNCHANGED <<heard, rpc>>
       \/ Raises(to[Reader]) /\ rpc' = "dying" /\ UNCHANGED heard
    /\ UNCHANGED <<writer, pipe, again, lines, threads, idx, audience, moved>>

\* Mutant: a line during which the list changed is sent again.
ReaderRetries ==
    /\ rpc = "cast" /\ Picked(Reader)
    /\ lines' = IF moved THEN lines ELSE Tail(lines)
    /\ rpc' = IF lines' # <<>> THEN "cast" ELSE "read"
    /\ BeginLine
    /\ UNCHANGED <<writer, pipe, again, threads, to, heard>>

ReaderNextLine ==
    /\ rpc = "cast" /\ Picked(Reader)
    /\ lines' = Tail(lines)
    /\ rpc' = IF Len(lines) > 1 THEN "cast" ELSE "read"
    /\ BeginLine
    /\ UNCHANGED <<writer, pipe, again, threads, to, heard>>

\* Nothing catches the exception: the thread ends, and with it its file.
ReaderDies ==
    /\ rpc = "dying" /\ rpc' = "dead"
    /\ UNCHANGED <<writer, pipe, again, lines, threads, idx, to, heard, audience,
                   moved>>

ReadThread == \/ ReaderOpens \/ ReaderReads \/ ReaderEnds
              \/ ReaderPicks \/ ReaderSends \/ ReaderNextLine
              \/ ReaderDies

---------------------------------------------------------------------------
(* A client's thread, WebSocketHandler.                                    *)

HandlerAt(c, from, goto) == hpc[c] = from /\ hpc' = [hpc EXCEPT ![c] = goto]

\* The handshake is done: the client is listed, then all are told.
HandlerJoins(c) ==
    /\ HandlerAt(c, "out", "greet")
    /\ conn' = [conn EXCEPT ![c] = "up"]
    /\ clients' = Append(clients, c)
    /\ UNCHANGED <<writer, pipe, reader, idx, to, heard, moved>>

GreetPicks(c) ==
    /\ hpc[c] = "greet" /\ Pick(c)
    /\ UNCHANGED <<writer, pipe, reader, threads, heard, moved>>

\* A send that raises ends this client's thread, whosever connection failed.
GreetSends(c) ==
    /\ hpc[c] = "greet" /\ to[c] # None
    /\ to' = [to EXCEPT ![c] = None]
    /\ \/ (Delivers(to[c]) \/ Swallows(to[c])) /\ UNCHANGED <<hpc, idx>>
       \/ /\ Raises(to[c]) /\ HandlerAt(c, "greet", "search")
          /\ idx' = [idx EXCEPT ![c] = 1]
    /\ UNCHANGED <<writer, pipe, reader, conn, clients, heard, moved>>

Greeted(c) ==
    /\ Picked(c) /\ HandlerAt(c, "greet", "serve")
    /\ UNCHANGED <<writer, pipe, reader, conn, clients, idx, to, heard, moved>>

ClientGoes(c) ==
    /\ conn[c] = "up" /\ conn' = [conn EXCEPT ![c] = "gone"]
    /\ UNCHANGED <<writer, pipe, reader, hpc, clients, idx, to, heard, moved>>

\* The thread finds the connection gone, is told that it will be, or a frame
\* or a message's handler ends it while the connection is up: it cleans up.
HandlerEnds(c) ==
    /\ HandlerAt(c, "serve", "search")
    /\ idx' = [idx EXCEPT ![c] = 1]
    /\ UNCHANGED <<writer, pipe, reader, conn, clients, to, heard, moved>>

\* handler_to_client walks the list, too: found, not yet, or not there (and
\* then client_left fails on it).
HandlerSearches(c) ==
    /\ \/ /\ idx[c] <= Len(clients) /\ clients[idx[c]] = c
          /\ HandlerAt(c, "search", "remove") /\ UNCHANGED idx
       \/ /\ idx[c] <= Len(clients) /\ clients[idx[c]] # c
          /\ HandlerAt(c, "search", "search")
          /\ idx' = [idx EXCEPT ![c] = @ + 1]
       \/ /\ idx[c] > Len(clients)
          /\ HandlerAt(c, "search", "close") /\ UNCHANGED idx
    /\ UNCHANGED <<writer, pipe, reader, conn, clients, to, heard, moved>>

\* Mutant: the client stays listed.
HandlerForgets(c) ==
    /\ HandlerAt(c, "remove", "close")
    /\ UNCHANGED <<writer, pipe, reader, conn, clients, idx, to, heard, moved>>

HandlerRemoves(c) ==
    /\ HandlerAt(c, "remove", "close")
    /\ clients' = RemoveFirst(clients, c) /\ moved' = TRUE
    /\ UNCHANGED <<writer, pipe, reader, conn, idx, to, heard>>

\* client_left stops the tracker, which may raise (TrackerControl's StopFails):
\* then nobody takes the client off the list.
HandlerFails(c) ==
    /\ HandlerAt(c, "remove", "failed")
    /\ UNCHANGED <<writer, pipe, reader, conn, clients, idx, to, heard, moved>>

\* Whatever became of the clean-up, the connection is closed.
HandlerCloses(c) ==
    /\ HandlerAt(c, "close", "done") \/ HandlerAt(c, "failed", "stale")
    /\ conn' = [conn EXCEPT ![c] = "closed"]
    /\ UNCHANGED <<writer, pipe, reader, clients, idx, to, heard, moved>>

Handler(c) == \/ HandlerJoins(c) \/ GreetPicks(c) \/ GreetSends(c) \/ Greeted(c)
              \/ HandlerEnds(c) \/ HandlerSearches(c) \/ HandlerRemoves(c)
              \/ HandlerFails(c) \/ HandlerCloses(c)

Next == \/ Send \/ WriterKilled \/ WriterStarts \/ ReadThread
        \/ \E c \in Clients : Handler(c) \/ ClientGoes(c)

Spec == Init /\ [][Next]_vars

\* A tracker in the middle of a message, the read thread and the threads of
\* the clients are scheduled; what the analysis says and who comes and goes is
\* not up to them.
FairSpec == Spec /\ WF_vars(ReadThread) /\ WF_vars(WriterWrites \/ WriterCloses)

---------------------------------------------------------------------------
(* Properties.                                                             *)

Connections == {"none", "up", "gone", "closed"}

\* Every variable keeps its type; the tracker is only ever within one message.
TypeOK ==
    /\ said \in 0 .. MaxSaid
    /\ wpc \in {"idle", "write", "close", "killed"}
    /\ pipe \in Seq(1 .. MaxSaid) /\ Len(pipe) <= PipeSize
    /\ log \in Seq(1 .. MaxSaid) /\ lines \in Seq(1 .. MaxSaid)
    /\ rpc \in {"open", "blocked", "read", "cast", "dying", "dead"}
    /\ again \in BOOLEAN /\ moved \in BOOLEAN
    /\ clients \in Seq(Clients) /\ audience \subseteq Clients
    /\ conn \in [Clients -> Connections]
    /\ hpc \in [Clients -> {"out", "greet", "serve", "search", "remove", "close",
                            "done", "failed", "stale"}]
    /\ idx \in [Threads -> Nat] /\ to \in [Threads -> Clients \cup {None}]
    /\ heard \in [Clients -> Seq(1 .. MaxSaid)]

\* The line being sent is the first of `lines`; once the thread has died of it
\* neither it nor what follows goes anywhere.
Sending == rpc \in {"cast", "dying", "dead"}

\* The bridge implements the channel: whatever comes and goes meanwhile, the
\* messages in the FIFO and in the thread's buffer are the rest of the log, in
\* order, and a client hears each line at most once, in that order.
Channel == INSTANCE EventChannel WITH
    Messages <- 1 .. MaxSaid,
    pos  <- Len(log) - Len(pipe) - Len(lines) + (IF Sending THEN 1 ELSE 0),
    over <- rpc \in {"dying", "dead"}

ImplementsChannel == Channel!Spec

\* A client that was listed when a line's turn came, and still has its
\* connection, has heard it when the turn is over, unless someone was taken
\* off the list in between: then the walk by index may have skipped it.
LineReachesAll ==
    rpc = "cast" /\ Picked(Reader) /\ ~moved
        => \A c \in audience : conn[c] = "up" => Head(lines) \in Range(heard[c])

\* Every message that got into the FIFO is still there, in the thread's
\* buffer, or was sent: neither reopening the file nor a tracker that is
\* killed loses one.  That is, while the thread lives the log ends in them.
\* And the thread opens the file again before it closes it, so that a tracker
\* that found a reader still has one when it writes, unless the thread died.
NoneLostOnTheWay ==
    /\ IsSuffix(pipe, log)
    /\ rpc # "dead" => IsSuffix(lines \o pipe, log)
    /\ wpc = "write" => Reading \/ rpc = "dead"

\* A closed client stays listed (and the read thread dies of the next message)
\* for one of two reasons only: its own client_left raised, "stale", or another
\* was taken off the list while this one looked itself up.
StaysListedByRace ==
    \A c \in Range(clients) : hpc[c] = "done"
        => \E d \in Clients \ Range(clients) : hpc[d] \in {"close", "done"}

\* The read thread never rests on a message it could send: it comes back to an
\* empty FIFO, waits for the next writer, or has died.
MessagesGoOut == []<>((pipe = <<>> /\ lines = <<>>) \/ rpc \in {"blocked", "dead"})
=============================================================================
