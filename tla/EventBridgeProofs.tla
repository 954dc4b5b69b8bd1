------------------------- MODULE EventBridgeProofs --------------------------
(***************************************************************************)
(* Proofs about EventBridge, for any number of clients and messages and    *)
(* any FIFO: nothing is lost between FIFO and sending, whom a line         *)
(* reaches, who stays listed, and that the bridge implements EventChannel. *)
(***************************************************************************)
EXTENDS EventBridge, SequenceTheorems, TLAPS

\* A sequence without repetition.
Once(q) == \A i, j \in DOMAIN q : q[i] = q[j] => i = j

\* Messages that have left the FIFO and the thread's buffer.
Gone == Len(log) - Len(pipe) - Len(lines)
Pos  == Gone + (IF Sending THEN 1 ELSE 0)

\* The log is in the order of what was said.
Said ==
    /\ \A i \in DOMAIN log : log[i] <= said
    /\ wpc = "write" => said > 0 /\ \A i \in DOMAIN log : log[i] < said
    /\ \A i, j \in DOMAIN log : i < j => log[i] < log[j]

\* The thread's buffer and the FIFO are the end of the log.
Rest ==
    /\ lines = <<>> <=> rpc \in {"open", "blocked", "read"}
    /\ Gone >= 0
    /\ \A i \in 1 .. Len(lines) : lines[i] = log[Gone + i]
    /\ \A i \in 1 .. Len(pipe) : pipe[i] = log[Gone + Len(lines) + i]

WriterHasReader == wpc = "write" => Reading \/ rpc = "dead"

\* Who is listed, by where its thread is.
Listed ==
    /\ Once(clients)
    /\ \A c \in Clients : hpc[c] = "out" =>
           /\ c \notin Range(clients) \cup audience
           /\ heard[c] = <<>> /\ \A t \in Threads : to[t] # c
    /\ \A c \in Clients : hpc[c] \in {"greet", "serve"} => c \in Range(clients)
    /\ \A t \in Threads : idx[t] >= 1

\* Whom the walk has yet to come to.
Ahead(c) == \E i \in idx[Reader] .. Len(clients) : clients[i] = c

\* A client has heard the lines up to the one being sent, and that one only if
\* the walk is past it.
Heard ==
    /\ \A c \in Clients : heard[c] # <<>> =>
           Pos > 0 /\ heard[c][Len(heard[c])] <= log[Pos]
    /\ rpc = "cast" => \A c \in Clients : heard[c] # <<>> /\ (to[Reader] = c \/ Ahead(c)) =>
           heard[c][Len(heard[c])] < log[Pos]
    /\ to[Reader] # None => rpc = "cast"
    /\ \A c \in Clients : to[Reader] = c => ~Ahead(c)

\* Unless the list has been cut, the walk passes over nobody.
Walked == rpc = "cast" /\ ~moved =>
    \A c \in audience : conn[c] = "up" =>
        to[Reader] = c \/ Ahead(c) \/ Head(lines) \in Range(heard[c])

\* Unless the list has been cut, a client's look-up finds it; and one that is
\* through with it is not listed.
Searched == \A c \in Clients :
    \/ \E d \in Clients \ Range(clients) : d # c /\ hpc[d] \in {"close", "done"}
    \/ /\ hpc[c] = "search" => \E i \in idx[c] .. Len(clients) : clients[i] = c
       /\ hpc[c] \in {"close", "done"} => c \notin Range(clients)

IInv == TypeOK /\ Said /\ Rest /\ WriterHasReader /\ Listed /\ Heard /\ Walked /\ Searched

---------------------------------------------------------------------------
(* Sequences.                                                              *)

LEMMA Elements ==
    ASSUME NEW S, NEW q \in Seq(S)
    PROVE  \A i \in DOMAIN q : q[i] \in S
  OBVIOUS

LEMMA Longer ==
    ASSUME NEW S, NEW q \in Seq(S), NEW x \in S
    PROVE  /\ Append(q, x) \in Seq(S) /\ Len(Append(q, x)) = Len(q) + 1
           /\ \A i \in 1 .. Len(q) : Append(q, x)[i] = q[i]
           /\ Append(q, x)[Len(q) + 1] = x
           /\ Range(Append(q, x)) = Range(q) \cup {x}
           /\ Once(q) /\ x \notin Range(q) => Once(Append(q, x))
<1> DEFINE r == Append(q, x)
<1>1. /\ r \in Seq(S) /\ Len(r) = Len(q) + 1
      /\ \A i \in 1 .. Len(q) : r[i] = q[i]
      /\ r[Len(q) + 1] = x
  OBVIOUS
<1>2. DOMAIN q = 1 .. Len(q) /\ DOMAIN r = 1 .. Len(q) + 1 /\ Len(q) \in Nat
  BY <1>1
<1> HIDE DEF r
<1>3. Range(r) = Range(q) \cup {x}
  <2>1. ASSUME NEW y \in Range(r) PROVE y \in Range(q) \cup {x}
    BY <1>1, <1>2, <2>1 DEF Range
  <2>2. ASSUME NEW y \in Range(q) \cup {x} PROVE y \in Range(r)
    BY <1>1, <1>2, <2>2 DEF Range
  <2> QED
    BY <2>1, <2>2
<1>4. ASSUME Once(q), x \notin Range(q) PROVE Once(r)
  BY <1>1, <1>2, <1>4 DEF Once, Range
<1> QED
  BY <1>1, <1>3, <1>4 DEF r

\* list.remove takes one element out, and what is behind it moves up.
LEMMA Shorter ==
    ASSUME NEW S, NEW q \in Seq(S), NEW e, Once(q)
    PROVE  LET r == RemoveFirst(q, e) IN
           /\ r \in Seq(S) /\ Once(r) /\ Range(r) = Range(q) \ {e}
           /\ \A i \in 1 .. Len(r) : \E k \in i .. Len(q) : r[i] = q[k]
<1> DEFINE Cut(r) == /\ r \in Seq(S) /\ Once(r) /\ Range(r) = Range(q) \ {e}
                     /\ \A i \in 1 .. Len(r) : \E k \in i .. Len(q) : r[i] = q[k]
<1>1. CASE \A k \in 1 .. Len(q) : q[k] # e
  <2>1. RemoveFirst(q, e) = q /\ DOMAIN q = 1 .. Len(q)
    BY <1>1 DEF RemoveFirst
  <2> QED
    BY <1>1, <2>1 DEF Range
<1>2. ASSUME NEW k \in 1 .. Len(q), q[k] = e PROVE Cut(RemoveFirst(q, e))
  <2> DEFINE r == RemoveAt(q, k)
  <2>1. {i \in 1 .. Len(q) : q[i] = e} = {k} /\ Min({k}) = k
    BY <1>2 DEF Once, Min
  <2>2. RemoveFirst(q, e) = r
    BY <1>2, <2>1 DEF RemoveFirst, SelectInSeq
  <2>3. /\ r \in Seq(S) /\ Len(r) = Len(q) - 1 /\ Len(q) \in Nat
        /\ \A i \in 1 .. Len(r) : r[i] = IF i < k THEN q[i] ELSE q[i + 1]
    <3> DEFINE s == SubSeq(q, 1, k - 1)
               t == SubSeq(q, k + 1, Len(q))
    <3>1. /\ s \in Seq(S) /\ Len(s) = k - 1 /\ Len(q) \in Nat /\ k \in Nat /\ k >= 1
          /\ \A i \in 1 .. k - 1 : s[i] = q[i]
      OBVIOUS
    <3>2. /\ t \in Seq(S) /\ Len(t) = Len(q) - k
          /\ \A i \in 1 .. Len(q) - k : t[i] = q[k + i]
      OBVIOUS
    <3> HIDE DEF s, t
    <3>a. /\ s \o t \in Seq(S) /\ Len(s \o t) = Len(s) + Len(t)
          /\ \A i \in 1 .. Len(s) + Len(t) : (s \o t)[i] = IF i <= Len(s) THEN s[i] ELSE t[i - Len(s)]
      BY <3>1, <3>2, ConcatProperties
    <3>3. /\ s \o t \in Seq(S) /\ Len(s \o t) = Len(q) - 1
          /\ \A i \in 1 .. Len(q) - 1 : (s \o t)[i] = IF i < k THEN s[i] ELSE t[i - (k - 1)]
      BY <3>1, <3>2, <3>a
    <3>4. \A i \in 1 .. Len(q) - 1 : ~ i < k => i - (k - 1) \in 1 .. Len(q) - k /\ k + (i - (k - 1)) = i + 1
      BY <3>1
    <3>5. r = s \o t
      BY DEF RemoveAt, s, t
    <3>6. \A i \in 1 .. Len(q) - 1 : ~ i < k => t[i - (k - 1)] = q[i + 1]
      BY <3>2, <3>4
    <3>7. \A i \in 1 .. Len(q) - 1 : i < k => s[i] = q[i]
      BY <3>1
    <3> QED
      BY <3>1, <3>3, <3>5, <3>6, <3>7
  <2>4. DOMAIN r = 1 .. Len(r) /\ DOMAIN q = 1 .. Len(q)
    BY <2>3
  <2> HIDE DEF r
  <2>a. \A i \in DOMAIN r : LET j == IF i < k THEN i ELSE i + 1 IN
                               j \in DOMAIN q /\ j # k /\ r[i] = q[j]
    BY <2>3, <2>4
  <2>5. Once(r)
    <3> SUFFICES ASSUME NEW i \in DOMAIN r, NEW j \in DOMAIN r, r[i] = r[j]
                 PROVE  i = j
      BY DEF Once
    <3>1. (IF i < k THEN i ELSE i + 1) = (IF j < k THEN j ELSE j + 1)
      BY <2>a DEF Once
    <3>2. i \in Nat /\ j \in Nat
      BY <2>3, <2>4
    <3> QED
      BY <3>1, <3>2
  <2>6. \A i \in 1 .. Len(r) : \E j \in i .. Len(q) : r[i] = q[j]
    BY <2>3
  <2>7. ASSUME NEW y \in Range(r) PROVE y \in Range(q) \ {e}
    <3> PICK i \in DOMAIN r : r[i] = y
      BY <2>7 DEF Range
    <3> DEFINE j == IF i < k THEN i ELSE i + 1
    <3>1. j \in DOMAIN q /\ j # k /\ y = q[j]
      BY <2>a
    <3>2. q[j] # q[k]
      BY <2>4, <3>1 DEF Once
    <3> QED
      BY <1>2, <3>1, <3>2 DEF Range
  <2>8. ASSUME NEW y \in Range(q) \ {e} PROVE y \in Range(r)
    <3> PICK i \in 1 .. Len(q) : q[i] = y
      BY <2>4 DEF Range
    <3>1. CASE i < k
      BY <2>3, <2>4, <3>1 DEF Range
    <3>2. CASE i > k
      <4>1. i - 1 \in 1 .. Len(r) /\ r[i - 1] = q[i]
        BY <2>3, <3>2
      <4> QED
        BY <2>4, <4>1 DEF Range
    <3> QED
      BY <1>2, <3>1, <3>2
  <2> QED
    BY <2>2, <2>5, <2>6, <2>7, <2>8, <2>3
<1> QED
  BY <1>1, <1>2

---------------------------------------------------------------------------
(* The invariant.                                                          *)

LEMMA Lists == TypeOK =>
    /\ Len(log) \in Nat /\ Len(pipe) \in Nat /\ Len(lines) \in Nat
    /\ DOMAIN log = 1 .. Len(log) /\ DOMAIN clients = 1 .. Len(clients)
    /\ Gone \in Int /\ Len(clients) \in Nat
  BY DEF TypeOK, Gone

LEMMA Values == TypeOK =>
    said \in Nat /\ \A i \in DOMAIN log : log[i] \in 1 .. MaxSaid /\ log[i] \in Nat
<1> SUFFICES ASSUME TypeOK PROVE said \in Nat /\ \A i \in DOMAIN log : log[i] \in 1 .. MaxSaid
  OBVIOUS
<1>1. said \in Nat
  BY DEF TypeOK
<1>2. \A i \in DOMAIN log : log[i] \in 1 .. MaxSaid
  <2>1. log \in Seq(1 .. MaxSaid)
    BY DEF TypeOK
  <2> QED
    BY <2>1, Elements
<1> QED
  BY <1>1, <1>2

LEMMA Steps ==
    ASSUME Next
    PROVE  \/ Send \/ WriterKilled \/ WriterStarts
           \/ ReaderOpens \/ ReaderReads \/ ReaderEnds \/ ReaderPicks \/ ReaderSends
           \/ ReaderNextLine \/ ReaderDies
           \/ \E c \in Clients : \/ HandlerJoins(c) \/ GreetPicks(c) \/ GreetSends(c)
                                 \/ Greeted(c) \/ HandlerEnds(c) \/ HandlerSearches(c)
                                 \/ HandlerRemoves(c) \/ HandlerFails(c)
                                 \/ HandlerCloses(c) \/ ClientGoes(c)
  BY DEF Next, ReadThread, Handler

LEMMA InitInv == Init => IInv
<1> SUFFICES ASSUME Init PROVE IInv
  OBVIOUS
<1>1. TypeOK
  <2>1. /\ said \in 0 .. MaxSaid /\ pipe \in Seq(1 .. MaxSaid) /\ Len(pipe) <= PipeSize
        /\ log \in Seq(1 .. MaxSaid) /\ lines \in Seq(1 .. MaxSaid) /\ clients \in Seq(Clients)
    BY BridgeAssumption DEF Init
  <2>2. heard \in [Clients -> Seq(1 .. MaxSaid)]
    BY DEF Init
  <2> QED
    BY <2>1, <2>2 DEF Init, TypeOK, Connections
<1>2. Said /\ Rest /\ WriterHasReader /\ Walked
  BY DEF Init, Said, Rest, Gone, WriterHasReader, Walked
<1>3. Listed
  BY BridgeAssumption DEF Init, Listed, Once, Range, Threads
<1>4. Heard /\ Searched
  BY BridgeAssumption DEF Init, Heard, Searched, Threads
<1> QED
  BY <1>1, <1>2, <1>3, <1>4 DEF IInv

LEMMA PickTyped ==
    ASSUME TypeOK, Listed, NEW t \in Threads, Pick(t)
    PROVE  to' \in [Threads -> Clients \cup {None}] /\ idx' \in [Threads -> Nat]
<1>1. idx[t] \in DOMAIN clients
  BY Lists DEF Pick, TypeOK, Listed
<1>2. clients[idx[t]] \in Clients
  BY <1>1, Elements DEF TypeOK
<1>3. to' = [to EXCEPT ![t] = clients[idx[t]]] /\ idx' = [idx EXCEPT ![t] = idx[t] + 1]
  BY DEF Pick
<1>4. to' \in [Threads -> Clients \cup {None}]
  BY <1>2, <1>3 DEF TypeOK
<1>5. idx' \in [Threads -> Nat]
  BY <1>3 DEF TypeOK
<1> QED
  BY <1>4, <1>5

LEMMA TypeKept == IInv /\ [Next]_vars => TypeOK'
<1> SUFFICES ASSUME IInv, [Next]_vars PROVE TypeOK'
  OBVIOUS
<1> USE BridgeAssumption DEF IInv, writer, reader, threads
<1>1. CASE WriterOpens
  BY <1>1 DEF TypeOK, WriterOpens
<1>a. CASE WriterWrites
  <2>1. wpc = "write" /\ said \in 1 .. MaxSaid
    BY <1>a DEF TypeOK, Said, WriterWrites
  <2>2. CASE pipe' = Append(pipe, said) /\ log' = Append(log, said) /\ Len(pipe) < PipeSize
    <3>1. log' \in Seq(1 .. MaxSaid)
      BY <2>1, <2>2 DEF TypeOK
    <3>2. pipe' \in Seq(1 .. MaxSaid) /\ Len(pipe') <= PipeSize
      BY <2>1, <2>2 DEF TypeOK
    <3> QED
      BY <1>a, <3>1, <3>2 DEF TypeOK, WriterWrites
  <2>3. CASE UNCHANGED <<pipe, log>>
    BY <1>a, <2>3 DEF TypeOK, WriterWrites
  <2> QED
    BY <1>a, <2>2, <2>3 DEF WriterWrites
<1>b. CASE WriterCloses
  BY <1>b DEF TypeOK, WriterCloses
<1>2. CASE WriterKilled \/ WriterStarts
  BY <1>2 DEF TypeOK, WriterKilled, WriterStarts
<1>3. CASE ReaderOpens \/ ReaderEnds \/ ReaderDies
  BY <1>3 DEF TypeOK, ReaderOpens, ReaderEnds, ReaderDies
<1>4. CASE ReaderReads
  <2>1. idx' \in [Threads -> Nat] /\ audience' \subseteq Clients
    <3>1. Range(clients) \subseteq Clients
      BY DEF TypeOK, Range
    <3>2. idx' = [idx EXCEPT ![Reader] = 1] /\ audience' = Range(clients)
      BY <1>4 DEF ReaderReads, BeginLine
    <3> QED
      BY <3>1, <3>2 DEF TypeOK
  <2>2. pipe' \in Seq(1 .. MaxSaid) /\ Len(pipe') <= PipeSize /\ lines' \in Seq(1 .. MaxSaid)
    BY <1>4 DEF TypeOK, ReaderReads
  <2> QED
    BY <1>4, <2>1, <2>2 DEF TypeOK, ReaderReads, BeginLine
<1>c. CASE ReaderNextLine
  <2>1. idx' \in [Threads -> Nat] /\ audience' \subseteq Clients
    <3>1. Range(clients) \subseteq Clients
      BY DEF TypeOK, Range
    <3>2. idx' = [idx EXCEPT ![Reader] = 1] /\ audience' = Range(clients)
      BY <1>c DEF ReaderNextLine, BeginLine
    <3> QED
      BY <3>1, <3>2 DEF TypeOK
  <2>2. lines' \in Seq(1 .. MaxSaid)
    BY <1>c DEF TypeOK, Rest, ReaderNextLine
  <2> QED
    BY <1>c, <2>1, <2>2 DEF TypeOK, ReaderNextLine, BeginLine
<1>5. CASE ReaderPicks
  BY <1>5, PickTyped DEF TypeOK, ReaderPicks, Threads
<1>6. CASE ReaderSends
  <2>1. Head(lines) \in 1 .. MaxSaid
    BY <1>6 DEF TypeOK, Rest, ReaderSends
  <2>2. to[Reader] \in Clients
    BY <1>6 DEF TypeOK, ReaderSends, Threads
  <2>3. heard' \in [Clients -> Seq(1 .. MaxSaid)]
    <3>1. \A c \in Clients : Append(heard[c], Head(lines)) \in Seq(1 .. MaxSaid)
      BY <2>1 DEF TypeOK
    <3>2. heard' = heard \/ heard' = [heard EXCEPT ![to[Reader]] = Append(@, Head(lines))]
      BY <1>6 DEF ReaderSends
    <3> QED
      BY <2>2, <3>1, <3>2 DEF TypeOK
  <2>4. to' \in [Threads -> Clients \cup {None}] /\ rpc' \in {"cast", "dying"}
    BY <1>6 DEF TypeOK, ReaderSends
  <2> QED
    BY <1>6, <2>3, <2>4 DEF TypeOK, ReaderSends
<1>7. ASSUME NEW c \in Clients, HandlerJoins(c) PROVE TypeOK'
  BY <1>7 DEF TypeOK, HandlerJoins, HandlerAt, Connections
<1>d. ASSUME NEW c \in Clients, HandlerRemoves(c) PROVE TypeOK'
  <2>1. clients' \in Seq(Clients)
    BY <1>d, Shorter DEF TypeOK, Listed, HandlerRemoves
  <2> QED
    BY <1>d, <2>1 DEF TypeOK, HandlerRemoves, HandlerAt, Connections
<1>8. ASSUME NEW c \in Clients, GreetPicks(c) PROVE TypeOK'
  BY <1>8, PickTyped DEF TypeOK, GreetPicks, Threads
<1>e. ASSUME NEW c \in Clients, GreetSends(c) PROVE TypeOK'
  <2>1. idx' \in [Threads -> Nat] /\ to' \in [Threads -> Clients \cup {None}]
    <3>1. to' = [to EXCEPT ![c] = None] /\ (idx' = idx \/ idx' = [idx EXCEPT ![c] = 1])
      BY <1>e DEF GreetSends
    <3>2. to' \in [Threads -> Clients \cup {None}]
      BY <3>1 DEF TypeOK
    <3>3. [idx EXCEPT ![c] = 1] \in [Threads -> Nat]
      BY DEF TypeOK
    <3> QED
      BY <3>1, <3>2, <3>3 DEF TypeOK
  <2>2. hpc' = hpc \/ hpc' = [hpc EXCEPT ![c] = "search"]
    BY <1>e DEF GreetSends, HandlerAt
  <2> QED
    BY <1>e, <2>1, <2>2 DEF TypeOK, GreetSends
<1>f. ASSUME NEW c \in Clients, Greeted(c) PROVE TypeOK'
  BY <1>f DEF TypeOK, Greeted, HandlerAt, Threads
<1>9. ASSUME NEW c \in Clients, HandlerEnds(c) PROVE TypeOK'
  BY <1>9 DEF TypeOK, HandlerEnds, HandlerAt, Threads, Connections
<1>g. ASSUME NEW c \in Clients, HandlerSearches(c) PROVE TypeOK'
  <2>1. idx' \in [Threads -> Nat]
    BY <1>g DEF TypeOK, HandlerSearches
  <2>2. \E p \in {"remove", "search", "close"} : hpc' = [hpc EXCEPT ![c] = p]
    BY <1>g DEF HandlerSearches, HandlerAt
  <2> QED
    BY <1>g, <2>1, <2>2 DEF TypeOK, HandlerSearches
<1>h. ASSUME NEW c \in Clients, HandlerCloses(c) \/ HandlerFails(c) PROVE TypeOK'
  BY <1>h DEF HandlerFails, TypeOK, HandlerCloses, HandlerAt, Threads, Connections
<1>i. ASSUME NEW c \in Clients, ClientGoes(c) PROVE TypeOK'
  BY <1>i DEF TypeOK, ClientGoes, HandlerAt, Threads, Connections
<1>10. CASE UNCHANGED vars
  BY <1>10 DEF TypeOK, vars
<1> QED
  BY <1>1, <1>2, <1>3, <1>4, <1>5, <1>6, <1>7, <1>8, <1>9, <1>10, <1>a, <1>b, <1>c, <1>d, <1>e, <1>f, <1>g, <1>h, <1>i, Steps DEF Send

LEMMA SaidKept == IInv /\ [Next]_vars => Said'
<1> SUFFICES ASSUME IInv, [Next]_vars PROVE Said'
  OBVIOUS
<1>0. TypeOK /\ Said
  BY DEF IInv
<1>1. CASE WriterOpens
  <2>1. said' = said + 1 /\ UNCHANGED log /\ said \in Nat
    BY <1>0, <1>1, Values DEF WriterOpens
  <2>2. \A i \in DOMAIN log : log[i] <= said /\ log[i] \in Nat
    BY <1>0, Values DEF Said
  <2> QED
    BY <1>0, <2>1, <2>2 DEF Said
<1>2. CASE WriterWrites
  <2>1. CASE UNCHANGED <<pipe, log>>
    BY <1>0, <1>2, <2>1 DEF Said, WriterWrites
  <2>2. CASE log' = Append(log, said)
    <3>1. /\ Len(log') = Len(log) + 1 /\ DOMAIN log' = 1 .. Len(log) + 1
          /\ \A i \in 1 .. Len(log) : log'[i] = log[i] /\ log[i] < said
          /\ log'[Len(log) + 1] = said
      BY <1>0, <1>2, <2>2, Lists DEF TypeOK, Said, WriterWrites
    <3>2. \A i \in 1 .. Len(log) : log[i] \in Nat
      BY <1>0, Lists, Values
    <3>3. UNCHANGED said /\ said > 0 /\ said \in Nat /\ wpc' = "close"
      BY <1>0, <1>2, <2>2, Values DEF WriterWrites, Said, TypeOK
    <3>4. \A i \in DOMAIN log' : log'[i] <= said
      BY <1>0, <3>1, <3>2, <3>3, Lists
    <3>5. \A i, j \in DOMAIN log' : i < j => log'[i] < log'[j]
      BY <1>0, <3>1, <3>2, Lists DEF Said
    <3> QED
      BY <3>3, <3>4, <3>5 DEF Said
  <2> QED
    BY <1>2, <2>1, <2>2 DEF WriterWrites
<1>3. CASE WriterCloses \/ WriterKilled \/ WriterStarts
  BY <1>0, <1>3 DEF Said, WriterCloses, WriterKilled, WriterStarts
<1>4. CASE UNCHANGED <<said, wpc, log>>
  BY <1>0, <1>4 DEF Said
<1> QED
  BY <1>1, <1>2, <1>3, <1>4, Steps DEF Send, writer, vars, ReaderOpens, ReaderReads,
     ReaderEnds, ReaderPicks, ReaderSends, ReaderNextLine, ReaderDies, HandlerJoins,
     GreetPicks, GreetSends, Greeted, HandlerEnds, HandlerSearches, HandlerRemoves,
     HandlerFails, HandlerCloses, ClientGoes

\* Reading takes the messages from the FIFO as they are; the next line is the
\* rest without its first.
LEMMA RestKept == IInv /\ [Next]_vars => Rest'
<1> SUFFICES ASSUME IInv, [Next]_vars PROVE Rest'
  OBVIOUS
<1>0. TypeOK /\ Rest
  BY DEF IInv
<1>a. /\ Len(log) \in Nat /\ Len(pipe) \in Nat /\ Len(lines) \in Nat
      /\ DOMAIN log = 1 .. Len(log) /\ Gone = Len(log) - Len(pipe) - Len(lines)
  BY <1>0, Lists DEF Gone
<1>1. CASE WriterOpens
  BY <1>0, <1>1 DEF Rest, Gone, WriterOpens, threads
<1>2. CASE WriterWrites
  <2>1. CASE UNCHANGED <<pipe, log>>
    BY <1>0, <1>2, <2>1 DEF Rest, Gone, WriterWrites, reader
  <2>2. CASE pipe' = Append(pipe, said) /\ log' = Append(log, said)
    <3>1. /\ Len(log') = Len(log) + 1 /\ Len(pipe') = Len(pipe) + 1
          /\ \A i \in 1 .. Len(log) : log'[i] = log[i]
          /\ \A i \in 1 .. Len(pipe) : pipe'[i] = pipe[i]
          /\ log'[Len(log) + 1] = said /\ pipe'[Len(pipe) + 1] = said
      BY <1>0, <2>2 DEF TypeOK
    <3>2. UNCHANGED <<lines, rpc>>
      BY <1>2 DEF WriterWrites, reader
    <3>3. Gone' = Gone
      BY <1>a, <3>1, <3>2 DEF Gone
    <3>4. Gone + Len(lines) + Len(pipe) = Len(log) /\ Gone >= 0 /\ Gone \in Nat
      BY <1>0, <1>a DEF Rest
    <3>5. \A i \in 1 .. Len(lines) : lines[i] = log'[Gone + i]
      <4> TAKE i \in 1 .. Len(lines)
      <4>1. Gone + i \in 1 .. Len(log)
        BY <1>a, <3>4
      <4> QED
        BY <1>0, <3>1, <4>1 DEF Rest
    <3>6. \A i \in 1 .. Len(pipe) + 1 : pipe'[i] = log'[Gone + Len(lines) + i]
      <4> TAKE i \in 1 .. Len(pipe) + 1
      <4>1. CASE i = Len(pipe) + 1
        <5>1. Gone + Len(lines) + i = Len(log) + 1
          BY <1>a, <3>4, <4>1
        <5> QED
          BY <3>1, <4>1, <5>1
      <4>2. CASE i # Len(pipe) + 1
        <5>1. Gone + Len(lines) + i \in 1 .. Len(log) /\ i \in 1 .. Len(pipe)
          BY <1>a, <3>4, <4>2
        <5> QED
          BY <1>0, <3>1, <5>1 DEF Rest
      <4> QED
        BY <4>1, <4>2
    <3> QED
      BY <1>0, <3>1, <3>2, <3>3, <3>5, <3>6 DEF Rest
  <2> QED
    BY <1>2, <2>1, <2>2 DEF WriterWrites
<1>3. CASE ReaderReads
  <2>1. /\ lines' = pipe /\ pipe' = <<>> /\ log' = log /\ lines = <<>> /\ rpc' = "cast"
        /\ pipe # <<>>
    BY <1>0, <1>3 DEF ReaderReads, Rest, writer
  <2>2. Len(pipe') = 0 /\ Len(lines) = 0 /\ Gone' = Gone
    BY <1>a, <2>1 DEF Gone
  <2> QED
    BY <1>0, <1>a, <2>1, <2>2 DEF Rest
<1>4. CASE ReaderNextLine
  <2>1. /\ lines' = Tail(lines) /\ UNCHANGED <<pipe, log>> /\ lines # <<>>
        /\ rpc' = IF Len(lines) > 1 THEN "cast" ELSE "read"
    BY <1>0, <1>4 DEF ReaderNextLine, Rest, writer
  <2>2. /\ Len(lines) >= 1 /\ Len(lines') = Len(lines) - 1
        /\ \A i \in 1 .. Len(lines) - 1 : lines'[i] = lines[i + 1]
        /\ lines' \in Seq(1 .. MaxSaid)
    BY <1>0, <2>1 DEF TypeOK
  <2>3. lines' = <<>> <=> Len(lines) = 1
    BY <1>a, <2>2
  <2>4. Gone' = Gone + 1
    BY <1>a, <2>1, <2>2 DEF Gone
  <2> QED
    BY <1>0, <1>a, <2>1, <2>2, <2>3, <2>4 DEF Rest
<1>5. CASE ReaderOpens \/ ReaderEnds \/ ReaderSends \/ ReaderDies
  BY <1>0, <1>5 DEF Rest, Gone, ReaderOpens, ReaderEnds, ReaderSends, ReaderDies, writer
<1>6. CASE UNCHANGED <<log, pipe, lines, rpc>>
  BY <1>0, <1>6 DEF Rest, Gone
<1> QED
  BY <1>1, <1>2, <1>3, <1>4, <1>5, <1>6, Steps DEF Send, WriterCloses, WriterKilled,
     WriterStarts, writer, reader, vars, ReaderPicks, HandlerJoins, GreetPicks, GreetSends,
     Greeted, HandlerEnds, HandlerSearches, HandlerRemoves, HandlerFails, HandlerCloses,
     ClientGoes

\* The file is opened again before it is closed.
LEMMA ReaderKept == IInv /\ [Next]_vars => WriterHasReader'
<1> SUFFICES ASSUME IInv, [Next]_vars PROVE WriterHasReader'
  OBVIOUS
<1>0. WriterHasReader
  BY DEF IInv
<1>1. CASE Send \/ WriterKilled \/ WriterStarts
  BY <1>0, <1>1 DEF WriterHasReader, Reading, Send, WriterOpens, WriterWrites,
     WriterCloses, WriterKilled, WriterStarts, reader
<1>2. CASE \/ ReaderOpens \/ ReaderReads \/ ReaderEnds \/ ReaderPicks \/ ReaderSends
           \/ ReaderNextLine \/ ReaderDies
  <2>1. UNCHANGED wpc
    BY <1>2 DEF writer, ReaderOpens, ReaderReads, ReaderEnds, ReaderPicks, ReaderSends,
       ReaderNextLine, ReaderDies
  <2>2. /\ again /\ rpc # "dead" => again' \/ rpc' \in {"dead", "read", "cast", "blocked"}
        /\ rpc \in {"read", "cast", "blocked", "dying"} =>
               again' \/ rpc' \in {"dead", "read", "cast", "blocked", "dying"}
        /\ rpc' = "open" => again'
        /\ rpc # "dead"
    BY <1>2 DEF reader, ReaderOpens, ReaderReads, ReaderEnds, ReaderPicks, ReaderSends,
       ReaderNextLine, ReaderDies
  <2> QED
    BY <1>0, <2>1, <2>2 DEF WriterHasReader, Reading
<1>3. CASE UNCHANGED <<wpc, rpc, again>>
  BY <1>0, <1>3 DEF WriterHasReader, Reading
<1> QED
  BY <1>1, <1>2, <1>3, Steps DEF writer, reader, vars, HandlerJoins, GreetPicks, GreetSends,
     Greeted, HandlerEnds, HandlerSearches, HandlerRemoves, HandlerFails, HandlerCloses,
     ClientGoes

\* Nobody comes before its thread lists it, and nobody is sent to who has not come.
LEMMA ListedKept == IInv /\ [Next]_vars => Listed'
<1> SUFFICES ASSUME IInv, [Next]_vars PROVE Listed'
  OBVIOUS
<1>0. TypeOK /\ Listed
  BY DEF IInv
<1>1. CASE UNCHANGED <<hpc, clients, heard, to, idx, audience>>
  BY <1>0, <1>1 DEF Listed
<1>2. CASE ReaderReads \/ ReaderNextLine
  <2>1. /\ idx' = [idx EXCEPT ![Reader] = 1] /\ audience' = Range(clients)
        /\ UNCHANGED <<hpc, clients, heard, to>>
    BY <1>2 DEF ReaderReads, ReaderNextLine, BeginLine, threads
  <2> QED
    BY <1>0, <2>1 DEF Listed, TypeOK, Threads
<1>3. ASSUME NEW t \in Threads, Pick(t), UNCHANGED <<hpc, clients, heard, audience>>
      PROVE  Listed'
  <2>1. idx[t] \in DOMAIN clients /\ clients[idx[t]] \in Range(clients)
    BY <1>0, <1>3, Lists DEF Pick, Listed, TypeOK, Range
  <2>2. \A u \in Threads : to'[u] \in {to[u], clients[idx[t]]} /\ idx'[u] >= 1
    BY <1>0, <1>3 DEF Pick, Listed, TypeOK
  <2> QED
    BY <1>0, <1>3, <2>1, <2>2 DEF Listed
<1>4. CASE ReaderSends
  <2>1. to[Reader] \in Clients /\ hpc[to[Reader]] # "out"
    BY <1>0, <1>4 DEF ReaderSends, TypeOK, Threads, Listed
  <2>2. \A c \in Clients : c # to[Reader] => heard'[c] = heard[c]
    BY <1>0, <1>4 DEF ReaderSends, TypeOK
  <2>3. \A t \in Threads : to'[t] \in {to[t], None}
    BY <1>0, <1>4 DEF ReaderSends, TypeOK
  <2>4. UNCHANGED <<hpc, clients, idx, audience>>
    BY <1>4 DEF ReaderSends, threads
  <2> QED
    BY <1>0, <2>1, <2>2, <2>3, <2>4, BridgeAssumption DEF Listed
<1>5. ASSUME NEW c \in Clients, HandlerJoins(c) PROVE Listed'
  <2>1. /\ hpc[c] = "out" /\ c \notin Range(clients)
        /\ UNCHANGED <<audience, heard, to, idx>> /\ clients' = Append(clients, c)
        /\ \A d \in Clients : hpc'[d] = IF d = c THEN "greet" ELSE hpc[d]
    BY <1>0, <1>5 DEF HandlerJoins, HandlerAt, Listed, TypeOK, reader
  <2>2. Range(clients') = Range(clients) \cup {c} /\ Once(clients')
    BY <1>0, <2>1, Longer DEF TypeOK, Listed
  <2> QED
    BY <1>0, <2>1, <2>2 DEF Listed
<1>6. ASSUME NEW c \in Clients, HandlerRemoves(c) PROVE Listed'
  <2>1. /\ UNCHANGED <<audience, heard, to, idx>> /\ clients' = RemoveFirst(clients, c)
        /\ \A d \in Clients : hpc'[d] = IF d = c THEN "close" ELSE hpc[d]
        /\ hpc[c] = "remove"
    BY <1>0, <1>6 DEF HandlerRemoves, HandlerAt, TypeOK, reader
  <2>2. Range(clients') = Range(clients) \ {c} /\ Once(clients')
    BY <1>0, <2>1, Shorter DEF TypeOK, Listed
  <2> QED
    BY <1>0, <2>1, <2>2 DEF Listed
<1>7. ASSUME NEW c \in Clients,
             \/ GreetSends(c) \/ Greeted(c) \/ HandlerEnds(c) \/ HandlerSearches(c)
             \/ HandlerFails(c) \/ HandlerCloses(c)
      PROVE  Listed'
  <2>1. UNCHANGED <<clients, heard, audience>>
    BY <1>7 DEF GreetSends, Greeted, HandlerEnds, HandlerSearches,
       HandlerFails, HandlerCloses, reader
  <2>2. /\ \A d \in Clients : d # c => hpc'[d] = hpc[d]
        /\ hpc[c] # "out" /\ hpc'[c] # "out"
        /\ hpc'[c] \in {"greet", "serve"} => hpc[c] \in {"greet", "serve"}
    BY <1>0, <1>7 DEF GreetSends, Greeted, HandlerEnds, HandlerSearches,
       HandlerFails, HandlerCloses,
       HandlerAt, TypeOK
  <2>3. \A t \in Threads : to'[t] \in {to[t], None}
    BY <1>0, <1>7 DEF GreetSends, Greeted, HandlerEnds, HandlerSearches,
       HandlerFails, HandlerCloses, TypeOK
  <2>4. \A t \in Threads : idx'[t] >= 1
    <3>1. \/ idx' = idx \/ idx' = [idx EXCEPT ![c] = 1] \/ idx' = [idx EXCEPT ![c] = @ + 1]
      BY <1>7 DEF GreetSends, Greeted, HandlerEnds, HandlerSearches,
       HandlerFails, HandlerCloses
    <3>2. \A t \in Threads : idx[t] \in Nat /\ idx[t] >= 1
      BY <1>0 DEF TypeOK, Listed
    <3>3. \A t \in Threads : idx'[t] = idx[t] \/ idx'[t] = 1 \/ idx'[t] = idx[t] + 1
      BY <1>0, <3>1 DEF TypeOK
    <3> QED
      BY <3>2, <3>3
  <2> QED
    BY <1>0, <2>1, <2>2, <2>3, <2>4, BridgeAssumption DEF Listed
<1>8. ASSUME NEW c \in Clients, GreetPicks(c) PROVE Listed'
  BY <1>3, <1>8 DEF GreetPicks, Threads, threads, reader
<1>9. CASE ReaderPicks
  BY <1>3, <1>9 DEF ReaderPicks, Threads, threads, reader
<1> QED
  BY <1>1, <1>2, <1>4, <1>5, <1>6, <1>7, <1>8, <1>9, Steps DEF Send, WriterOpens,
     WriterWrites, WriterCloses, WriterKilled, WriterStarts, ReaderOpens, ReaderEnds,
     ReaderDies, ClientGoes, threads, reader, vars

LEMMA Place == TypeOK /\ Rest =>
    /\ Pos \in Nat /\ Pos <= Len(log)
    /\ Sending => Pos = Gone + 1 /\ lines # <<>> /\ Head(lines) = log[Pos]
    /\ ~Sending => Pos = Gone
<1> SUFFICES ASSUME TypeOK, Rest
             PROVE  /\ Pos \in Nat /\ Pos <= Len(log)
                    /\ Sending => Pos = Gone + 1 /\ lines # <<>> /\ Head(lines) = log[Pos]
                    /\ ~Sending => Pos = Gone
  OBVIOUS
<1>0. Gone \in Nat
  BY Lists DEF Rest
<1>1. CASE Sending
  <2>1. lines # <<>>
    BY <1>1 DEF Rest, Sending
  <2>2. Len(lines) >= 1 /\ Head(lines) = lines[1]
    BY <2>1 DEF TypeOK
  <2> QED
    BY <1>0, <1>1, <2>1, <2>2, Lists DEF Rest, Pos, Gone
<1>2. CASE ~Sending
  <2>1. Gone <= Len(log)
    BY Lists DEF Gone
  <2> QED
    BY <1>0, <1>2, <2>1 DEF Pos
<1> QED
  BY <1>1, <1>2

LEMMA LoggedBy == Said /\ TypeOK /\ Rest /\ Heard /\ Pos < Len(log) =>
    \A c \in Clients : heard[c] # <<>> => heard[c][Len(heard[c])] < log[Pos + 1]
<1> SUFFICES ASSUME Said, TypeOK, Rest, Heard, Pos < Len(log),
                    NEW c \in Clients, heard[c] # <<>>
             PROVE  heard[c][Len(heard[c])] < log[Pos + 1]
  OBVIOUS
<1>1. Pos \in DOMAIN log /\ Pos + 1 \in DOMAIN log /\ heard[c][Len(heard[c])] <= log[Pos]
  BY Place, Lists DEF Heard
<1>2. log[Pos] < log[Pos + 1] /\ log[Pos] \in Nat /\ log[Pos + 1] \in Nat
  BY <1>1, Values, Place DEF Said
<1>3. heard[c][Len(heard[c])] \in Nat
  <2>1. heard[c] \in Seq(1 .. MaxSaid) /\ Len(heard[c]) \in DOMAIN heard[c]
    BY DEF TypeOK
  <2>2. heard[c][Len(heard[c])] \in 1 .. MaxSaid
    BY <2>1, Elements
  <2> QED
    BY <2>2
<1> QED
  BY <1>1, <1>2, <1>3

\* A step that leaves the reader and its walk alone, and what all have heard.
LEMMA HeardStays ==
    ASSUME TypeOK, Rest, Heard, Pos' = Pos, UNCHANGED heard,
           Pos > 0 => log'[Pos] = log[Pos],
           rpc' = "cast" => rpc = "cast",
           to'[Reader] # None => rpc' = "cast" /\ to'[Reader] = to[Reader],
           rpc' = "cast" => \A c \in Clients :
               Ahead(c)' => Ahead(c) \/ (heard[c] = <<>> /\ to[Reader] # c)
    PROVE  Heard'
<1>1. \A c \in Clients : heard[c] # <<>> => Pos > 0 /\ heard[c][Len(heard[c])] <= log[Pos]
  BY DEF Heard
<1>2. to[Reader] \in Clients \cup {None}
  BY DEF TypeOK, Threads
<1>3. ASSUME rpc' = "cast", NEW c \in Clients, heard[c] # <<>>, to'[Reader] = c \/ Ahead(c)'
      PROVE  heard[c][Len(heard[c])] < log[Pos]
  BY <1>3, BridgeAssumption DEF Heard
<1>4. ASSUME NEW c \in Clients, to'[Reader] = c PROVE ~Ahead(c)'
  BY <1>4, BridgeAssumption DEF Heard
<1>5. ASSUME NEW c \in Clients, heard[c] # <<>> PROVE log'[Pos] = log[Pos]
  BY <1>1, <1>5
<1> QED
  BY <1>1, <1>3, <1>4, <1>5 DEF Heard

LEMMA HeardKept == IInv /\ [Next]_vars => Heard'
<1> SUFFICES ASSUME IInv, [Next]_vars PROVE Heard'
  OBVIOUS
<1>0. TypeOK /\ Said /\ Rest /\ Listed /\ Heard /\ TypeOK' /\ Rest'
  BY TypeKept, RestKept DEF IInv
<1>p. Pos \in Nat /\ Pos <= Len(log) /\ (Sending => Pos >= 1)
  <2>1. Gone \in Nat
    BY <1>0, Lists DEF Rest
  <2> QED
    BY <1>0, <2>1, Place
<1>1. CASE UNCHANGED <<log, pipe, lines, rpc, heard, to, clients>> /\ idx'[Reader] = idx[Reader]
  <2>1. UNCHANGED <<Pos, log, rpc, heard, to>> /\ \A c \in Clients : Ahead(c)' = Ahead(c)
    BY <1>1 DEF Pos, Gone, Sending, Ahead
  <2>2. to'[Reader] # None => rpc' = "cast"
    BY <1>0, <2>1 DEF Heard
  <2> QED
    BY <1>0, <2>1, <2>2, HeardStays
<1>2. CASE WriterOpens \/ WriterWrites
  <2>1. UNCHANGED <<lines, heard, to, clients, idx>> /\ (rpc' = "cast" <=> rpc = "cast")
    BY <1>2 DEF WriterOpens, WriterWrites, reader, threads
  <2>2. (Sending' <=> Sending) /\ \A c \in Clients : Ahead(c)' <=> Ahead(c)
    BY <1>2, <2>1 DEF WriterOpens, WriterWrites, reader, Sending, Ahead
  <2>3. \/ UNCHANGED <<log, pipe>>
        \/ log' = Append(log, said) /\ pipe' = Append(pipe, said)
    BY <1>2 DEF WriterOpens, WriterWrites
  <2>4. /\ Len(log') - Len(pipe') = Len(log) - Len(pipe) /\ Len(lines') = Len(lines)
        /\ \A i \in 1 .. Len(log) : log'[i] = log[i]
    <3>1. CASE UNCHANGED <<log, pipe>>
      BY <2>1, <3>1
    <3>2. CASE log' = Append(log, said) /\ pipe' = Append(pipe, said)
      <4>1. Len(log') = Len(log) + 1 /\ \A i \in 1 .. Len(log) : log'[i] = log[i]
        BY <1>0, <3>2 DEF TypeOK
      <4>2. Len(pipe') = Len(pipe) + 1
        BY <1>0, <3>2 DEF TypeOK
      <4> QED
        BY <1>0, <2>1, <4>1, <4>2, Lists
    <3> QED
      BY <2>3, <3>1, <3>2
  <2>5. Pos' = Pos
    BY <2>2, <2>4 DEF Pos, Gone
  <2> QED
    BY <1>0, <1>p, <2>1, <2>2, <2>4, <2>5, HeardStays DEF Heard
<1>3. CASE ReaderReads \/ ReaderNextLine
  <2>1. UNCHANGED <<log, heard, to, clients>> /\ to[Reader] = None
    BY <1>0, <1>3 DEF ReaderReads, ReaderNextLine, Picked, Heard, writer, threads
  <2>2. CASE rpc' = "cast"
    <3>1. Pos' = Pos + 1
      <4>1. CASE ReaderReads
        <5>1. Sending' /\ ~Sending /\ lines = <<>> /\ lines' = pipe /\ pipe' = <<>>
          BY <1>0, <4>1 DEF ReaderReads, Sending, Rest
        <5> QED
          BY <1>0, <2>1, <5>1, Lists DEF Pos, Gone
      <4>2. CASE ReaderNextLine
        <5>1. Sending' /\ Sending /\ lines # <<>> /\ lines' = Tail(lines) /\ pipe' = pipe
          BY <1>0, <2>2, <4>2 DEF ReaderNextLine, Sending, Rest
        <5>2. Len(lines') = Len(lines) - 1
          BY <1>0, <5>1 DEF TypeOK
        <5> QED
          BY <1>0, <2>1, <5>1, <5>2, Lists DEF Pos, Gone
      <4> QED
        BY <1>3, <4>1, <4>2
    <3>2. Pos + 1 <= Len(log)
      <4>1. CASE ReaderReads
        <5>1. ~Sending /\ Len(pipe) >= 1 /\ Len(lines) = 0
          BY <1>0, <4>1 DEF ReaderReads, Sending, Rest, TypeOK
        <5> QED
          BY <1>0, <5>1, Lists DEF Pos, Gone
      <4>2. CASE ReaderNextLine
        <5>1. Sending /\ Len(lines) > 1
          BY <2>2, <4>2 DEF ReaderNextLine, Sending
        <5> QED
          BY <1>0, <5>1, Lists DEF Pos, Gone
      <4> QED
        BY <1>3, <4>1, <4>2
    <3>3. \A c \in Clients : heard[c] # <<>> => heard[c][Len(heard[c])] < log[Pos + 1]
      BY <1>0, <1>p, <3>2, LoggedBy, Lists
    <3>4. \A c \in Clients : heard[c] # <<>> => heard[c][Len(heard[c])] <= log[Pos + 1]
      <4> TAKE c \in Clients
      <4> HAVE heard[c] # <<>>
      <4>1. heard[c] \in Seq(1 .. MaxSaid) /\ Len(heard[c]) \in DOMAIN heard[c]
        BY <1>0 DEF TypeOK
      <4>2. heard[c][Len(heard[c])] \in 1 .. MaxSaid
        BY <4>1, Elements
      <4>3. log[Pos + 1] \in Nat
        BY <1>0, <1>p, <3>2, Values, Lists
      <4> QED
        BY <3>3, <4>2, <4>3
    <3> QED
      BY <1>p, <2>1, <2>2, <3>1, <3>3, <3>4, BridgeAssumption DEF Heard
  <2>3. CASE rpc' # "cast"
    <3>1. ReaderNextLine /\ rpc' = "read" /\ ~(Len(lines) > 1)
      BY <1>3, <2>3 DEF ReaderReads, ReaderNextLine
    <3>2. Sending /\ ~Sending' /\ lines' = Tail(lines) /\ pipe' = pipe /\ lines # <<>>
      BY <1>0, <3>1 DEF ReaderNextLine, Sending, Rest
    <3>a. Len(lines) >= 1 /\ Len(lines') = Len(lines) - 1
      BY <1>0, <3>2 DEF TypeOK
    <3>3. Len(lines) = 1 /\ Len(lines') = 0
      BY <1>0, <3>1, <3>a, Lists
    <3>4. Pos' = Pos
      <4>1. Gone' = Len(log) - Len(pipe) - 0 /\ Gone = Len(log) - Len(pipe) - 1
        BY <2>1, <3>2, <3>3 DEF Gone
      <4> QED
        BY <1>0, <3>2, <4>1, Lists DEF Pos
    <3> QED
      BY <1>0, <2>1, <2>3, <3>4, HeardStays
  <2> QED
    BY <2>2, <2>3
<1>4. CASE ReaderOpens \/ ReaderEnds \/ ReaderDies
  <2>1. /\ UNCHANGED <<log, pipe, lines, heard, to, clients, idx>> /\ (Sending' <=> Sending)
        /\ rpc' # "cast" /\ rpc # "cast"
    BY <1>4 DEF ReaderOpens, ReaderEnds, ReaderDies, writer, threads, Sending
  <2>2. Pos' = Pos /\ to[Reader] = None
    BY <1>0, <2>1 DEF Pos, Gone, Heard
  <2> QED
    BY <1>0, <2>1, <2>2, HeardStays DEF Ahead
<1>5. CASE ReaderPicks
  <2>1. /\ UNCHANGED <<log, pipe, lines, heard, clients, rpc>> /\ rpc = "cast"
        /\ to[Reader] = None /\ idx[Reader] <= Len(clients)
        /\ to' = [to EXCEPT ![Reader] = clients[idx[Reader]]]
        /\ idx' = [idx EXCEPT ![Reader] = @ + 1]
    BY <1>5 DEF ReaderPicks, Pick, writer, reader, threads
  <2>2. /\ to'[Reader] = clients[idx[Reader]] /\ idx'[Reader] = idx[Reader] + 1
        /\ idx[Reader] \in 1 .. Len(clients)
    BY <1>0, <2>1, Lists DEF TypeOK, Threads, Listed
  <2>3. Pos' = Pos
    BY <2>1 DEF Pos, Gone, Sending
  <2>4. \A c \in Clients : to'[Reader] = c \/ Ahead(c)' => Ahead(c)
    BY <1>0, <2>1, <2>2, Lists DEF Ahead
  <2>5. \A c \in Clients : to'[Reader] = c => ~Ahead(c)'
    <3> SUFFICES ASSUME NEW i \in idx[Reader] + 1 .. Len(clients)
                 PROVE  clients[i] # clients[idx[Reader]]
      BY <2>1, <2>2 DEF Ahead
    <3>1. i \in DOMAIN clients /\ idx[Reader] \in DOMAIN clients /\ i # idx[Reader]
      BY <1>0, <2>2, Lists
    <3> QED
      BY <1>0, <3>1 DEF Listed, Once
  <2> QED
    BY <1>0, <2>1, <2>3, <2>4, <2>5 DEF Heard
<1>6. CASE ReaderSends
  <2>1. /\ UNCHANGED <<log, pipe, lines, clients, idx>> /\ rpc = "cast"
        /\ to[Reader] # None /\ to'[Reader] = None /\ (Sending' <=> Sending)
    BY <1>0, <1>6 DEF ReaderSends, writer, threads, Sending, TypeOK, Threads
  <2>2. Pos' = Pos /\ Sending /\ Head(lines) = log[Pos] /\ \A c \in Clients : Ahead(c)' = Ahead(c)
    BY <1>0, <2>1, Place DEF Pos, Gone, Ahead, Sending
  <2>3. CASE UNCHANGED heard
    BY <1>0, <2>1, <2>2, <2>3, HeardStays
  <2>4. CASE heard' = [heard EXCEPT ![to[Reader]] = Append(@, Head(lines))]
    <3>1. to[Reader] \in Clients /\ ~Ahead(to[Reader])
      BY <1>0, <2>1 DEF TypeOK, Threads, Heard
    <3>2. \A c \in Clients : c # to[Reader] => heard'[c] = heard[c]
      BY <1>0, <2>4 DEF TypeOK
    <3>3. heard'[to[Reader]][Len(heard'[to[Reader]])] = log[Pos]
      BY <1>0, <2>2, <2>4, <3>1 DEF TypeOK
    <3>4. log[Pos] \in Nat /\ Pos >= 1
      BY <1>0, <1>p, <2>2, Values, Lists
    <3>5. ASSUME NEW c \in Clients, heard'[c] # <<>>
          PROVE  Pos > 0 /\ heard'[c][Len(heard'[c])] <= log[Pos]
      <4>1. CASE c = to[Reader]
        BY <1>p, <3>3, <3>4, <4>1
      <4>2. CASE c # to[Reader]
        BY <1>0, <3>2, <3>5, <4>2 DEF Heard
      <4> QED
        BY <4>1, <4>2
    <3>6. \A c \in Clients : Ahead(c) /\ heard'[c] # <<>> => heard'[c][Len(heard'[c])] < log[Pos]
      BY <1>0, <2>1, <3>1, <3>2 DEF Heard
    <3> QED
      BY <2>1, <2>2, <3>5, <3>6, BridgeAssumption DEF Heard
  <2> QED
    BY <1>6, <2>3, <2>4 DEF ReaderSends
<1>7. ASSUME NEW c \in Clients, HandlerJoins(c) PROVE Heard'
  <2>1. /\ UNCHANGED <<log, pipe, lines, heard, to, idx, rpc>> /\ clients' = Append(clients, c)
        /\ heard[c] = <<>> /\ to[Reader] # c
    BY <1>0, <1>7 DEF HandlerJoins, HandlerAt, writer, reader, Listed, Threads
  <2>2. UNCHANGED <<Pos, heard, rpc, to>>
    BY <2>1 DEF Pos, Gone, Sending
  <2>3. \A d \in Clients : Ahead(d)' => Ahead(d) \/ d = c
    <3>1. /\ Len(clients') = Len(clients) + 1 /\ clients'[Len(clients) + 1] = c
          /\ \A i \in 1 .. Len(clients) : clients'[i] = clients[i]
      BY <1>0, <2>1, Longer DEF TypeOK
    <3>2. idx[Reader] \in Nat /\ idx[Reader] >= 1 /\ Len(clients) \in Nat
      BY <1>0, Lists DEF TypeOK, Threads, Listed
    <3> QED
      BY <2>1, <3>1, <3>2 DEF Ahead
  <2>4. to[Reader] # None => rpc = "cast"
    BY <1>0 DEF Heard
  <2> QED
    BY <1>0, <2>1, <2>2, <2>3, <2>4, HeardStays
<1>8. ASSUME NEW c \in Clients, HandlerRemoves(c) PROVE Heard'
  <2>1. /\ UNCHANGED <<log, pipe, lines, heard, to, idx, rpc>>
        /\ clients' = RemoveFirst(clients, c)
    BY <1>8 DEF HandlerRemoves, writer, reader
  <2>2. UNCHANGED <<Pos, heard, rpc, to>>
    BY <2>1 DEF Pos, Gone, Sending
  <2>3. Len(clients') \in Nat /\ \A i \in 1 .. Len(clients') : \E k \in i .. Len(clients) : clients'[i] = clients[k]
    <3>1. clients \in Seq(Clients) /\ Once(clients)
      BY <1>0 DEF TypeOK, Listed
    <3>2. clients' \in Seq(Clients)
      BY <1>0 DEF TypeOK
    <3> QED
      BY <2>1, <3>1, <3>2, Shorter
  <2>4. \A d \in Clients : Ahead(d)' => Ahead(d)
    <3>1. idx[Reader] \in Nat /\ idx[Reader] >= 1 /\ Len(clients) \in Nat
      BY <1>0, Lists DEF TypeOK, Threads, Listed
    <3> QED
      BY <2>1, <2>3, <3>1 DEF Ahead
  <2>5. to[Reader] # None => rpc = "cast"
    BY <1>0 DEF Heard
  <2> QED
    BY <1>0, <2>1, <2>2, <2>4, <2>5, HeardStays
<1>9. ASSUME NEW c \in Clients,
             \/ GreetPicks(c) \/ GreetSends(c) \/ Greeted(c) \/ HandlerEnds(c)
             \/ HandlerSearches(c) \/ HandlerFails(c) \/ HandlerCloses(c) \/ ClientGoes(c)
      PROVE  Heard'
  <2>1. UNCHANGED <<log, pipe, lines, rpc, heard, clients>>
    BY <1>9 DEF GreetPicks, GreetSends, Greeted, HandlerEnds, HandlerSearches,
       HandlerFails, HandlerCloses,
       ClientGoes, writer, reader, threads
  <2>2. to'[Reader] = to[Reader] /\ idx'[Reader] = idx[Reader]
    BY <1>0, <1>9, BridgeAssumption DEF GreetPicks, GreetSends, Greeted, HandlerEnds,
       HandlerSearches,
       HandlerFails, HandlerCloses, ClientGoes, Pick, TypeOK, Threads
  <2> QED
    BY <1>0, <2>1, <2>2, HeardStays DEF Pos, Gone, Sending, Ahead, Heard
<1> QED
  BY <1>1, <1>2, <1>3, <1>4, <1>5, <1>6, <1>7, <1>8, <1>9, Steps DEF Send, WriterCloses,
     WriterKilled, WriterStarts, threads, reader, vars

\* A step that leaves the walk alone, and lets nobody come back.
LEMMA WalkStays ==
    ASSUME Walked, UNCHANGED <<rpc, lines, audience, moved, to, heard>>,
           \A c \in Clients : Ahead(c) => Ahead(c)',
           \A c \in audience : conn'[c] = "up" => conn[c] = "up",
           audience \subseteq Clients
    PROVE  Walked'
  BY DEF Walked

LEMMA WalkedKept == IInv /\ [Next]_vars => Walked'
<1> SUFFICES ASSUME IInv, [Next]_vars PROVE Walked'
  OBVIOUS
<1>0. TypeOK /\ Listed /\ Walked /\ TypeOK' /\ audience \subseteq Clients
  BY TypeKept DEF IInv, TypeOK
<1>1. ASSUME UNCHANGED <<rpc, lines, audience, moved, heard, clients, conn>>,
             to'[Reader] = to[Reader], idx'[Reader] = idx[Reader]
      PROVE  Walked'
  BY <1>0, <1>1 DEF Walked, Ahead
<1>2. CASE WriterOpens
  <2>1. /\ UNCHANGED <<lines, audience, moved, heard, clients, conn, to, idx>>
        /\ rpc' = "cast" => rpc = "cast"
    BY <1>2 DEF WriterOpens, threads
  <2> QED
    BY <1>0, <2>1 DEF Walked, Ahead
<1>3. CASE ReaderReads \/ ReaderNextLine
  <2>1. /\ UNCHANGED <<clients, conn>> /\ idx'[Reader] = 1 /\ audience' = Range(clients)
    BY <1>0, <1>3 DEF ReaderReads, ReaderNextLine, BeginLine, threads, TypeOK, Threads
  <2>2. \A c \in audience' : Ahead(c)'
    BY <1>0, <2>1, Lists DEF Ahead, Range
  <2> QED
    BY <2>2 DEF Walked
<1>4. CASE ReaderOpens \/ ReaderEnds \/ ReaderDies
  BY <1>4 DEF Walked, ReaderOpens, ReaderEnds, ReaderDies
<1>5. CASE ReaderPicks
  <2>1. /\ UNCHANGED <<rpc, lines, audience, moved, heard, clients, conn>>
        /\ to[Reader] = None /\ idx[Reader] <= Len(clients)
        /\ to'[Reader] = clients[idx[Reader]] /\ idx'[Reader] = idx[Reader] + 1
    BY <1>0, <1>5 DEF ReaderPicks, Pick, reader, threads, TypeOK, Threads
  <2>2. idx[Reader] \in Nat /\ Len(clients) \in Nat
    BY <1>0, Lists DEF TypeOK, Threads
  <2>3. \A c \in Clients : Ahead(c) => Ahead(c)' \/ to'[Reader] = c
    BY <2>1, <2>2 DEF Ahead
  <2> QED
    BY <1>0, <2>1, <2>3, BridgeAssumption DEF Walked
<1>6. CASE ReaderSends
  <2>1. /\ UNCHANGED <<lines, audience, moved, clients, conn, idx>> /\ rpc = "cast"
        /\ to[Reader] \in Clients
        /\ \A c \in Clients : Ahead(c)' = Ahead(c)
    BY <1>0, <1>6 DEF ReaderSends, threads, Ahead, TypeOK, Threads
  <2>2. CASE Raises(to[Reader]) /\ rpc' = "dying"
    BY <2>2 DEF Walked
  <2>3. CASE Swallows(to[Reader]) /\ UNCHANGED heard
    BY <1>0, <2>1, <2>3 DEF Walked, Swallows
  <2>4. CASE Delivers(to[Reader]) /\ heard' = [heard EXCEPT ![to[Reader]] = Append(@, Head(lines))]
    <3>1. \A c \in Clients : c # to[Reader] => heard'[c] = heard[c]
      BY <1>0, <2>4 DEF TypeOK
    <3>2. Head(lines) \in Range(heard'[to[Reader]])
      <4>1. heard'[to[Reader]] = Append(heard[to[Reader]], Head(lines))
        BY <1>0, <2>1, <2>4 DEF TypeOK
      <4>2. heard[to[Reader]] \in Seq(1 .. MaxSaid) /\ heard'[to[Reader]] \in Seq(1 .. MaxSaid)
        BY <1>0, <2>1 DEF TypeOK
      <4>3. Len(heard'[to[Reader]]) \in DOMAIN heard'[to[Reader]]
            /\ heard'[to[Reader]][Len(heard'[to[Reader]])] = Head(lines)
        BY <4>1, <4>2
      <4> QED
        BY <4>3 DEF Range
    <3> QED
      BY <1>0, <2>1, <3>1, <3>2 DEF Walked
  <2> QED
    BY <1>6, <2>2, <2>3, <2>4 DEF ReaderSends
<1>7. ASSUME NEW c \in Clients, HandlerJoins(c) PROVE Walked'
  <2>1. /\ UNCHANGED <<rpc, lines, audience, moved, heard, to, idx>>
        /\ clients' = Append(clients, c) /\ c \notin audience
        /\ \A d \in Clients : d # c => conn'[d] = conn[d]
    BY <1>0, <1>7 DEF HandlerJoins, HandlerAt, reader, Listed, TypeOK
  <2>2. \A d \in Clients : Ahead(d) => Ahead(d)'
    <3>1. /\ Len(clients') = Len(clients) + 1 /\ Len(clients) \in Nat
          /\ \A i \in 1 .. Len(clients) : clients'[i] = clients[i]
      BY <1>0, <2>1, Longer DEF TypeOK
    <3>2. idx[Reader] \in Nat /\ idx[Reader] >= 1
      BY <1>0 DEF TypeOK, Threads, Listed
    <3> QED
      BY <2>1, <3>1, <3>2 DEF Ahead
  <2> QED
    BY <1>0, <2>1, <2>2, WalkStays
<1>8. ASSUME NEW c \in Clients, HandlerRemoves(c) PROVE Walked'
  BY <1>8 DEF HandlerRemoves, Walked
<1>9. ASSUME NEW c \in Clients,
             \/ GreetPicks(c) \/ GreetSends(c) \/ Greeted(c) \/ HandlerEnds(c)
             \/ HandlerSearches(c) \/ HandlerFails(c)
      PROVE  Walked'
  <2>1. UNCHANGED <<rpc, lines, audience, moved, heard, clients, conn>>
    BY <1>9 DEF GreetPicks, GreetSends, Greeted, HandlerEnds, HandlerSearches, HandlerFails, reader, threads
  <2>2. to'[Reader] = to[Reader] /\ idx'[Reader] = idx[Reader]
    BY <1>0, <1>9, BridgeAssumption DEF GreetPicks, GreetSends, Greeted, HandlerEnds,
       HandlerSearches, HandlerFails, Pick, TypeOK, Threads
  <2> QED
    BY <1>1, <2>1, <2>2
<1>10. ASSUME NEW c \in Clients, HandlerCloses(c) \/ ClientGoes(c) PROVE Walked'
  <2>1. /\ UNCHANGED <<rpc, lines, audience, moved, heard, clients, to, idx>>
        /\ \A d \in Clients : conn'[d] = "up" => conn[d] = "up"
    BY <1>0, <1>10 DEF HandlerCloses, ClientGoes, reader, TypeOK
  <2> QED
    BY <1>0, <2>1, WalkStays DEF Ahead
<1>11. CASE WriterWrites \/ WriterCloses \/ WriterKilled \/ WriterStarts \/ UNCHANGED vars
  BY <1>1, <1>11 DEF WriterWrites, WriterCloses, WriterKilled, WriterStarts, vars, reader, threads
<1> QED
  BY <1>2, <1>3, <1>4, <1>5, <1>6, <1>7, <1>8, <1>9, <1>10, <1>11, Steps DEF Send

\* Who is past removing itself stays past it.
LEMMA SearchedKept == IInv /\ [Next]_vars => Searched'
<1> SUFFICES ASSUME IInv, [Next]_vars PROVE Searched'
  OBVIOUS
<1>0. TypeOK /\ Listed /\ Searched /\ TypeOK'
  BY TypeKept DEF IInv
<1>1. ASSUME UNCHANGED <<hpc, clients>>, \A c \in Clients : hpc[c] = "search" => idx'[c] = idx[c]
      PROVE  Searched'
  BY <1>0, <1>1 DEF Searched
<1>2. CASE Send \/ WriterKilled \/ WriterStarts \/ UNCHANGED vars
  BY <1>1, <1>2 DEF Send, WriterOpens, WriterWrites, WriterCloses, WriterKilled, WriterStarts,
     vars, threads
<1>3. CASE \/ ReaderOpens \/ ReaderReads \/ ReaderEnds \/ ReaderPicks \/ ReaderSends
           \/ ReaderNextLine \/ ReaderDies
  <2>1. UNCHANGED <<hpc, clients>>
    BY <1>3 DEF ReaderOpens, ReaderReads, ReaderEnds, ReaderPicks, ReaderSends,
       ReaderNextLine, ReaderDies, threads
  <2>2. \A c \in Clients : idx'[c] = idx[c]
    BY <1>0, <1>3, BridgeAssumption DEF ReaderOpens, ReaderReads, ReaderEnds, ReaderPicks,
       ReaderSends, ReaderNextLine, ReaderDies, BeginLine, Pick, TypeOK, Threads
  <2> QED
    BY <1>1, <2>1, <2>2
<1>4. ASSUME NEW c \in Clients, GreetPicks(c) \/ ClientGoes(c) PROVE Searched'
  <2>1. UNCHANGED <<hpc, clients>>
    BY <1>4 DEF GreetPicks, ClientGoes, threads
  <2>2. \A d \in Clients : hpc[d] = "search" => idx'[d] = idx[d]
    BY <1>0, <1>4 DEF GreetPicks, ClientGoes, Pick, TypeOK, Threads
  <2> QED
    BY <1>1, <2>1, <2>2
<1>5. ASSUME NEW c \in Clients, HandlerJoins(c) PROVE Searched'
  <2>1. /\ hpc[c] = "out" /\ UNCHANGED idx /\ clients' = Append(clients, c)
        /\ \A d \in Clients : hpc'[d] = IF d = c THEN "greet" ELSE hpc[d]
    BY <1>0, <1>5 DEF HandlerJoins, HandlerAt, TypeOK
  <2>2. /\ Len(clients') = Len(clients) + 1 /\ Len(clients) \in Nat
        /\ \A i \in 1 .. Len(clients) : clients'[i] = clients[i]
        /\ Range(clients') = Range(clients) \cup {c}
    BY <1>0, <2>1, Longer DEF TypeOK
  <2>3. \A d \in Clients : idx[d] \in Nat /\ idx[d] >= 1
    BY <1>0 DEF TypeOK, Threads, Listed
  <2> QED
    BY <1>0, <2>1, <2>2, <2>3 DEF Searched
<1>6. ASSUME NEW c \in Clients, HandlerRemoves(c) PROVE Searched'
  <2>1. /\ clients' = RemoveFirst(clients, c) /\ hpc'[c] = "close" /\ hpc[c] = "remove"
        /\ \A d \in Clients : d # c => hpc'[d] = hpc[d]
    BY <1>0, <1>6 DEF HandlerRemoves, HandlerAt, TypeOK
  <2>2. c \notin Range(clients')
    BY <1>0, <2>1, Shorter DEF TypeOK, Listed
  <2> QED
    BY <1>0, <2>1, <2>2 DEF Searched
\* A client that begins its look-up is listed, and looks from the start.
<1>7. ASSUME NEW c \in Clients, GreetSends(c) \/ Greeted(c) \/ HandlerEnds(c) PROVE Searched'
  <2>1. /\ UNCHANGED clients /\ hpc[c] \in {"greet", "serve"}
        /\ \A d \in Clients : d # c => hpc'[d] = hpc[d] /\ idx'[d] = idx[d]
        /\ \/ hpc'[c] \in {"greet", "serve"}
           \/ hpc'[c] = "search" /\ idx'[c] = 1
    BY <1>0, <1>7 DEF GreetSends, Greeted, HandlerEnds, HandlerAt, TypeOK, Threads
  <2>2. \E i \in 1 .. Len(clients) : clients[i] = c
    BY <1>0, <2>1, Lists DEF Listed, Range
  <2> QED
    BY <1>0, <2>1, <2>2 DEF Searched
<1>8. ASSUME NEW c \in Clients, HandlerSearches(c) PROVE Searched'
  <2>1. /\ UNCHANGED clients /\ hpc[c] = "search" /\ idx[c] \in Nat /\ idx[c] >= 1
        /\ \A d \in Clients : d # c => hpc'[d] = hpc[d] /\ idx'[d] = idx[d]
    BY <1>0, <1>8 DEF HandlerSearches, HandlerAt, TypeOK, Threads, Listed
  <2>2. \/ hpc'[c] = "remove"
        \/ hpc'[c] = "search" /\ idx'[c] = idx[c] + 1 /\ clients[idx[c]] # c
        \/ hpc'[c] = "close" /\ idx[c] > Len(clients)
    BY <1>0, <1>8 DEF HandlerSearches, HandlerAt, TypeOK, Threads
  <2>3. Len(clients) \in Nat
    BY <1>0, Lists
  <2> QED
    BY <1>0, <2>1, <2>2, <2>3 DEF Searched
<1>9. ASSUME NEW c \in Clients, HandlerFails(c) \/ HandlerCloses(c) PROVE Searched'
  <2>1. /\ UNCHANGED <<clients, idx>>
        /\ \/ hpc[c] = "close" /\ hpc'[c] = "done"
           \/ hpc[c] \in {"remove", "failed"} /\ hpc'[c] \in {"failed", "stale"}
        /\ \A d \in Clients : d # c => hpc'[d] = hpc[d]
    BY <1>0, <1>9 DEF HandlerFails, HandlerCloses, HandlerAt, TypeOK
  <2> QED
    BY <1>0, <2>1 DEF Searched
<1> QED
  BY <1>2, <1>3, <1>4, <1>5, <1>6, <1>7, <1>8, <1>9, Steps

LEMMA NextInv == IInv /\ [Next]_vars => IInv'
  BY TypeKept, SaidKept, RestKept, ReaderKept, ListedKept, HeardKept, WalkedKept, SearchedKept
     DEF IInv

LEMMA Invariant == Spec => []IInv
  BY InitInv, NextInv, PTL DEF Spec

---------------------------------------------------------------------------
\* Every variable keeps its type.
THEOREM TypeCorrectness == Spec => []TypeOK
<1>1. IInv => TypeOK
  BY DEF IInv
<1> QED
  BY <1>1, Invariant, PTL

\* A sequence that agrees with the end of another is its suffix.
LEMMA Ends ==
    ASSUME NEW S, NEW q \in Seq(S), NEW s \in Seq(S), Len(q) <= Len(s),
           \A i \in 1 .. Len(q) : q[i] = s[Len(s) - Len(q) + i]
    PROVE  IsSuffix(q, s)
<1> DEFINE n == Len(q)
<1>1. n \in Nat /\ Len(s) \in Nat /\ n <= Len(s)
  OBVIOUS
<1>2. Reverse(q) \in Seq(S) /\ Len(Reverse(q)) = n
  BY DEF Reverse
<1>3. Reverse(s) \in Seq(S) /\ Len(Reverse(s)) = Len(s)
  BY DEF Reverse
<1>4. ASSUME NEW i \in 1 .. n PROVE Reverse(q)[i] = Reverse(s)[i]
  <2>1. Reverse(q)[i] = q[n - i + 1]
    BY DEF Reverse
  <2>2. Reverse(s)[i] = s[Len(s) - i + 1]
    BY <1>1 DEF Reverse
  <2>3. n - i + 1 \in 1 .. n /\ Len(s) - n + (n - i + 1) = Len(s) - i + 1
    BY <1>1
  <2> QED
    BY <2>1, <2>2, <2>3
<1>5. SubSeq(Reverse(q), 1, n) = SubSeq(Reverse(s), 1, n)
  BY <1>1, <1>2, <1>3, <1>4
<1> QED
  BY <1>1, <1>2, <1>3, <1>5 DEF IsSuffix, IsPrefix

\* While MyReadThread lives, what got into the FIFO is there, in its buffer or
\* was sent, through every reopening of the file and every kill of the tracker;
\* and a tracker that opened the FIFO has its reader when it writes.
THEOREM NothingIsLost == Spec => []NoneLostOnTheWay
<1>1. IInv => NoneLostOnTheWay
  <2> SUFFICES ASSUME IInv PROVE NoneLostOnTheWay
    OBVIOUS
  <2>0. /\ TypeOK /\ Rest /\ WriterHasReader
    BY DEF IInv
  <2>s. log \in Seq(1 .. MaxSaid) /\ pipe \in Seq(1 .. MaxSaid) /\ lines \in Seq(1 .. MaxSaid)
    BY <2>0 DEF TypeOK
  <2>1. /\ Gone \in Nat /\ Gone + Len(lines) + Len(pipe) = Len(log)
        /\ Len(log) \in Nat /\ Len(pipe) \in Nat /\ Len(lines) \in Nat
    BY <2>0, Lists DEF Rest, Gone
  <2>2. IsSuffix(pipe, log)
    <3>1. \A i \in 1 .. Len(pipe) : pipe[i] = log[Len(log) - Len(pipe) + i]
      <4> TAKE i \in 1 .. Len(pipe)
      <4>1. Gone + Len(lines) + i = Len(log) - Len(pipe) + i
        BY <2>1
      <4> QED
        BY <2>0, <4>1 DEF Rest
    <3>2. Len(pipe) <= Len(log)
      BY <2>1
    <3> QED
      BY <2>s, <3>1, <3>2, Ends
  <2>3. IsSuffix(lines \o pipe, log)
    <3> DEFINE r == lines \o pipe
    <3>1. /\ r \in Seq(1 .. MaxSaid) /\ Len(r) = Len(lines) + Len(pipe)
          /\ \A i \in 1 .. Len(lines) + Len(pipe) :
                 r[i] = IF i <= Len(lines) THEN lines[i] ELSE pipe[i - Len(lines)]
      BY <2>s, ConcatProperties
    <3> HIDE DEF r
    <3>2. ASSUME NEW i \in 1 .. Len(r) PROVE r[i] = log[Len(log) - Len(r) + i]
      <4>1. /\ i \in 1 .. Len(lines) + Len(pipe) /\ i \in Nat /\ i >= 1
            /\ Len(log) - Len(r) = Gone
        <5>1. Len(r) \in Nat /\ Len(r) = Len(lines) + Len(pipe)
          BY <2>1, <3>1
        <5> QED
          BY <2>1, <5>1
      <4>2. CASE i <= Len(lines)
        <5>1. i \in 1 .. Len(lines)
          BY <2>1, <4>1, <4>2
        <5> QED
          BY <2>0, <3>1, <4>1, <4>2, <5>1 DEF Rest
      <4>3. CASE ~ i <= Len(lines)
        <5>1. i - Len(lines) \in 1 .. Len(pipe) /\ Gone + Len(lines) + (i - Len(lines)) = Gone + i
          BY <2>1, <4>1, <4>3
        <5> QED
          BY <2>0, <3>1, <4>1, <4>3, <5>1 DEF Rest
      <4> QED
        BY <4>2, <4>3
    <3>3. Len(r) <= Len(log)
      BY <2>1, <3>1
    <3>4. IsSuffix(r, log)
      BY <2>s, <3>1, <3>2, <3>3, Ends
    <3> QED
      BY <3>4 DEF r
  <2> QED
    BY <2>0, <2>2, <2>3 DEF NoneLostOnTheWay, WriterHasReader
<1> QED
  BY <1>1, Invariant, PTL

\* _multicast_ reaches whoever was listed and is still connected, unless the
\* list was cut under its walk.
THEOREM ListedHear == Spec => []LineReachesAll
<1>1. IInv => LineReachesAll
  <2> SUFFICES ASSUME IInv, rpc = "cast", Picked(Reader), ~moved,
                      NEW c \in audience, conn[c] = "up"
               PROVE  Head(lines) \in Range(heard[c])
    BY DEF LineReachesAll
  <2>1. TypeOK /\ Walked
    BY DEF IInv
  <2>2. to[Reader] # c /\ ~Ahead(c)
    BY <2>1, Lists, BridgeAssumption DEF Picked, Ahead, TypeOK, Threads
  <2> QED
    BY <2>1, <2>2 DEF Walked
<1> QED
  BY <1>1, Invariant, PTL

\* _client_left_ that comes to its end leaves its client listed only when the
\* removal of another moved the list under handler_to_client.
THEOREM OnlyRacesLeaveListed == Spec => []StaysListedByRace
<1>1. IInv => StaysListedByRace
  <2> SUFFICES ASSUME IInv, NEW c \in Range(clients), hpc[c] = "done"
               PROVE  \E d \in Clients \ Range(clients) : hpc[d] \in {"close", "done"}
    BY DEF StaysListedByRace
  <2>1. c \in Clients
    BY DEF IInv, TypeOK, Range
  <2> QED
    BY <2>1 DEF IInv, Searched
<1> QED
  BY <1>1, Invariant, PTL

---------------------------------------------------------------------------
(* The bridge implements EventChannel.                                     *)

Over == rpc \in {"dying", "dead"}

LEMMA ChannelInit == Init => Channel!Init
<1> SUFFICES ASSUME Init PROVE Channel!Init
  OBVIOUS
<1>1. Len(log) = 0 /\ Len(pipe) = 0 /\ Len(lines) = 0 /\ ~Sending
  BY DEF Init, Sending
<1> QED
  BY <1>1 DEF Init, Channel!Init

LEMMA ChannelStutters ==
    ASSUME UNCHANGED <<log, heard>>, Pos' = Pos, Over' = Over
    PROVE  UNCHANGED Channel!vars
  BY DEF Channel!vars, Pos, Gone, Over

LEMMA ChannelEnters ==
    ASSUME TypeOK, Said, wpc = "write", log' = Append(log, said), UNCHANGED heard,
           Pos' = Pos, Over' = Over
    PROVE  Channel!Next
<1>1. said \in 1 .. MaxSaid
  BY DEF TypeOK, Said
<1>2. said > Channel!Newest(log)
  <2>1. CASE log = <<>>
    BY <1>1, <2>1 DEF Channel!Newest
  <2>2. CASE log # <<>>
    <3>1. Len(log) \in DOMAIN log
      BY <2>2 DEF TypeOK
    <3>2. log[Len(log)] < said /\ log[Len(log)] \in Nat /\ said \in Nat
      BY <3>1, Values DEF Said
    <3> QED
      BY <2>2, <3>2 DEF Channel!Newest
  <2> QED
    BY <2>1, <2>2
<1>3. Channel!Enter(said)
  BY <1>2 DEF Channel!Enter, Pos, Gone, Over
<1> QED
  BY <1>1, <1>3 DEF Channel!Next

LEMMA ChannelAnnounces ==
    ASSUME ~Over, ~Over', Pos < Len(log), Pos' = Pos + 1, UNCHANGED <<log, heard>>
    PROVE  Channel!Next
<1>1. Channel!Announce
  BY DEF Channel!Announce, Pos, Gone, Over
<1> QED
  BY <1>1 DEF Channel!Next

LEMMA ChannelHears ==
    ASSUME NEW c \in Clients, ~Over, ~Over', Pos > 0, Channel!Newest(heard[c]) < log[Pos],
           heard' = [heard EXCEPT ![c] = Append(@, log[Pos])], UNCHANGED log, Pos' = Pos
    PROVE  Channel!Next
<1>1. Channel!Hear(c)
  BY DEF Channel!Hear, Pos, Gone, Over
<1> QED
  BY <1>1 DEF Channel!Next

LEMMA ChannelCloses ==
    ASSUME Over', UNCHANGED <<log, heard>>, Pos' = Pos
    PROVE  Channel!Next
<1>1. Channel!Close
  BY DEF Channel!Close, Pos, Gone, Over
<1> QED
  BY <1>1 DEF Channel!Next

LEMMA NextChannel == IInv /\ [Next]_vars => [Channel!Next]_Channel!vars
<1> SUFFICES ASSUME IInv, [Next]_vars PROVE [Channel!Next]_Channel!vars
  OBVIOUS
<1>0. TypeOK /\ Said /\ Rest /\ Heard
  BY DEF IInv
<1>1. CASE UNCHANGED <<log, pipe, lines, rpc, heard>>
  BY <1>1, ChannelStutters DEF Pos, Gone, Sending, Over
<1>2. CASE WriterOpens \/ ReaderOpens \/ ReaderEnds \/ ReaderDies
  <2>1. UNCHANGED <<log, pipe, lines, heard>> /\ (Sending' <=> Sending) /\ Over' = Over
    BY <1>2 DEF WriterOpens, ReaderOpens, ReaderEnds, ReaderDies, writer, Sending, Over
  <2> QED
    BY <2>1, ChannelStutters DEF Pos, Gone
<1>3. CASE WriterWrites
  <2>1. CASE UNCHANGED <<log, pipe>>
    BY <1>1, <1>3, <2>1 DEF WriterWrites, reader
  <2>2. CASE log' = Append(log, said) /\ pipe' = Append(pipe, said)
    <3>1. UNCHANGED <<lines, rpc, heard>> /\ wpc = "write"
      BY <1>3 DEF WriterWrites, reader
    <3>2. Len(log') = Len(log) + 1
      BY <1>0, <2>2 DEF TypeOK
    <3>3. Len(pipe') = Len(pipe) + 1
      BY <1>0, <2>2 DEF TypeOK
    <3>4. Gone' = Gone
      BY <1>0, <3>1, <3>2, <3>3, Lists DEF Gone
    <3>5. Pos' = Pos /\ Over' = Over
      BY <3>1, <3>4 DEF Pos, Sending, Over
    <3> QED
      BY <1>0, <2>2, <3>1, <3>5, ChannelEnters
  <2> QED
    BY <1>3, <2>1, <2>2 DEF WriterWrites
<1>4. CASE ReaderReads
  <2>1. /\ ~Sending /\ Sending' /\ ~Over /\ ~Over' /\ lines = <<>> /\ lines' = pipe /\ pipe' = <<>>
        /\ pipe # <<>> /\ UNCHANGED <<log, heard>>
    BY <1>0, <1>4 DEF ReaderReads, Sending, Over, Rest, writer
  <2>2. Len(pipe) >= 1
    BY <1>0, <2>1 DEF TypeOK
  <2>3. Pos = Len(log) - Len(pipe) /\ Pos' = Len(log) - Len(pipe) + 1
    BY <1>0, <2>1, Lists DEF Pos, Gone
  <2> QED
    BY <1>0, <2>1, <2>2, <2>3, Lists, ChannelAnnounces
<1>5. CASE ReaderNextLine
  <2>1. /\ Sending /\ ~Over /\ ~Over' /\ lines # <<>> /\ lines' = Tail(lines)
        /\ UNCHANGED <<log, pipe, heard>>
        /\ Sending' <=> Len(lines) > 1
    BY <1>0, <1>5 DEF ReaderNextLine, Sending, Over, Rest, writer
  <2>2. Len(lines) >= 1 /\ Len(lines') = Len(lines) - 1
    BY <1>0, <2>1 DEF TypeOK
  <2>3. /\ Pos = Len(log) - Len(pipe) - Len(lines) + 1
        /\ Pos' = Len(log) - Len(pipe) - Len(lines) + 1 + (IF Len(lines) > 1 THEN 1 ELSE 0)
    BY <1>0, <2>1, <2>2, Lists DEF Pos, Gone
  <2>4. CASE Len(lines) > 1
    <3>1. Pos < Len(log) /\ Pos' = Pos + 1
      BY <1>0, <2>3, <2>4, Lists
    <3> QED
      BY <2>1, <3>1, ChannelAnnounces
  <2>5. CASE ~ Len(lines) > 1
    <3>1. Pos' = Pos
      BY <1>0, <2>3, <2>5, Lists
    <3> QED
      BY <2>1, <3>1, ChannelStutters DEF Over
  <2> QED
    BY <2>4, <2>5
<1>6. CASE ReaderSends
  <2>1. /\ UNCHANGED <<log, pipe, lines>> /\ rpc = "cast" /\ to[Reader] \in Clients
        /\ Sending /\ Sending' /\ ~Over
    BY <1>0, <1>6 DEF ReaderSends, writer, Sending, Over, TypeOK, Threads
  <2>2. Pos' = Pos /\ Head(lines) = log[Pos]
    BY <1>0, <2>1, Place DEF Pos, Gone
  <2>3. CASE UNCHANGED <<heard, rpc>>
    BY <1>1, <2>1, <2>3
  <2>4. CASE rpc' = "dying" /\ UNCHANGED heard
    BY <2>1, <2>2, <2>4, ChannelCloses DEF Over
  <2>5. CASE UNCHANGED rpc /\ heard' = [heard EXCEPT ![to[Reader]] = Append(@, Head(lines))]
    <3> DEFINE c == to[Reader]
    <3>1. Pos > 0 /\ log[Pos] > 0
      <4>1. Gone \in Nat /\ Pos = Gone + 1 /\ Pos <= Len(log)
        BY <1>0, <2>1, Lists, Place DEF Rest
      <4>2. Pos \in DOMAIN log
        BY <1>0, <4>1, Lists
      <4> QED
        BY <1>0, <4>1, <4>2, Values
    <3>2. Channel!Newest(heard[c]) < log[Pos]
      BY <1>0, <2>1, <3>1 DEF Heard, Channel!Newest
    <3>3. ~Over'
      BY <2>1, <2>5 DEF Over
    <3> QED
      BY <2>1, <2>2, <2>5, <3>1, <3>2, <3>3, ChannelHears
  <2> QED
    BY <1>6, <2>3, <2>4, <2>5 DEF ReaderSends
<1> QED
  BY <1>1, <1>2, <1>3, <1>4, <1>5, <1>6, Steps DEF Send, WriterCloses, WriterKilled,
     WriterStarts, ReaderPicks, HandlerJoins, GreetPicks, GreetSends, Greeted, HandlerEnds,
     HandlerSearches, HandlerRemoves, HandlerFails, HandlerCloses,
     ClientGoes, writer, reader, threads, vars

\* Tracker, read thread and clients' threads between them announce the log in its
\* order, and no client hears a message twice or out of order, for any number of
\* clients that come and go, any FIFO and trackers killed at any step.
THEOREM BridgeImplementsChannel == Spec => ImplementsChannel
  BY ChannelInit, NextChannel, Invariant, PTL DEF Spec, ImplementsChannel, Channel!Spec
=============================================================================
