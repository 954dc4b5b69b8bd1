---------------------------- MODULE EventChannel ----------------------------
(***************************************************************************)
(* What the way from the tracker to the web clients promises: the messages *)
(* that get into it form one log; they are announced one after the other,  *)
(* in that order, and while one is announced each client may hear it, once.*)
(* Nothing promises that a client hears every message, nor that the        *)
(* channel lasts: it may be over at any time, and then stays so.           *)
(***************************************************************************)
EXTENDS Naturals, Sequences

CONSTANTS
    Clients,
    Messages    \* the numbers a message may have

VARIABLES
    log,        \* the messages let in, numbered in the order they were said
    pos,        \* how many of them have been announced, the current one included
    heard,      \* what each client has heard
    over        \* the channel is closed for good

vars == <<log, pos, heard, over>>

Newest(s) == IF s = <<>> THEN 0 ELSE s[Len(s)]

Init == /\ log = <<>> /\ pos = 0
        /\ heard = [c \in Clients |-> <<>>] /\ over = FALSE

Enter(m) == /\ m > Newest(log) /\ log' = Append(log, m)
            /\ UNCHANGED <<pos, heard, over>>

Announce == /\ ~over /\ pos < Len(log) /\ pos' = pos + 1
            /\ UNCHANGED <<log, heard, over>>

Hear(c) == /\ ~over /\ pos > 0
           /\ Newest(heard[c]) < log[pos]
           /\ heard' = [heard EXCEPT ![c] = Append(@, log[pos])]
           /\ UNCHANGED <<log, pos, over>>

Close == over' = TRUE /\ UNCHANGED <<log, pos, heard>>

Next == \/ \E m \in Messages : Enter(m)
        \/ Announce
        \/ \E c \in Clients : Hear(c)
        \/ Close

Spec == Init /\ [][Next]_vars
=============================================================================
