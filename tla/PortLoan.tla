------------------------------ MODULE PortLoan ------------------------------
(***************************************************************************)
(* What a port promises the client that lends it buffer headers: it takes  *)
(* them while it is open and no others, it gives each back once, and when  *)
(* disabling it has succeeded it has none left.                            *)
(***************************************************************************)
CONSTANT Headers

VARIABLES
    state,      \* "closed", "open" or "closing"
    lent        \* the headers the port has

loan == <<state, lent>>

Init == state = "closed" /\ lent = {}

Open == state = "closed" /\ state' = "open" /\ UNCHANGED lent

Lend(h) ==
    /\ state = "open" /\ h \notin lent
    /\ lent' = lent \cup {h} /\ UNCHANGED state

GiveBack(h) == h \in lent /\ lent' = lent \ {h} /\ UNCHANGED state

Refuse == state = "open" /\ state' = "closing" /\ UNCHANGED lent

\* Disabling failed.
Reopen == state = "closing" /\ state' = "open" /\ UNCHANGED lent

Close == state = "closing" /\ lent = {} /\ state' = "closed" /\ UNCHANGED lent

Next ==
    \/ Open \/ Refuse \/ Reopen \/ Close
    \/ \E h \in Headers : Lend(h) \/ GiveBack(h)

Spec == Init /\ [][Next]_loan

=============================================================================
