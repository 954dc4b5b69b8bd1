\* More rounds than the limit, none of them with a heartbeat.
SPECIFICATION Spec
CONSTANTS
    c1 = c1
    c2 = c2
    p1 = p1
    p2 = p2
    Heart = Heart
    None = None
    Clients <- MCClients
    Procs <- MCTwoProcs
INVARIANT NoHeartbeatNoTracker
