-------------------------- MODULE MCHeartbeatWatch --------------------------
EXTENDS HeartbeatWatch

CONSTANTS c1, c2, p1, p2

MCClients  == {c1, c2}
MCTwoProcs == {p1, p2}
=============================================================================
