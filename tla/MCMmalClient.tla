---------------------------- MODULE MCMmalClient ----------------------------
(* A small instance of MmalClient for TLC: two threads with three calls    *)
(* between them and one waiter, and two buffers that come back.            *)
EXTENDS MmalClient, TLC

Alike == Permutations(Callers) \cup Permutations(Buffers)

=============================================================================
