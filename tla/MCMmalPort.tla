----------------------------- MODULE MCMmalPort -----------------------------
(* A small instance of MmalPort for TLC: two headers and one context for   *)
(* VideoCore, a sender, two threads that control the port, and one event.  *)
EXTENDS MmalPort

=============================================================================
