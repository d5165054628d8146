----------------------------- MODULE MCShutdown -----------------------------
(* Three concurrent waiters; the daemon itself has one at a time. *)
EXTENDS Shutdown

CONSTANTS w1, w2, w3

MCWaiters == {w1, w2, w3}
=============================================================================
