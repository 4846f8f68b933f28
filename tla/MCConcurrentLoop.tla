-------------------------- MODULE MCConcurrentLoop --------------------------
(* Two workers and two clients, one of which owns the loop.                *)
EXTENDS ConcurrentLoop

CONSTANTS w1, w2, owner, client, k1, k2, b1
=============================================================================
