---------------------------- MODULE MCMutexQueue ---------------------------
(* MutexQueue on small rings; the bounds are the constants of the cfgs.    *)
EXTENDS MutexQueue
=============================================================================
