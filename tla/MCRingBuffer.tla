---------------------------- MODULE MCRingBuffer ---------------------------
(* RingBuffer with counters so narrow that they wrap after a few calls.    *)
EXTENDS RingBuffer
=============================================================================
