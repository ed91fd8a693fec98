---------------------------- MODULE MCSPSCQueue ----------------------------
(* SPSCQueue on small rings; the bounds are the constants of the cfgs.     *)
EXTENDS SPSCQueue, Bitwise

(* x & (QUEUE_CAP - 1), as the code writes it, is Slot for a power of two. *)
ASSUME MaskIsModulo ==
  \A e \in 0 .. 5, n \in 0 .. 100 : n & (2^e - 1) = n % 2^e
=============================================================================
