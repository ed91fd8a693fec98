---------------------------- MODULE MCDaryHeap -----------------------------
(* DaryHeap with few values, so that they repeat.                          *)
EXTENDS DaryHeap
=============================================================================
