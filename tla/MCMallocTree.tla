---------------------------- MODULE MCMallocTree ----------------------------
(* MallocTree on a heap with one block to spare.                           *)
EXTENDS MallocTree
=============================================================================
