------------------------------- MODULE MCBTree ------------------------------
(* BTree at its lowest order, few keys inserted in any order, repeatedly.  *)
EXTENDS BTree
=============================================================================
