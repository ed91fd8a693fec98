------------------------------ MODULE MCArena -------------------------------
(* Arena with an eight-bit size_t.                                         *)
EXTENDS Arena

(* Every size a size_t can hold. *)
AllSizes == 0 .. SIZE - 1
=============================================================================
