------------------------------ MODULE KeyIndex ------------------------------
(***************************************************************************)
(* The promise of the B-tree: it keeps every key as often as it was        *)
(* inserted, and a key is found exactly when it was inserted.              *)
(***************************************************************************)
EXTENDS Naturals

CONSTANT Key

VARIABLES
  copies,  \* how often each key was inserted
  asked,   \* the key that an insertion in progress is about
  answer   \* the last lookup: the key and whether it was found

indexVars == <<copies, asked, answer>>

NoAnswer == <<>>

Init == copies = [k \in Key |-> 0] /\ asked = {} /\ answer = NoAnswer

Ask(k) == asked = {} /\ asked' = {k} /\ UNCHANGED <<copies, answer>>

Insert ==
  /\ \E k \in asked : copies' = [copies EXCEPT ![k] = @ + 1]
  /\ asked' = {} /\ UNCHANGED answer

(* The program ends instead. *)
GiveUp == asked' = {} /\ UNCHANGED <<copies, answer>>

Lookup(k) ==
  /\ asked = {} /\ answer' = <<k, copies[k] > 0>>
  /\ UNCHANGED <<copies, asked>>

Next == (\E k \in Key : Ask(k) \/ Lookup(k)) \/ Insert \/ GiveUp

Spec == Init /\ [][Next]_indexVars
=============================================================================
