------------------------------- MODULE Stack --------------------------------
(***************************************************************************)
(* What both stacks of chapter 5 promise: last in, first out; popping an   *)
(* empty one gives 0, which may also have been pushed.                     *)
(***************************************************************************)
EXTENDS Integers, SequencesExt

CONSTANTS Value, Capacity

VARIABLES
  items,  \* the stack, its top last
  out     \* what the last pop returned

Init == items = <<>> /\ out = 0

Push ==
  /\ Len(items) < Capacity
  /\ \E v \in Value : items' = Append(items, v)
  /\ UNCHANGED out

Pop ==
  /\ items # <<>>
  /\ out' = Last(items) /\ items' = Front(items)

PopEmpty ==
  /\ items = <<>> /\ out' = 0
  /\ UNCHANGED items

Spec == Init /\ [][Push \/ Pop \/ PopEmpty]_<<items, out>>
=============================================================================
