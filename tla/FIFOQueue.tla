----------------------------- MODULE FIFOQueue -----------------------------
(***************************************************************************)
(* The promise the queues of the repository share: a bounded first-in      *)
(* first-out buffer whose operations are atomic.  SPSCQueue, MutexQueue    *)
(* and RingBuffer are each shown to implement it.                          *)
(***************************************************************************)
EXTENDS Naturals, Sequences

CONSTANTS
  Capacity,  \* most items the buffer holds
  Value,     \* what may be put
  NoValue    \* the content of out before the first Take

VARIABLES
  items,     \* what was put and not yet taken, oldest first
  out        \* the value the last Take returned

fifoVars == <<items, out>>

Init == items = <<>> /\ out = NoValue

Put(v) ==
  /\ Len(items) < Capacity
  /\ items' = Append(items, v)
  /\ UNCHANGED out

Take ==
  /\ items # <<>>
  /\ out' = Head(items)
  /\ items' = Tail(items)

(* The owner empties the buffer to start over. *)
Clear == items' = <<>> /\ out' = NoValue

Next == (\E v \in Value : Put(v)) \/ Take \/ Clear

Spec == Init /\ [][Next]_fifoVars
=============================================================================
