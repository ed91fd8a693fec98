--------------------------- MODULE PriorityQueue ---------------------------
(***************************************************************************)
(* The promise of a min-heap: a bag from which the least element is taken. *)
(***************************************************************************)
EXTENDS Integers

CONSTANT Value  \* a set of numbers

VARIABLES
  bag,   \* how often each value is in the queue
  idle,  \* no call is in progress
  min    \* what the last Extract returned

pqVars == <<bag, idle, min>>

Init == bag = [v \in Value |-> 0] /\ idle = TRUE /\ min = 0

(* A call takes effect at once, and puts the rest in order before it       *)
(* returns.                                                                *)
Called == idle /\ idle' \in BOOLEAN
Return == idle' = TRUE /\ UNCHANGED <<bag, min>>

Insert(v) == Called /\ bag' = [bag EXCEPT ![v] = @ + 1] /\ UNCHANGED min

Extract(v) ==
  /\ Called
  /\ bag[v] > 0 /\ \A w \in Value : w < v => bag[w] = 0
  /\ bag' = [bag EXCEPT ![v] = @ - 1]
  /\ min' = v

(* An empty queue answers 0, like one whose least element is 0. *)
ExtractFromEmpty ==
  /\ Called
  /\ \A v \in Value : bag[v] = 0
  /\ min' = 0 /\ UNCHANGED bag

Next == (\E v \in Value : Insert(v) \/ Extract(v)) \/ ExtractFromEmpty \/ Return

Spec == Init /\ [][Next]_pqVars
=============================================================================
