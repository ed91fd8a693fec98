------------------------------ MODULE DaryHeap -----------------------------
(***************************************************************************)
(* The d-ary min-heap of solutions/ch12/ex12_1_heap_variants.c, one action *)
(* per turn of the sift loops.  data keeps what lies beyond size: the      *)
(* program never clears it, and only its bounds keep it from being read.   *)
(***************************************************************************)
EXTENDS Integers, FiniteSets

CONSTANTS
  Arity,  \* the branching factors heap_init is called with
  CAP,    \* heap_t.cap
  Value,  \* what may be inserted: C ints
  INT_MIN \* their lower bound

ASSUME HeapAssumption ==
  /\ Arity \subseteq Nat \ {0, 1} /\ CAP \in Nat \ {0}
  /\ INT_MIN \in Int /\ \A v \in Value : v \in Int /\ INT_MIN <= v

VARIABLES
  data, size, d,  \* the heap; d is its branching factor
  pc,          \* "ready", or the loop that is running: "up" or "down"
  i,           \* the position the loop has come to
  min          \* the local min of heap_extract_min: what it returns

vars == <<data, size, d, pc, i, min>>

Index == 0 .. CAP - 1

Parent(j) == (j - 1) \div d

(* The children of j that exist: d * j + 1 to d * j + d, as far as size.   *)
Children(j) == {c \in Index : d * j + 1 <= c /\ c <= d * j + d /\ c < size}

SwapWithoutTmp(j, k) ==                     \* faulty: the old data[j] is lost
  data' = [data EXCEPT ![j] = data[k]]
Swap(j, k) == data' = [data EXCEPT ![j] = data[k], ![k] = data[j]]

(* heap_init; malloc leaves anything in data.                              *)
Init ==
  /\ data \in [Index -> Value]
  /\ d \in Arity
  /\ size = 0 /\ pc = "ready" /\ i = 0 /\ min = 0

(* The callers insert at most CAP elements: heap_insert does not check.    *)
heap_insert(v) ==
  /\ pc = "ready" /\ size < CAP
  /\ data' = [data EXCEPT ![size] = v]
  /\ size' = size + 1
  /\ i' = size
  /\ pc' = "up"
  /\ UNCHANGED <<d, min>>

InPlaceAbove == i > 0 => data[Parent(i)] <= data[i]

SiftUp ==
  /\ pc = "up" /\ ~ InPlaceAbove
  /\ Swap(Parent(i), i)
  /\ i' = Parent(i)
  /\ UNCHANGED <<size, d, pc, min>>

SiftUpEnds ==
  /\ pc = "up" /\ InPlaceAbove
  /\ pc' = "ready"
  /\ UNCHANGED <<data, size, d, i, min>>

heap_extract_min ==
  /\ pc = "ready" /\ size > 0
  /\ min' = data[0]
  /\ size' = size - 1
  /\ data' = [data EXCEPT ![0] = data[size - 1]]
  /\ i' = 0
  /\ pc' = "down"
  /\ UNCHANGED d

(* heap_extract_min of an empty heap.                                      *)
ExtractFromEmpty ==
  /\ pc = "ready" /\ size = 0
  /\ min' = 0
  /\ UNCHANGED <<data, size, d, pc, i>>

(* min_child: the first of the least children.                             *)
MinChild ==
  CHOOSE c \in Children(i) :
    \A e \in Children(i) : data[c] < data[e] \/ (data[c] = data[e] /\ c <= e)

InPlaceBelowFirst ==                       \* faulty: compares the first child only
  \A c \in Children(i) : c = d * i + 1 => data[c] >= data[i]
InPlaceBelow == \A c \in Children(i) : data[c] >= data[i]

SiftDown ==
  /\ pc = "down" /\ ~ InPlaceBelow
  /\ Swap(i, MinChild)
  /\ i' = MinChild
  /\ UNCHANGED <<size, d, pc, min>>

SiftDownEnds ==
  /\ pc = "down" /\ InPlaceBelow
  /\ pc' = "ready"
  /\ UNCHANGED <<data, size, d, i, min>>

Sift == SiftUp \/ SiftUpEnds \/ SiftDown \/ SiftDownEnds

Next ==
  \/ \E v \in Value : heap_insert(v)
  \/ heap_extract_min \/ ExtractFromEmpty \/ Sift

Spec == Init /\ [][Next]_vars

(***************************************************************************)
(* Properties.                                                             *)
(***************************************************************************)
Live == 0 .. size - 1

(* The variables keep their types; every index the code uses is in data[]. *)
TypeOK ==
  /\ data \in [Index -> Value] /\ size \in 0 .. CAP /\ d \in Arity
  /\ pc \in {"ready", "up", "down"} /\ i \in Index
  /\ min \in Value \cup {0}
  /\ pc = "up" => i \in Live

(* The heap property between calls: no element is less than its parent     *)
(* (lines 72-88 and 109-139 restore it).                                   *)
HeapOrdered == pc = "ready" => \A j \in Live \ {0} : data[Parent(j)] <= data[j]

(* "The minimum is always at index 0" (line 93).                           *)
MinAtRoot == pc = "ready" => \A j \in Live : data[0] <= data[j]

Count == [v \in Value |-> Cardinality({j \in Live : data[j] = v})]

Abstract == INSTANCE PriorityQueue WITH bag <- Count, idle <- pc = "ready"

(* The array implements the priority queue: no value is lost or doubled by *)
(* the swaps or by moving the last element to the root, and every extract  *)
(* returns the least (lines 72-139).                                       *)
ImplementsQueue == Abstract!Spec

(* Inductive: during a loop the order may fail only at the element being   *)
(* sifted, and its children are already in order with its parent.          *)
OrderInv ==
  /\ \A j \in Live \ {0} :
       \/ data[Parent(j)] <= data[j]
       \/ pc = "up" /\ j = i
       \/ pc = "down" /\ Parent(j) = i
  /\ pc # "ready" /\ i > 0 =>
       \A j \in Live \ {0} : Parent(j) = i => data[Parent(i)] <= data[j]

IndInv == TypeOK /\ OrderInv
=============================================================================
