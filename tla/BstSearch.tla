------------------------------ MODULE BstSearch -----------------------------
(***************************************************************************)
(* solutions/ch09/ex9_1_bst_vs_sorted_array.c: setup shuffles the keys,    *)
(* inserts them into a binary search tree and fills the sorted array; main *)
(* looks the same keys up in the tree and then in the array.  One action   *)
(* per turn of a loop and per level of a descent.  Tree nodes are records  *)
(* in the sequence node, and an address is an index into it.               *)
(***************************************************************************)
EXTENDS Integers, Sequences

CONSTANTS
  N,           \* elements of the tree and of the array
  LookupKey    \* what may be looked up: C ints

ASSUME BstAssumption == N \in Nat \ {0} /\ LookupKey \subseteq Int

VARIABLES
  keys,        \* setup's local array, indexed from 0 as in C
  node, bst_root,
  bst_pc,      \* where the program is
  setup_i,     \* the loop counter of setup
  cur,         \* the subtree a descent has come to: 0 is the null pointer
  key,         \* lookup_keys[], of which one element is modelled
  lo, hi,      \* the interval of arr_search
  found        \* what the two searches returned (history)

setupVars  == <<keys, node, bst_root, setup_i>>
searchVars == <<key, lo, hi, found>>
bstVars    == <<setupVars, bst_pc, cur, searchVars>>

Nil == 0
Unasked == -1
sorted == [m \in 0 .. N - 1 |-> 3 * m + 1]

BstInit ==
  /\ keys = [m \in 0 .. N - 1 |-> 3 * m + 1]
  /\ node = <<>> /\ bst_root = Nil
  /\ bst_pc = "shuffle" /\ setup_i = N - 1 /\ cur = Nil
  /\ key = 0
  /\ lo = 0 /\ hi = N
  /\ found = [tree |-> Unasked, array |-> Unasked]

(***************************************************************************)
(* setup                                                                   *)
(***************************************************************************)
(* One turn of the Knuth shuffle, whatever rand() returns. *)
Shuffle ==
  /\ bst_pc = "shuffle" /\ setup_i > 0
  /\ \E j \in 0 .. setup_i : keys' = [keys EXCEPT ![setup_i] = keys[j], ![j] = keys[setup_i]]
  /\ setup_i' = setup_i - 1
  /\ UNCHANGED <<node, bst_root, bst_pc, cur, searchVars>>

ShuffleDone ==
  /\ bst_pc = "shuffle" /\ setup_i = 0
  /\ bst_pc' = "insert"
  /\ UNCHANGED <<setupVars, cur, searchVars>>

Leaf(k) == [key |-> k, left |-> Nil, right |-> Nil]

InsertRoot ==
  /\ bst_pc = "insert" /\ setup_i < N /\ bst_root = Nil
  /\ node' = <<Leaf(keys[setup_i])>> /\ bst_root' = 1
  /\ setup_i' = setup_i + 1
  /\ UNCHANGED <<keys, bst_pc, cur, searchVars>>

(* bst_insert(bst_root, keys[i]) with a tree to descend into. *)
InsertBegin ==
  /\ bst_pc = "insert" /\ setup_i < N /\ bst_root # Nil
  /\ bst_pc' = "descend" /\ cur' = bst_root
  /\ UNCHANGED <<setupVars, searchVars>>

SideOf(k, n) == IF k < n.key THEN "left" ELSE "right"

InsertDescends ==
  /\ bst_pc = "descend"
  /\ keys[setup_i] # node[cur].key
  /\ node[cur][SideOf(keys[setup_i], node[cur])] # Nil
  /\ cur' = node[cur][SideOf(keys[setup_i], node[cur])]
  /\ UNCHANGED <<setupVars, bst_pc, searchVars>>

AppendsUnlinked ==                           \* faulty: root->left is not assigned
  IF keys[setup_i] = node[cur].key THEN UNCHANGED node
  ELSE node' = Append(node, Leaf(keys[setup_i]))
(* A key that is there already is not inserted again. *)
Appends ==
  IF keys[setup_i] = node[cur].key THEN UNCHANGED node
  ELSE node' = Append([node EXCEPT ![cur][SideOf(keys[setup_i], node[cur])] = Len(node) + 1],
                      Leaf(keys[setup_i]))

InsertEnds ==
  /\ bst_pc = "descend"
  /\ \/ keys[setup_i] = node[cur].key
     \/ node[cur][SideOf(keys[setup_i], node[cur])] = Nil
  /\ Appends
  /\ setup_i' = setup_i + 1 /\ bst_pc' = "insert"
  /\ UNCHANGED <<keys, bst_root, cur, searchVars>>

(* malloc returns NULL: perror and exit(1). *)
InsertFails ==
  /\ \/ bst_pc = "insert" /\ setup_i < N /\ bst_root = Nil
     \/ /\ bst_pc = "descend" /\ keys[setup_i] # node[cur].key
        /\ node[cur][SideOf(keys[setup_i], node[cur])] = Nil
  /\ bst_pc' = "exited"
  /\ UNCHANGED <<setupVars, cur, searchVars>>

(* setup picks keys that are there; the searches are asked about others.   *)
SetupReturns ==
  /\ bst_pc = "insert" /\ setup_i = N
  /\ key' \in LookupKey
  /\ bst_pc' = "bst_search" /\ cur' = bst_root
  /\ UNCHANGED <<setupVars, lo, hi, found>>

(***************************************************************************)
(* bst_search and arr_search                                               *)
(***************************************************************************)
BstDescend ==
  /\ bst_pc = "bst_search" /\ cur # Nil /\ node[cur].key # key
  /\ cur' = node[cur][SideOf(key, node[cur])]
  /\ UNCHANGED <<setupVars, bst_pc, searchVars>>

BstReturn ==
  /\ bst_pc = "bst_search"
  /\ cur # Nil => node[cur].key = key
  /\ found' = [found EXCEPT !.tree = IF cur # Nil THEN 1 ELSE 0]
  /\ bst_pc' = "arr_search"
  /\ UNCHANGED <<setupVars, cur, key, lo, hi>>

mid == lo + (hi - lo) \div 2

HalveStuck ==                                \* faulty: lo = mid
  IF sorted[mid] < key THEN lo' = mid /\ UNCHANGED hi ELSE hi' = mid /\ UNCHANGED lo
Halve ==
  IF sorted[mid] < key THEN lo' = mid + 1 /\ UNCHANGED hi ELSE hi' = mid /\ UNCHANGED lo

ArrHalve ==
  /\ bst_pc = "arr_search" /\ lo < hi /\ sorted[mid] # key
  /\ Halve
  /\ UNCHANGED <<setupVars, bst_pc, cur, key, found>>

ArrReturn ==
  /\ bst_pc = "arr_search"
  /\ lo < hi => sorted[mid] = key
  /\ found' = [found EXCEPT !.array = IF lo < hi THEN 1 ELSE 0]
  /\ bst_pc' = "done"
  /\ UNCHANGED <<setupVars, cur, key, lo, hi>>

BstNext ==
  \/ Shuffle \/ ShuffleDone
  \/ InsertRoot \/ InsertBegin \/ InsertDescends \/ InsertEnds \/ InsertFails \/ SetupReturns
  \/ BstDescend \/ BstReturn \/ ArrHalve \/ ArrReturn

BstSpec == BstInit /\ [][BstNext]_bstVars

(***************************************************************************)
(* Properties.                                                             *)
(***************************************************************************)
Present == {sorted[m] : m \in 0 .. N - 1}

(* In whatever order the keys were inserted, bst_search and arr_search say *)
(* of every key whether it is one of them (lines 44-54, 75-84, 106-117).   *)
SearchesAgree ==
  LET answer == IF key \in Present THEN 1 ELSE 0
  IN {found.tree, found.array} \subseteq {Unasked, answer}
=============================================================================
