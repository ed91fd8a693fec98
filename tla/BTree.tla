------------------------------- MODULE BTree --------------------------------
(***************************************************************************)
(* The B-tree of solutions/ch10/ex10_1_btree_cache.c, one action per level *)
(* of a descent.  Nodes are records in the sequence node; an address is an *)
(* index into it (the program never frees a node).  Only the first n_keys  *)
(* keys and n_keys + 1 children of a C node are meaningful: they are the   *)
(* sequences of the record, and a key or child beyond the arrays shows as  *)
(* a sequence that is too long (Occupancy).                                *)
(***************************************************************************)
EXTENDS Integers, SequencesExt

CONSTANTS
  ORDER,        \* btree_t.order
  Key,          \* what may be inserted or looked up: C ints
  MAX_INSERTS   \* bound on the insertions of a behaviour

(* The splitting of bt_split_child needs an even order; main uses 4 to 32. *)
ASSUME BTreeAssumption ==
  /\ \E t \in 2 .. ORDER : ORDER = 2 * t
  /\ Key \subseteq Int /\ MAX_INSERTS \in Nat

VARIABLES
  node, root,  \* the nodes of the tree and btree_t.root
  pc,          \* "ready", or where the call in progress is
  key, cur,    \* its parameter and the node it has come to
  answer,      \* what the last btree_search returned
  size         \* completed insertions (history)

vars == <<node, root, pc, key, cur, answer, size>>

t == ORDER \div 2

Greatest(S) == CHOOSE x \in S : \A y \in S : y <= x
Least(S) == CHOOSE x \in S : \A y \in S : x <= y

Leaf == [keys |-> <<>>, kids |-> <<>>, is_leaf |-> TRUE]

Init ==
  /\ node = <<Leaf>> /\ root = 1
  /\ pc = "ready" /\ key \in Key /\ cur = 1
  /\ answer = <<>>
  /\ size = 0

IsFull(n) == Len(n.keys) = ORDER - 1

(* Where key k belongs in n: behind the last key that is not greater.      *)
Position(n, k) ==
  1 + Greatest({0} \cup {j \in 1 .. Len(n.keys) : ~ (k < n.keys[j])})

(* bt_split_child: the upper half of the parent's i-th child becomes a new *)
(* node, and the median moves up between the two.                          *)
RightIsLeaf(full) ==                          \* faulty: is_leaf not handed on
  [keys |-> SubSeq(full.keys, t + 1, 2 * t - 1), is_leaf |-> TRUE, kids |-> <<>>]
Right(full) ==
  [keys |-> SubSeq(full.keys, t + 1, 2 * t - 1), is_leaf |-> full.is_leaf,
   kids |-> IF full.is_leaf THEN <<>> ELSE SubSeq(full.kids, t + 1, 2 * t)]

LeftKeepsMedian(full) ==                      \* faulty: t for t-1
  [keys |-> SubSeq(full.keys, 1, t), is_leaf |-> full.is_leaf,
   kids |-> IF full.is_leaf THEN <<>> ELSE SubSeq(full.kids, 1, t)]
Left(full) ==
  [keys |-> SubSeq(full.keys, 1, t - 1), is_leaf |-> full.is_leaf,
   kids |-> IF full.is_leaf THEN <<>> ELSE SubSeq(full.kids, 1, t)]

Split(nodes, parent, i) ==
  LET child == nodes[parent].kids[i]
      full  == nodes[child]
  IN Append([nodes EXCEPT ![child] = Left(full),
                          ![parent].keys = InsertAt(@, i, full.keys[t]),
                          ![parent].kids = InsertAt(@, i + 1, Len(nodes) + 1)],
            Right(full))

(***************************************************************************)
(* btree_insert                                                            *)
(***************************************************************************)
btree_insert(k) ==
  /\ pc = "ready" /\ size < MAX_INSERTS
  /\ pc' = "insert" /\ key' = k
  /\ UNCHANGED <<node, root, cur, answer, size>>

UseRoot ==
  /\ pc = "insert" /\ ~ IsFull(node[root])
  /\ pc' = "nonfull" /\ cur' = root
  /\ UNCHANGED <<node, root, key, answer, size>>

GrowRoot ==
  /\ pc = "insert" /\ IsFull(node[root])
  /\ LET new_root == Len(node) + 1 IN
       /\ node' = Split(Append(node, [keys |-> <<>>, kids |-> <<root>>,
                                      is_leaf |-> FALSE]), new_root, 1)
       /\ root' = new_root /\ cur' = new_root
  /\ pc' = "nonfull"
  /\ UNCHANGED <<key, answer, size>>

(* btree_insert_nonfull at a leaf. *)
InsertInLeaf ==
  /\ pc = "nonfull" /\ node[cur].is_leaf
  /\ node' = [node EXCEPT ![cur].keys = InsertAt(@, Position(node[cur], key), key)]
  /\ pc' = "ready" /\ size' = size + 1
  /\ UNCHANGED <<root, key, cur, answer>>

(* Which half of a child split at i key k goes to. *)
SideLeft(n, i, k) == i                        \* faulty: i is not advanced
Side(n, i, k) == IF k > n.keys[i] THEN i + 1 ELSE i

(* btree_insert_nonfull at an inner node: step 2c. *)
Descend ==
  /\ pc = "nonfull" /\ ~ node[cur].is_leaf
  /\ LET i == Position(node[cur], key) IN
       IF IsFull(node[node[cur].kids[i]])
       THEN /\ node' = Split(node, cur, i)
            /\ cur' = node'[cur].kids[Side(node'[cur], i, key)]
       ELSE /\ cur' = node[cur].kids[i]
            /\ UNCHANGED node
  /\ UNCHANGED <<root, pc, key, answer, size>>

(* bt_new_node, called by the next step when something is split.           *)
Allocates ==
  \/ pc = "insert" /\ IsFull(node[root])
  \/ /\ pc = "nonfull" /\ ~ node[cur].is_leaf
     /\ IsFull(node[node[cur].kids[Position(node[cur], key)]])

(* Some of its three callocs return NULL.  The check comes after n->keys   *)
(* is assigned: without n that crashes, without the others it exits.       *)
CallocFails ==
  /\ Allocates
  /\ \E null \in (SUBSET {"n", "keys", "children"}) \ {{}} :
       pc' = IF "n" \in null THEN "crashed" ELSE "exited"
  /\ UNCHANGED <<node, root, key, cur, answer, size>>

(***************************************************************************)
(* btree_search                                                            *)
(***************************************************************************)
btree_search(k) ==
  /\ pc = "ready"
  /\ pc' = "search" /\ key' = k /\ cur' = root
  /\ UNCHANGED <<node, root, answer, size>>

(* The first key that is not smaller than k, or one past the last key. *)
Scan(n, k) ==
  Least({Len(n.keys) + 1} \cup {j \in 1 .. Len(n.keys) : ~ (k > n.keys[j])})

Hit(n, k) == LET i == Scan(n, k) IN i <= Len(n.keys) /\ k = n.keys[i]

SearchEnds ==
  /\ pc = "search"
  /\ Hit(node[cur], key) \/ node[cur].is_leaf
  /\ answer' = <<key, Hit(node[cur], key)>>
  /\ pc' = "ready"
  /\ UNCHANGED <<node, root, key, cur, size>>

SearchStays ==                                \* faulty: cur is not advanced
  /\ pc = "search"
  /\ ~ Hit(node[cur], key) /\ ~ node[cur].is_leaf
  /\ UNCHANGED vars

SearchDescends ==
  /\ pc = "search"
  /\ ~ Hit(node[cur], key) /\ ~ node[cur].is_leaf
  /\ cur' = node[cur].kids[Scan(node[cur], key)]
  /\ UNCHANGED <<node, root, pc, key, answer, size>>

(* The process has ended. *)
Stopped == pc \in {"crashed", "exited"} /\ UNCHANGED vars

Step ==
  UseRoot \/ GrowRoot \/ InsertInLeaf \/ Descend \/ SearchEnds \/ SearchDescends

Call == \E k \in Key : btree_insert(k) \/ btree_search(k)

Next == Call \/ Step \/ CallocFails \/ Stopped

Spec == Init /\ [][Next]_vars

(* The single thread keeps executing a call it has entered. *)
FairSpec == Spec /\ WF_vars(Step)

(***************************************************************************)
(* Properties.                                                             *)
(***************************************************************************)
Nodes == 1 .. Len(node)

TypeOK ==
  /\ \A n \in Nodes : node[n] \in [keys : Seq(Key), kids : Seq(Nodes), is_leaf : BOOLEAN]
  /\ root \in Nodes /\ cur \in Nodes /\ key \in Key
  /\ pc \in {"ready", "insert", "nonfull", "search", "crashed", "exited"}
  /\ answer \in {<<>>} \cup (Key \X BOOLEAN)
  /\ size \in 0 .. MAX_INSERTS

(* A node holds between t-1 and 2t-1 keys (only the root may hold fewer),  *)
(* and an inner node one child more than keys.                             *)
Occupancy ==
  \A n \in Nodes :
    /\ Len(node[n].keys) <= ORDER - 1
    /\ Len(node[n].keys) >= IF n # root THEN t - 1 ELSE IF node[n].is_leaf THEN 0 ELSE 1
    /\ Len(node[n].kids) = IF node[n].is_leaf THEN 0 ELSE Len(node[n].keys) + 1

(* "We know this node is not full" (line 114) and "the parent must NOT be  *)
(* full" (line 65): a descent only enters nodes with room.                 *)
RoomOnTheWayDown == pc = "nonfull" => Len(node[cur].keys) < ORDER - 1

(* Every node but the root is the child of one node, at one place, and all *)
(* paths from the root to a leaf are equally long.                         *)
Heights ==
  LET height[n \in Nodes] ==
        IF node[n].is_leaf THEN 0 ELSE 1 + height[node[n].kids[1]]
  IN height

Balanced ==
  LET height == Heights
  IN /\ \A n \in Nodes : \A c \in ToSet(node[n].kids) : height[n] = 1 + height[c]
     /\ \A m, n \in Nodes : \A a \in DOMAIN node[m].kids, b \in DOMAIN node[n].kids :
          node[m].kids[a] = node[n].kids[b] => m = n /\ a = b
     /\ UNION {ToSet(node[n].kids) : n \in Nodes} = Nodes \ {root}

(* Between calls and at every level of a descent the nodes form a balanced *)
(* tree that no insertion overruns: neither keys[] nor children[] is       *)
(* written behind its end, and no node is leaked (lines 83-177).           *)
Shape == TypeOK /\ Occupancy /\ RoomOnTheWayDown /\ Balanced

KeysUnder ==
  LET under[n \in Nodes] ==
        ToSet(node[n].keys) \cup UNION {under[c] : c \in ToSet(node[n].kids)}
  IN under

(* The search order: keys ascend within a node, and the subtrees of a node *)
(* hold what lies between its keys (equal keys may lie on either side).    *)
SearchOrder ==
  LET under == KeysUnder IN
  \A n \in Nodes :
    /\ \A i \in 1 .. Len(node[n].keys) - 1 : node[n].keys[i] <= node[n].keys[i + 1]
    /\ \A i \in 1 .. Len(node[n].kids) : \A k \in under[node[n].kids[i]] :
         /\ i > 1 => node[n].keys[i - 1] <= k
         /\ i <= Len(node[n].keys) => k <= node[n].keys[i]

(* Every call of btree_insert and btree_search returns or ends the program.*)
Returns == pc \in {"insert", "nonfull", "search"} ~> pc \in {"ready", "crashed", "exited"}

(* A NULL from any of the three callocs is reported and ends the program   *)
(* in order: "if (!n || !n->keys || !n->children) { perror; exit }" (line  *)
(* 56).                                                                    *)
FailureIsReported == pc # "crashed"

(* The copies of every key, each at a place in a node: Shape says that all *)
(* the nodes are in the tree.                                              *)
Copies ==
  [k \in Key |->
    Cardinality(UNION {{n} \X {j \in DOMAIN node[n].keys : node[n].keys[j] = k} : n \in Nodes})]

Asked == IF pc \in {"insert", "nonfull"} THEN {key} ELSE {}

Index == INSTANCE KeyIndex WITH copies <- Copies, asked <- Asked

(* The tree implements the index: an insertion takes effect in the leaf, a *)
(* split neither loses nor doubles a key, repeated ones included, and a    *)
(* search finds exactly the inserted keys (lines 72-213).                  *)
ImplementsIndex == Index!Spec
=============================================================================
