----------------------------- MODULE MallocTree -----------------------------
(***************************************************************************)
(* linked_list_parse and linked_list_free of                               *)
(* solutions/ch17/ex17_1_bootloader_sim.c, called in turn by the benchmark *)
(* loop, on a heap whose malloc returns any block that is not in use, or   *)
(* NULL.  A freed block loses its content: whoever follows a pointer into  *)
(* it gets what the next owner, or nobody, put there.                      *)
(***************************************************************************)
EXTENDS Integers, Sequences, FiniteSets

CONSTANTS
  Addr,                   \* the blocks of the heap
  NULL,
  MAX_NODES, MAX_PROPS,
  PARSES                  \* iterations of BENCH_RUN

ASSUME MallocAssumption ==
  /\ IsFiniteSet(Addr) /\ NULL \notin Addr
  /\ MAX_NODES \in Nat \ {0} /\ MAX_PROPS \in Nat \ {0} /\ PARSES \in Nat \ {0}

VARIABLES
  used,   \* the blocks malloc has handed out and free has not got back
  name,   \* node->name or prop->key: a number
  props,  \* node->props
  next,   \* node->next or prop->next
  head,   \* the root of the list
  node, prop,  \* the locals of the two functions
  pc, i, j, parses

memory == <<used, name, props, next>>
locals == <<node, prop>>
vars   == <<memory, head, locals, pc, i, j, parses>>

Pointer == Addr \cup {NULL}

Init ==
  /\ used = {}
  /\ name = [a \in Addr |-> 0]
  /\ props = [a \in Addr |-> NULL]
  /\ next = [a \in Addr |-> NULL]
  /\ head = NULL /\ node = NULL /\ prop = NULL
  /\ pc = "begin" /\ i = 0 /\ j = 0 /\ parses = 0

malloc(a) == a \notin used /\ used' = used \cup {a}

(* What a freed block holds is not defined: here, nothing. *)
free(a) ==
  /\ used' = used \ {a}
  /\ name' = [name EXCEPT ![a] = 0]
  /\ props' = [props EXCEPT ![a] = NULL]
  /\ next' = [next EXCEPT ![a] = NULL]

(***************************************************************************)
(* linked_list_parse                                                       *)
(***************************************************************************)
Begin ==
  /\ pc = "begin" /\ parses < PARSES
  /\ head' = NULL /\ i' = 0 /\ pc' = "node"
  /\ UNCHANGED <<memory, locals, j, parses>>

ParseNode(a) ==
  /\ pc = "node" /\ i < MAX_NODES
  /\ malloc(a)
  /\ name' = [name EXCEPT ![a] = i]
  /\ props' = [props EXCEPT ![a] = NULL]
  /\ next' = [next EXCEPT ![a] = head]
  /\ head' = a /\ node' = a /\ j' = 0
  /\ pc' = "prop"
  /\ UNCHANGED <<prop, i, parses>>

MoreProps == j < MAX_PROPS

ParsePropUnlinked(a) ==              \* faulty: prop->next = NULL
  /\ pc = "prop" /\ MoreProps
  /\ malloc(a)
  /\ name' = [name EXCEPT ![a] = j]
  /\ next' = [next EXCEPT ![a] = NULL]
  /\ props' = [props EXCEPT ![node] = a]
  /\ j' = j + 1
  /\ UNCHANGED <<head, locals, pc, i, parses>>

ParseProp(a) ==
  /\ pc = "prop" /\ MoreProps
  /\ malloc(a)
  /\ name' = [name EXCEPT ![a] = j]
  /\ next' = [next EXCEPT ![a] = props[node]]
  /\ props' = [props EXCEPT ![node] = a]
  /\ j' = j + 1
  /\ UNCHANGED <<head, locals, pc, i, parses>>

(* perror(...); exit(1): the process returns its memory. *)
MallocFails ==
  /\ pc \in {"node", "prop"}
  /\ pc = "node" => i < MAX_NODES
  /\ pc = "prop" => MoreProps
  /\ pc' = "exited"
  /\ UNCHANGED <<memory, head, locals, i, j, parses>>

NodeDone ==
  /\ pc = "prop" /\ ~ MoreProps
  /\ i' = i + 1 /\ pc' = "node"
  /\ UNCHANGED <<memory, head, locals, j, parses>>

ParseDone ==
  /\ pc = "node" /\ i = MAX_NODES
  /\ node' = head /\ pc' = "free_node"
  /\ UNCHANGED <<memory, head, prop, i, j, parses>>

(***************************************************************************)
(* linked_list_free, where node is its parameter root.                     *)
(***************************************************************************)
FirstProp ==
  /\ pc = "free_node" /\ node # NULL
  /\ prop' = props[node] /\ pc' = "free_prop"
  /\ UNCHANGED <<memory, head, node, i, j, parses>>

FreePropTooSoon ==                   \* faulty: prop->next is read after free(prop)
  /\ pc = "free_prop" /\ prop # NULL
  /\ free(prop)
  /\ prop' = next'[prop]
  /\ UNCHANGED <<head, node, pc, i, j, parses>>

FreePropTwice ==                     \* faulty: prop is not advanced
  /\ pc = "free_prop" /\ prop # NULL
  /\ free(prop)
  /\ UNCHANGED <<head, node, prop, pc, i, j, parses>>

FreeProp ==
  /\ pc = "free_prop" /\ prop # NULL
  /\ free(prop)
  /\ prop' = next[prop]
  /\ UNCHANGED <<head, node, pc, i, j, parses>>

(* Step 2b, once per node. *)
FreeNode ==
  /\ pc = "free_prop" /\ prop = NULL
  /\ free(node)
  /\ node' = next[node] /\ pc' = "free_node"
  /\ UNCHANGED <<head, prop, i, j, parses>>

FreeDone ==
  /\ pc = "free_node" /\ node = NULL
  /\ parses' = parses + 1 /\ pc' = "begin"
  /\ UNCHANGED <<memory, head, locals, i, j>>

Stopped == (pc = "exited" \/ (pc = "begin" /\ parses = PARSES)) /\ UNCHANGED vars

Next ==
  \/ Begin \/ (\E a \in Addr : ParseNode(a) \/ ParseProp(a)) \/ MallocFails
  \/ NodeDone \/ ParseDone
  \/ FirstProp \/ FreeProp \/ FreeNode \/ FreeDone
  \/ Stopped

Spec == Init /\ [][Next]_vars

(***************************************************************************)
(* Properties.                                                             *)
(***************************************************************************)
TypeOK ==
  /\ used \subseteq Addr
  /\ name \in [Addr -> Nat] /\ props \in [Addr -> Pointer] /\ next \in [Addr -> Pointer]
  /\ head \in Pointer /\ node \in Pointer /\ prop \in Pointer
  /\ pc \in {"begin", "node", "prop", "free_node", "free_prop", "exited"}
  /\ i \in 0 .. MAX_NODES /\ j \in 0 .. MAX_PROPS /\ parses \in 0 .. PARSES

(* "Order matters: freeing the node first would leave dangling pointers"   *)
(* (lines 104-105): no pointer that will still be followed leads to a      *)
(* freed block.  Only the props field of the node being freed may.         *)
NoDangling ==
  LET safe == used \cup {NULL} IN
  /\ \A a \in used : next[a] \in safe
  /\ \A a \in used : props[a] \in safe \/ (pc = "free_prop" /\ a = node)
  /\ pc \in {"prop", "free_prop"} => node \in used
  /\ pc = "free_node" => node \in safe
  /\ pc = "free_prop" => prop \in safe

(* Each iteration gives back every block it was given (lines 107-122).     *)
NothingLeaked == pc = "begin" => used = {}

(* The list a pointer leads to; no list is longer than the heap is large.  *)
ListFrom(a) ==
  LET from[m \in 0 .. Cardinality(Addr)] ==       \* the last m elements
        [b \in Pointer |->
          IF m = 0 \/ b = NULL THEN <<>> ELSE <<b>> \o from[m - 1][next[b]]]
  IN from[Cardinality(Addr)][a]

Numbers(list) == [k \in DOMAIN list |-> name[list[k]]]
Devices ==
  LET list == ListFrom(head)
  IN [k \in DOMAIN list |->
       [name |-> name[list[k]], props |-> Numbers(ListFrom(props[list[k]]))]]

(* The list is given up when linked_list_free begins. *)
List == INSTANCE DeviceList WITH
  MaxProps <- MAX_PROPS, limit <- MAX_NODES, cut <- FALSE,
  list <- IF pc \in {"node", "prop", "exited"} THEN Devices ELSE <<>>

(* linked_list_parse links all devices and all their properties (lines     *)
(* 72-98), and only a complete list goes to linked_list_free.              *)
ImplementsDeviceList == List!Spec
=============================================================================
