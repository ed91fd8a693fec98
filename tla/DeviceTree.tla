----------------------------- MODULE DeviceTree -----------------------------
(***************************************************************************)
(* arena_parse of solutions/ch17/ex17_1_bootloader_sim.c and the benchmark *)
(* loop that resets the arena before each parse.  One action per           *)
(* allocation; a node is its number and its properties, and lists are      *)
(* sequences with the head of the C list first.                            *)
(***************************************************************************)
EXTENDS Arena

CONSTANTS
  NodeCounts,              \* what MAX_NODES may be defined as
  MAX_PROPS,
  NODE_BYTES, PROP_BYTES,  \* sizeof(dt_node_t) and sizeof(dt_prop_t)
  PARSES                   \* iterations of BENCH_RUN

ASSUME DeviceTreeAssumption ==
  /\ NodeCounts \subseteq Nat \ {0} /\ MAX_PROPS \in Nat \ {0} /\ PARSES \in Nat \ {0}
  /\ {NODE_BYTES, PROP_BYTES} \subseteq Requests

VARIABLES
  max_nodes, \* MAX_NODES
  head,    \* the list built so far
  pc, i, j,
  parses,  \* parses finished
  failed   \* an allocation of this parse was refused (history)

vars == <<arenaVars, max_nodes, head, pc, i, j, parses, failed>>

Init ==
  /\ ArenaInit
  /\ max_nodes \in NodeCounts
  /\ head = <<>> /\ pc = "reset" /\ i = 0 /\ j = 0 /\ parses = 0 /\ failed = FALSE

MoreNodes == i < max_nodes

(* arena_reset(), then the first lines of arena_parse. *)
Begin ==
  /\ pc = "reset" /\ parses < PARSES
  /\ arena_reset
  /\ head' = <<>> /\ i' = 0 /\ failed' = FALSE
  /\ pc' = "node"
  /\ UNCHANGED <<max_nodes, j, parses>>

AllocNodeKeepsJ ==                   \* faulty: j is not reset
  /\ pc = "node" /\ MoreNodes
  /\ arena_alloc(NODE_BYTES) /\ ptr' # NULL
  /\ head' = <<[at |-> ptr', name |-> i, props |-> <<>>]>> \o head
  /\ pc' = "prop"
  /\ UNCHANGED <<max_nodes, i, j, parses, failed>>

AllocNode ==
  /\ pc = "node" /\ MoreNodes
  /\ arena_alloc(NODE_BYTES) /\ ptr' # NULL
  /\ head' = <<[at |-> ptr', name |-> i, props |-> <<>>]>> \o head
  /\ j' = 0 /\ pc' = "prop"
  /\ UNCHANGED <<max_nodes, i, parses, failed>>

(* if (!node) break; *)
NodeFails ==
  /\ pc = "node" /\ MoreNodes
  /\ arena_alloc(NODE_BYTES) /\ ptr' = NULL
  /\ failed' = TRUE /\ pc' = "return"
  /\ UNCHANGED <<max_nodes, head, i, j, parses>>

MoreProps == j < MAX_PROPS

AllocProp ==
  /\ pc = "prop" /\ MoreProps
  /\ arena_alloc(PROP_BYTES) /\ ptr' # NULL
  /\ head' = [head EXCEPT ![1].props = <<[at |-> ptr', name |-> j]>> \o @]
  /\ j' = j + 1
  /\ UNCHANGED <<max_nodes, pc, i, parses, failed>>

(* if (!prop) break: it leaves the inner loop only. *)
PropFails ==
  /\ pc = "prop" /\ MoreProps
  /\ arena_alloc(PROP_BYTES) /\ ptr' = NULL
  /\ failed' = TRUE
  /\ i' = i + 1 /\ pc' = "node"
  /\ UNCHANGED <<max_nodes, head, j, parses>>

NodeDone ==
  /\ pc = "prop" /\ ~ MoreProps
  /\ i' = i + 1 /\ pc' = "node"
  /\ UNCHANGED <<arenaVars, max_nodes, head, j, parses, failed>>

AllNodesDone ==
  /\ pc = "node" /\ ~ MoreNodes
  /\ pc' = "return"
  /\ UNCHANGED <<arenaVars, max_nodes, head, i, j, parses, failed>>

Return ==
  /\ pc = "return"
  /\ parses' = parses + 1 /\ pc' = "reset"
  /\ UNCHANGED <<arenaVars, max_nodes, head, i, j, failed>>

Finished == pc = "reset" /\ parses = PARSES /\ UNCHANGED vars

Next ==
  \/ Begin \/ AllocNode \/ NodeFails \/ AllocProp \/ PropFails
  \/ NodeDone \/ AllNodesDone \/ Return \/ Finished

Spec == Init /\ [][Next]_vars

(***************************************************************************)
(* Properties.                                                             *)
(***************************************************************************)
TypeOK ==
  /\ ArenaTypeOK
  /\ \A k \in 1 .. Len(head) : Len(head[k].props) <= MAX_PROPS
  /\ pc \in {"reset", "node", "prop", "return"}
  /\ i \in 0 .. max_nodes /\ j \in 0 .. MAX_PROPS /\ parses \in 0 .. PARSES

(* "All nodes and properties land consecutively in the arena" (line 168):  *)
(* every pointer of the list is a block of its own, in order of creation.  *)
Consecutive ==
  \A k \in 1 .. Len(head) :
    /\ head[k].at = (Len(head) - k) * (NODE_BYTES + MAX_PROPS * PROP_BYTES)
    /\ \A l \in 1 .. Len(head[k].props) :
         head[k].props[l].at =
           head[k].at + NODE_BYTES + (Len(head[k].props) - l) * PROP_BYTES

Numbers == [k \in 1 .. Len(head) |->
  [name |-> head[k].name, props |-> [l \in 1 .. Len(head[k].props) |-> head[k].props[l].name]]]

List == INSTANCE DeviceList WITH
  MaxProps <- MAX_PROPS, limit <- max_nodes, list <- Numbers, cut <- failed

(* arena_parse builds what linked_list_parse builds ("same structure",     *)
(* line 164), cut off at one point: "we simply stop when the arena is      *)
(* exhausted" (line 175), and no device follows one that lacks properties, *)
(* although a refused property only ends the inner loop.                   *)
ImplementsDeviceList == List!Spec

(* What the C list takes of an arena that nothing else uses. *)
Taken ==
  IF head = <<>> THEN 0
  ELSE Len(head) * NODE_BYTES
         + ((Len(head) - 1) * MAX_PROPS + Len(head[1].props)) * PROP_BYTES

(* Every parse, the second as the first, gets the whole arena (lines 151   *)
(* and 175): arena_parse returns all devices with all their properties, or *)
(* the next one it wanted would not have fitted.                           *)
AsManyAsPossible ==
  pc = "return" =>
    IF head # <<>> /\ Len(head[1].props) < MAX_PROPS
    THEN Taken + PROP_BYTES > ARENA_BYTES
    ELSE Len(head) = max_nodes \/ Taken + NODE_BYTES > ARENA_BYTES
=============================================================================
