------------------------------- MODULE Stacks -------------------------------
(***************************************************************************)
(* solutions/ch05/ex5_1_list_vs_array.c: the array stack and the           *)
(* linked-list stack, given the same calls.  malloc returns any block that *)
(* is not in use, or NULL; a freed block keeps nothing.                    *)
(***************************************************************************)
EXTENDS Integers, SequencesExt

CONSTANTS
  STACK_SIZE,    \* N of the program: the places of arr_stack
  StackValue,    \* what may be pushed: C ints
  Addr, NIL      \* the blocks of the heap, and the null pointer

ASSUME StackAssumption ==
  /\ STACK_SIZE \in Nat \ {0} /\ StackValue \subseteq Int
  /\ IsFiniteSet(Addr) /\ NIL \notin Addr

VARIABLES
  arr_stack, arr_top, arr_out,              \* arr_out: what arr_pop returned
  list_head, used, val, next, list_out,     \* the nodes in use and their fields
  stack_pc                                  \* "running", or "exited"

arrVars   == <<arr_stack, arr_top, arr_out>>
listVars  == <<list_head, used, val, next, list_out>>
stackVars == <<arrVars, listVars, stack_pc>>

StackInit ==
  /\ arr_stack = [s \in 0 .. STACK_SIZE - 1 |-> 0] /\ arr_top = -1 /\ arr_out = 0
  /\ list_head = NIL /\ used = {} /\ list_out = 0
  /\ val = [a \in Addr |-> 0] /\ next = [a \in Addr |-> NIL]
  /\ stack_pc = "running"

(***************************************************************************)
(* The array.  There is no bounds check: the callers keep to STACK_SIZE.   *)
(***************************************************************************)
arr_push(v) ==
  /\ arr_top < STACK_SIZE - 1
  /\ arr_top' = arr_top + 1
  /\ arr_stack' = [arr_stack EXCEPT ![arr_top'] = v]
  /\ UNCHANGED arr_out

arr_pop ==
  IF arr_top < 0 THEN arr_out' = 0 /\ UNCHANGED <<arr_stack, arr_top>>
  ELSE /\ arr_out' = arr_stack[arr_top]
       /\ arr_top' = arr_top - 1
       /\ UNCHANGED arr_stack

(***************************************************************************)
(* The list.                                                               *)
(***************************************************************************)
list_push(v) ==
  \E a \in Addr \ used :
    /\ used' = used \cup {a}
    /\ val' = [val EXCEPT ![a] = v]
    /\ next' = [next EXCEPT ![a] = list_head]
    /\ list_head' = a
    /\ UNCHANGED list_out

free(a) ==
  /\ used' = used \ {a}
  /\ val' = [val EXCEPT ![a] = 0]
  /\ next' = [next EXCEPT ![a] = NIL]

list_popFreeFirst ==                         \* faulty: list_head is advanced after free(old)
  IF list_head = NIL THEN list_out' = 0 /\ UNCHANGED <<list_head, used, val, next>>
  ELSE /\ free(list_head)
       /\ list_out' = val[list_head]
       /\ list_head' = next'[list_head]
list_pop ==
  IF list_head = NIL THEN list_out' = 0 /\ UNCHANGED <<list_head, used, val, next>>
  ELSE /\ list_head' = next[list_head]
       /\ list_out' = val[list_head]
       /\ free(list_head)

Push == \E v \in StackValue : arr_push(v) /\ list_push(v)
Pop  == arr_pop /\ list_pop

(* malloc returns NULL in list_push: perror and exit(1). *)
PushFails == arr_top < STACK_SIZE - 1 /\ stack_pc' = "exited" /\ UNCHANGED <<arrVars, listVars>>

StackNext ==
  /\ stack_pc = "running"
  /\ \/ (Push \/ Pop) /\ UNCHANGED stack_pc
     \/ PushFails

StackSpec == StackInit /\ [][StackNext]_stackVars

(***************************************************************************)
(* Properties.                                                             *)
(***************************************************************************)
ArrItems == [s \in 1 .. arr_top + 1 |-> arr_stack[s - 1]]

(* The n-th node of the list, counting from 0, and NIL behind its end. *)
NodeAt ==
  LET at[m \in 0 .. Cardinality(Addr)] ==
        IF m = 0 THEN list_head ELSE IF at[m - 1] = NIL THEN NIL ELSE next[at[m - 1]]
  IN at
Length == Cardinality({m \in DOMAIN NodeAt : NodeAt[m] # NIL})
ListItems == [s \in 1 .. Length |-> val[NodeAt[Length - s]]]

ArrayStack == INSTANCE Stack WITH
  Value <- StackValue, Capacity <- STACK_SIZE, items <- ArrItems, out <- arr_out
ListStack == INSTANCE Stack WITH
  Value <- StackValue, Capacity <- STACK_SIZE, items <- ListItems, out <- list_out

(* The nodes in use are those of the list: nothing is leaked or dangles.   *)
HeapIsTheList == used = {NodeAt[m] : m \in DOMAIN NodeAt} \ {NIL}

(* "Both implementations are semantically equivalent" (lines 6-7): each is *)
(* the same stack, and the list keeps the heap in order (lines 46-107).    *)
BothAreStacks ==
  /\ ArrayStack!Spec /\ ListStack!Spec
  /\ [](HeapIsTheList /\ ArrItems = ListItems /\ arr_out = list_out)
=============================================================================
