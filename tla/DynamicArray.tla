---------------------------- MODULE DynamicArray ----------------------------
(***************************************************************************)
(* solutions/ch08/ex8_1_dynamic_array.c: workload pushes PUSH_COUNT        *)
(* elements into an array that grows by a factor.  A factor is a fraction; *)
(* for 1.5, 2.0 and 1.618 and the capacities that occur, the conversion to *)
(* size_t gives what the exact quotient gives.                             *)
(***************************************************************************)
EXTENDS Integers

CONSTANTS
  PUSH_COUNT,
  Growth      \* the factors: pairs <<numerator, denominator>>

ASSUME GrowthAssumption ==
  /\ PUSH_COUNT \in Nat
  /\ \A g \in Growth : g[1] \in Nat /\ g[2] \in Nat \ {0} /\ g[1] > g[2]

VARIABLES
  growth, size, cap, reallocs,  \* darray_t
  da_pc,                        \* where workload is
  copied                        \* elements moved by realloc so far (history)

daVars == <<growth, size, cap, reallocs, da_pc, copied>>

DaInit ==
  /\ growth \in Growth
  /\ size = 0 /\ cap = 0 /\ reallocs = 0 /\ copied = 0
  /\ da_pc = "init"

da_init ==
  /\ da_pc = "init"
  /\ cap' = 16 /\ da_pc' = "push"
  /\ UNCHANGED <<growth, size, reallocs, copied>>

GrownByConstant == cap + 16                  \* faulty: not a factor
Grown == (cap * growth[1]) \div growth[2] + 1

(* The full case of da_push. *)
Resize ==
  /\ da_pc = "push" /\ size < PUSH_COUNT /\ size = cap
  /\ cap' = Grown
  /\ reallocs' = reallocs + 1 /\ copied' = copied + size
  /\ da_pc' = "store"
  /\ UNCHANGED <<growth, size>>

StoreElement ==
  /\ \/ da_pc = "store"
     \/ da_pc = "push" /\ size < PUSH_COUNT /\ size # cap
  /\ size' = size + 1 /\ da_pc' = "push"
  /\ UNCHANGED <<growth, cap, reallocs, copied>>

(* malloc or realloc returns NULL: perror and exit(1). *)
AllocationFails ==
  /\ da_pc = "init" \/ (da_pc = "push" /\ size < PUSH_COUNT /\ size = cap)
  /\ da_pc' = "exited"
  /\ UNCHANGED <<growth, size, cap, reallocs, copied>>

da_free ==
  /\ da_pc = "push" /\ size = PUSH_COUNT
  /\ da_pc' = "done"
  /\ UNCHANGED <<growth, size, cap, reallocs, copied>>

DaNext == da_init \/ Resize \/ StoreElement \/ AllocationFails \/ da_free

DaSpec == DaInit /\ [][DaNext]_daVars

(***************************************************************************)
(* Properties.                                                             *)
(***************************************************************************)
(* There is room for every store; "total bytes copied across all resizes = *)
(* O(N) (geometric series)" (line 27): with factor p / q at most           *)
(* p / (p - q) copies per element; and between pushes a resized array      *)
(* wastes at most 1 - q / p of its capacity: 50% for 2, 33% for 1.5 (lines *)
(* 14 and 19).                                                             *)
GrowthIsCheap ==
  LET p == growth[1]
      q == growth[2]
  IN /\ size <= cap /\ (da_pc = "store" => size < cap)
     /\ copied * (p - q) <= size * p
     /\ da_pc = "push" /\ reallocs > 0 => (cap - size) * p <= cap * (p - q)
=============================================================================
