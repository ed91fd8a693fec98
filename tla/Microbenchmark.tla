--------------------------- MODULE Microbenchmark ---------------------------
(***************************************************************************)
(* solutions/ch03/ex3_1_microbenchmark.c: BENCH_RUN around an increment    *)
(* loop, around two reads of the counter, and around the traversal of a    *)
(* list that was built before.  Every operation takes a tick; a body may   *)
(* be interrupted for another INTERRUPTS of them.                          *)
(***************************************************************************)
EXTENDS Benchmark

CONSTANTS
  INNER_OPS, LIST_NODES,
  Addr, NULL,     \* the blocks of the heap
  INTERRUPTS      \* bound on the ticks a body may lose

ASSUME MicroAssumption ==
  /\ INNER_OPS \in Nat \ {0} /\ LIST_NODES \in Nat \ {0} /\ INTERRUPTS \in Nat
  /\ NULL \notin Addr
  /\ \A cost \in {INNER_OPS, 2, LIST_NODES} : cost + INTERRUPTS < COUNTER

VARIABLES
  workload,          \* the BENCH_RUN of main
  m_i,               \* the loop counter
  inner_t0, elapsed, \* t0 of the second body, and its t1 - t0
  list_head, val, next,
  m_n, sum,          \* of the traversal
  interrupts         \* ticks lost by the body so far

listVars  == <<list_head, val, next>>
bodyVars  == <<m_i, inner_t0, elapsed, m_n, sum>>
microVars == <<workload, listVars, bodyVars, interrupts, clock, benchVars>>

MicroInit ==
  /\ BenchInit
  /\ workload = "empty_loop" /\ m_i = 0
  /\ inner_t0 = 0 /\ elapsed = 0
  /\ list_head = NULL
  /\ val = [a \in Addr |-> 0] /\ next = [a \in Addr |-> NULL]
  /\ m_n = NULL /\ sum = 0 /\ interrupts = 0

At(w, from) == workload = w /\ bench_pc = from
GoTo(to) == bench_pc' = to /\ UNCHANGED <<arch, turn, t0, samples, stats, workload>>

EmptyLoop ==
  /\ At("empty_loop", "body") /\ m_i < INNER_OPS
  /\ Tick /\ m_i' = m_i + 1
  /\ UNCHANGED <<workload, listVars, inner_t0, elapsed, m_n, sum, interrupts, benchVars>>

EmptyLoopEnds ==
  /\ At("empty_loop", "body") /\ m_i = INNER_OPS
  /\ GoTo("end") /\ m_i' = 0
  /\ UNCHANGED <<listVars, inner_t0, elapsed, m_n, sum, interrupts, clock>>

ReadFirst ==
  /\ At("read_counter", "body")
  /\ GoTo("second") /\ inner_t0' = read_counter /\ Tick
  /\ UNCHANGED <<listVars, m_i, elapsed, m_n, sum, interrupts>>

ReadSecond ==
  /\ At("read_counter", "second")
  /\ GoTo("end") /\ elapsed' = (read_counter - inner_t0) % COUNTER /\ Tick
  /\ UNCHANGED <<listVars, m_i, inner_t0, m_n, sum, interrupts>>

(***************************************************************************)
(* build_list, between two BENCH_RUNs.  No block is ever freed.            *)
(***************************************************************************)
BlocksInUse ==
  LET used[m \in 0 .. LIST_NODES] ==
        IF m = 0 THEN {list_head} ELSE used[m - 1] \cup {next[a] : a \in used[m - 1] \ {NULL}}
  IN used[LIST_NODES]

Linked(a) == next' = [next EXCEPT ![a] = list_head]

BuildNode(a) ==
  /\ At("build", "build") /\ m_i < LIST_NODES /\ a \notin BlocksInUse
  /\ val' = [val EXCEPT ![a] = m_i] /\ Linked(a)
  /\ list_head' = a /\ m_i' = m_i + 1
  /\ Tick
  /\ UNCHANGED <<workload, inner_t0, elapsed, m_n, sum, interrupts, benchVars>>

(* malloc returns NULL: perror and exit(1). *)
BuildListFails ==
  /\ At("build", "build") /\ m_i < LIST_NODES
  /\ GoTo("exited")
  /\ UNCHANGED <<listVars, bodyVars, interrupts, clock>>

(***************************************************************************)
(* The traversal.                                                          *)
(***************************************************************************)
TraverseBegins ==
  /\ At("traverse", "body")
  /\ GoTo("walk") /\ sum' = 0 /\ m_n' = list_head
  /\ UNCHANGED <<listVars, m_i, inner_t0, elapsed, interrupts, clock>>

TraverseNode ==
  /\ At("traverse", "walk") /\ m_n # NULL
  /\ sum' = sum + val[m_n] /\ m_n' = next[m_n] /\ Tick
  /\ UNCHANGED <<workload, listVars, m_i, inner_t0, elapsed, interrupts, benchVars>>

TraverseEnds ==
  /\ At("traverse", "walk") /\ m_n = NULL
  /\ GoTo("end")
  /\ UNCHANGED <<listVars, bodyVars, interrupts, clock>>

(* The body is interrupted. *)
Interrupt ==
  /\ bench_pc \in {"body", "second", "walk"} /\ interrupts < INTERRUPTS
  /\ Tick /\ interrupts' = interrupts + 1
  /\ UNCHANGED <<workload, listVars, bodyVars, benchVars>>

MicroBench ==
  /\ BenchStep
  /\ interrupts' = 0
  /\ UNCHANGED <<workload, listVars, bodyVars>>

Follows(w, from, to) ==
  /\ At(w, from)
  /\ workload' = to /\ m_i' = 0
  /\ UNCHANGED <<listVars, inner_t0, elapsed, m_n, sum, interrupts>>

NextWorkload ==
  \/ Follows("empty_loop", "print", "read_counter") /\ NextBenchRun
  \/ Follows("read_counter", "print", "build")
       /\ bench_pc' = "build" /\ UNCHANGED <<arch, clock, turn, t0, samples, stats>>
  \/ m_i = LIST_NODES /\ Follows("build", "build", "traverse") /\ NextBenchRun

MicroNext ==
  \/ EmptyLoop \/ EmptyLoopEnds \/ ReadFirst \/ ReadSecond
  \/ (\E a \in Addr : BuildNode(a)) \/ BuildListFails
  \/ TraverseBegins \/ TraverseNode \/ TraverseEnds
  \/ Interrupt \/ MicroBench \/ NextWorkload

MicroDone == At("traverse", "print") \/ bench_pc = "exited"

MicroSpec == MicroInit /\ [][MicroNext]_microVars

(***************************************************************************)
(* Properties.                                                             *)
(***************************************************************************)
Cost == CASE workload = "empty_loop" -> INNER_OPS [] workload = "read_counter" -> 2
          [] OTHER -> LIST_NODES

(* Samples count the operations of one body and no more than interrupted   *)
(* it: nothing of build_list ("allocation cost is not included", lines     *)
(* 83-84), all nodes of the list, wherever malloc put them (line 86); what *)
(* a read costs is the difference of two reads (lines 73-77).              *)
WorkloadsMeasured ==
  /\ workload # "build" => Measures(Cost, Cost + INTERRUPTS)
  /\ At("read_counter", "end") => elapsed \in 1 .. 1 + INTERRUPTS
  /\ At("traverse", "end") => sum = (LIST_NODES * (LIST_NODES - 1)) \div 2
=============================================================================
