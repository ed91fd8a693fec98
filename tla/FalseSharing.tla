---------------------------- MODULE FalseSharing ----------------------------
(***************************************************************************)
(* solutions/ch02/ex2_2_false_sharing.c under BENCH_RUN: two threads       *)
(* increment a counter each, once with the counters side by side and once  *)
(* with padding between them.  Increments are a load and a store; the      *)
(* caches keep, per line, who holds a valid copy: a store leaves only the  *)
(* storer's.  The clock ticks at every increment.                          *)
(***************************************************************************)
EXTENDS Benchmark

CONSTANTS
  ITERS, CACHE_LINE,
  Base       \* where the linker may put a structure

(* The structures are aligned to their uint64_t, of 8 bytes. *)
ASSUME SharingAssumption ==
  /\ ITERS \in Nat \ {0} /\ COUNTER > 2 * ITERS
  /\ CACHE_LINE \in Nat /\ CACHE_LINE > 8
  /\ \A x \in Base : x \in Nat /\ x % 8 = 0

VARIABLES
  layout,     \* the benchmark that runs: "adjacent" or "padded"
  base,       \* the address of its structure
  value,      \* the counters a and b
  pc, i, reg, \* of the two threads: the loop counter and the loaded value
  copies,     \* per cache line, the threads with a valid copy
  disturbed   \* the threads whose copy the other one invalidated (history)

structVars == <<layout, base>>
threadVars == <<pc, i, reg>>
cacheVars  == <<copies, disturbed>>
ownVars    == <<structVars, value, threadVars, cacheVars>>
sharingVars == <<ownVars, clock, benchVars>>

Threads == {"t1", "t2"}
Other(t) == IF t = "t1" THEN "t2" ELSE "t1"

OffsetShortPad(t) ==                         \* faulty: the padding lacks 8 bytes
  IF t = "t1" THEN 0 ELSE IF layout = "padded" THEN CACHE_LINE - 8 ELSE 8
(* offsetof(..., a) and offsetof(..., b): the padding is CACHE_LINE - 8.   *)
Offset(t) == IF t = "t1" THEN 0 ELSE IF layout = "padded" THEN CACHE_LINE ELSE 8

Line(t) == (base + Offset(t)) \div CACHE_LINE
Lines == {(x + y) \div CACHE_LINE : x \in Base, y \in {0, 8, CACHE_LINE - 8, CACHE_LINE}}

Idle == [t \in Threads |-> "idle"]
Zero == [t \in Threads |-> 0]

SharingInit ==
  /\ BenchInit
  /\ layout = "adjacent" /\ base \in Base
  /\ value = Zero /\ pc = Idle /\ i = Zero /\ reg = Zero
  /\ copies = [l \in Lines |-> {}] /\ disturbed = {}

(***************************************************************************)
(* The threads: inc_adj_a and inc_adj_b, inc_pad_a and inc_pad_b.          *)
(***************************************************************************)
Load(t) ==
  /\ pc[t] = "load" /\ i[t] < ITERS
  /\ reg' = [reg EXCEPT ![t] = value[t]]
  /\ copies' = [copies EXCEPT ![Line(t)] = @ \cup {t}]
  /\ pc' = [pc EXCEPT ![t] = "store"]
  /\ UNCHANGED <<structVars, value, i, disturbed, clock, benchVars>>

Store(t) ==
  /\ pc[t] = "store"
  /\ value' = [value EXCEPT ![t] = reg[t] + 1]
  /\ disturbed' = disturbed \cup (copies[Line(t)] \ {t})
  /\ copies' = [copies EXCEPT ![Line(t)] = {t}]
  /\ Tick
  /\ i' = [i EXCEPT ![t] = @ + 1]
  /\ pc' = [pc EXCEPT ![t] = "load"]
  /\ UNCHANGED <<structVars, reg, benchVars>>

ThreadReturns(t) ==
  /\ pc[t] = "load" /\ i[t] = ITERS
  /\ pc' = [pc EXCEPT ![t] = "returned"]
  /\ UNCHANGED <<structVars, value, i, reg, cacheVars, clock, benchVars>>

(***************************************************************************)
(* run_adjacent and run_padded, the body of BENCH_RUN.                     *)
(***************************************************************************)
Body(from, to) ==
  bench_pc = from /\ bench_pc' = to /\ UNCHANGED <<arch, turn, t0, samples, stats>>

Clear ==
  /\ Body("body", "create1")
  /\ value' = Zero
  /\ copies' = [l \in Lines |-> {}] /\ disturbed' = {}
  /\ UNCHANGED <<structVars, threadVars, clock>>

Create(t, from, to) ==
  /\ Body(from, to)
  /\ pc' = [pc EXCEPT ![t] = "load"] /\ i' = [i EXCEPT ![t] = 0]
  /\ UNCHANGED <<structVars, value, reg, cacheVars, clock>>

NotJoined(t) == pc[t] # "idle"               \* faulty: no pthread_join
Joined(t) == pc[t] = "returned"

Join(t, from, to) ==
  /\ Body(from, to) /\ Joined(t)
  /\ pc' = [pc EXCEPT ![t] = "idle"]
  /\ UNCHANGED <<structVars, value, i, reg, cacheVars, clock>>

RunBody ==
  \/ Clear
  \/ Create("t1", "create1", "create2") \/ Create("t2", "create2", "join1")
  \/ Join("t1", "join1", "join2") \/ Join("t2", "join2", "end")

(* After the first benchmark main runs the second one. *)
NextBenchmark ==
  /\ bench_pc = "print" /\ layout = "adjacent"
  /\ NextBenchRun
  /\ layout' = "padded" /\ base' \in Base
  /\ disturbed' = {}
  /\ UNCHANGED <<value, threadVars, copies>>

SharingDone == bench_pc = "print" /\ layout = "padded"

SharingNext ==
  \/ \E t \in Threads : Load(t) \/ Store(t) \/ ThreadReturns(t)
  \/ RunBody \/ NextBenchmark
  \/ BenchStep /\ UNCHANGED ownVars

SharingSpec == SharingInit /\ [][SharingNext]_sharingVars

(***************************************************************************)
(* Properties.                                                             *)
(***************************************************************************)
(* "Writes by one thread do not invalidate the other's line" (line 84):    *)
(* wherever the padded structure lies, no thread ever loses its copy.      *)
NoFalseSharing == layout = "padded" => disturbed = {}

(* No increment is lost without a mutex (lines 56-57), and a sample spans  *)
(* all increments of one run: run_adjacent and run_padded return only when *)
(* both threads have.                                                      *)
MeasuredWhole ==
  /\ bench_pc = "end" => value = [t \in Threads |-> ITERS]
  /\ Measures(2 * ITERS, 2 * ITERS)
=============================================================================
