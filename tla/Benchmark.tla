----------------------------- MODULE Benchmark ------------------------------
(***************************************************************************)
(* exercises/common/benchmark.h and benchmark.c: BENCH_RUN runs a body     *)
(* WARMUP times, then ITERATIONS times between two reads of a counter that *)
(* ticks while it runs, and computes statistics.  The modules that extend  *)
(* this one supply the body: the steps from bench_pc "body" to "end".      *)
(***************************************************************************)
EXTENDS Integers, SequencesExt

CONSTANTS
  WARMUP, ITERATIONS,  \* the arguments of BENCH_RUN
  WORD,                \* what uint32_t wraps at: 2^32
  NSEC                 \* nanoseconds of a second: 1000000000

ASSUME BenchAssumption ==
  WARMUP \in Nat /\ ITERATIONS \in Nat \ {0} /\ WORD \in Nat \ {0} /\ NSEC \in Nat \ {0}

VARIABLES
  arch,       \* what the program is compiled for
  clock,      \* ticks so far, as a uint64_t counts them
  bench_pc,   \* where main is in BENCH_RUN
  turn,       \* _w and then _i
  t0, samples, stats

benchVars == <<arch, bench_pc, turn, t0, samples, stats>>

COUNTER == WORD * WORD
Tick == clock' = (clock + 1) % COUNTER

BenchInit ==
  /\ arch \in {"riscv64", "x86_64", "other"}
  /\ clock = 0
  /\ bench_pc = "start" /\ turn = 0 /\ t0 = 0 /\ samples = <<>>
  /\ stats = [min |-> 0, max |-> 0, sum |-> 0, var |-> 0]

(* rdcycle; rdtsc in two halves; or clock_gettime in seconds and the rest. *)
read_counter ==
  CASE arch = "riscv64" -> clock
    [] arch = "x86_64"  -> LET hi == clock \div WORD
                               lo == clock % WORD
                           IN hi * WORD + lo
    [] arch = "other"   -> LET tv_sec == clock \div NSEC
                               tv_nsec == clock % NSEC
                           IN (tv_sec * NSEC + tv_nsec) % COUNTER

(* _t0 is read before a timed turn. *)
Start ==
  /\ bench_pc = "start"
  /\ t0' = IF turn < WARMUP THEN t0 ELSE read_counter
  /\ bench_pc' = "body"
  /\ UNCHANGED <<arch, clock, turn, samples, stats>>

EndTurn ==
  /\ bench_pc = "end"
  /\ samples' = IF turn < WARMUP THEN samples
                ELSE Append(samples, (read_counter - t0) % COUNTER)
  /\ turn' = turn + 1
  /\ bench_pc' = IF turn' = WARMUP + ITERATIONS THEN "stats" ELSE "start"
  /\ UNCHANGED <<arch, clock, t0, stats>>

Total(f) == FoldFunction(+, 0, f)

(* The mean is sum / n, and the square of stddev is var / n^3. *)
StatsOf(s) ==
  LET n == Len(s)
      sum == Total(s)
  IN IF n = 0 THEN [min |-> 0, max |-> 0, sum |-> 0, var |-> 0]
     ELSE [min |-> Min(ToSet(s)), max |-> Max(ToSet(s)), sum |-> sum,
           var |-> Total([k \in 1 .. n |-> (n * s[k] - sum) * (n * s[k] - sum)])]

bench_stats ==
  /\ bench_pc = "stats"
  /\ stats' = StatsOf(samples)
  /\ bench_pc' = "print"
  /\ UNCHANGED <<arch, clock, turn, t0, samples>>

BenchStep == Start \/ EndTurn \/ bench_stats

(* After bench_print_result, at another BENCH_RUN of main. *)
NextBenchRun ==
  /\ bench_pc' = "start" /\ turn' = 0 /\ samples' = <<>>
  /\ UNCHANGED <<arch, clock, t0, stats>>

(***************************************************************************)
(* Properties.                                                             *)
(***************************************************************************)
(* Every sample spans one whole body, of least to most ticks, and nothing  *)
(* else, also when a counter or its lower half wraps in between; the       *)
(* statistics are of all the timed bodies and of no warmup.                *)
Measures(least, most) ==
  /\ \A s \in DOMAIN samples : samples[s] \in least .. most
  /\ Len(samples) = IF turn < WARMUP THEN 0 ELSE turn - WARMUP
  /\ bench_pc = "print" =>
       /\ Len(samples) = ITERATIONS
       /\ stats.min \in least .. most /\ stats.max \in stats.min .. most
       /\ stats.sum \in stats.min * ITERATIONS .. stats.max * ITERATIONS
       /\ (stats.var = 0) = (stats.min = stats.max)
=============================================================================
