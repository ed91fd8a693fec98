------------------------------- MODULE Sweeps -------------------------------
(***************************************************************************)
(* The programs that do the same work in different orders of memory        *)
(* access: solutions/ch01/ex1_2_cache_miss.c, ch02/                        *)
(* ex2_1_cache_line_detect.c, ch04/ex4_1_matrix_traversal.c and ch04/      *)
(* ex4_2_soa_vs_aos.c, one action per turn of a loop.  A behaviour is one  *)
(* of the programs; each measured function is called once.  A read misses  *)
(* unless it is on the line of the read before it: the arrays are far      *)
(* larger than the caches.                                                 *)
(***************************************************************************)
EXTENDS Integers, Sequences

CONSTANTS
  ELEMENTS,     \* elements of arr and rand_idx, particles of ex4_2
  ROWS, COLS,
  ARRAY_BYTES, MAX_STRIDE,
  LINE,         \* bytes of a cache line
  INT_BYTES     \* sizeof(int), and of int32_t

(* The arrays are whole lines, a row is at least one, and the strides      *)
(* divide the array (4 MiB, of which they are the powers of two up to 512).*)
ASSUME SweepAssumption ==
  /\ {ELEMENTS, ROWS, COLS, ARRAY_BYTES, MAX_STRIDE, LINE, INT_BYTES} \subseteq Nat \ {0}
  /\ LINE % INT_BYTES = 0
  /\ ROWS > 2 /\ COLS * INT_BYTES >= LINE /\ (ROWS * COLS * INT_BYTES) % LINE = 0
  /\ ARRAY_BYTES % LINE = 0
  /\ \A s \in 1 .. MAX_STRIDE :
       ARRAY_BYTES % s = 0 /\ 2 * s <= MAX_STRIDE => ARRAY_BYTES % (2 * s) = 0

VARIABLES
  sweep,       \* the function that runs
  s_i, s_j,    \* the counters of its loops, outer first
  rand_idx,    \* ex1_2
  stride,      \* ex2_1
  s_sum,
  aos, soa,    \* ex4_2: how often each coordinate was advanced
  array_base,  \* where in a line the array begins
  line, reads, misses,  \* the line last read; loads and misses of the call (history)
  calls        \* what the calls that returned came to (history)

workVars == <<rand_idx, stride, aos, soa>>
readVars == <<s_sum, line, reads, misses>>
sweepVars == <<sweep, s_i, s_j, workVars, array_base, readVars, calls>>

Element == 0 .. ELEMENTS - 1
Axis == {"x", "y", "z"}

SweepInit ==
  /\ sweep \in {"setup", "stride_access", "row_major_sum", "update_aos"}
  /\ s_i = (IF sweep = "setup" THEN ELEMENTS - 1 ELSE 0) /\ s_j = 0
  /\ rand_idx = [e \in Element |-> e]
  /\ stride = 1
  /\ aos = [e \in Element |-> [axis \in Axis |-> 0]]
  /\ soa = [axis \in Axis |-> [e \in Element |-> 0]]
  /\ array_base \in {b \in 0 .. LINE - 1 : b % INT_BYTES = 0}
  /\ s_sum = 0 /\ line = -1 /\ reads = 0 /\ misses = 0
  /\ calls = <<>>

(* A load of the value at an offset into the array. *)
Read(offset, value) ==
  /\ s_sum' = s_sum + value
  /\ line' = (array_base + offset) \div LINE
  /\ reads' = reads + 1
  /\ misses' = IF line' = line THEN misses ELSE misses + 1

(* The function returns, and main calls the next one. *)
Return(after) ==
  /\ calls' = Append(calls, [of |-> sweep, stride |-> stride, sum |-> s_sum,
                            reads |-> reads, misses |-> misses])
  /\ sweep' = after
  /\ s_i' = 0 /\ s_j' = 0 /\ s_sum' = 0 /\ line' = -1 /\ reads' = 0 /\ misses' = 0

(***************************************************************************)
(* ex1_2: the shuffle of setup, then sequential_sum and random_sum over    *)
(* arr, whose element i is i.                                              *)
(***************************************************************************)
SwappedWithoutTmp(m) == [rand_idx EXCEPT ![s_i] = rand_idx[m]]   \* faulty: tmp not stored
Swapped(m) == [rand_idx EXCEPT ![s_i] = rand_idx[m], ![m] = rand_idx[s_i]]

ShuffleTurn ==
  /\ sweep = "setup" /\ s_i > 0
  /\ \E m \in 0 .. s_i : rand_idx' = Swapped(m)
  /\ s_i' = s_i - 1
  /\ UNCHANGED <<sweep, s_j, stride, aos, soa, array_base, readVars, calls>>

SetupDone ==
  /\ sweep = "setup" /\ s_i = 0
  /\ sweep' = "sequential_sum"
  /\ UNCHANGED <<s_i, s_j, workVars, array_base, readVars, calls>>

SumTurn ==
  /\ sweep \in {"sequential_sum", "random_sum"} /\ s_i < ELEMENTS
  /\ LET e == IF sweep = "random_sum" THEN rand_idx[s_i] ELSE s_i
     IN Read(e * INT_BYTES, e)
  /\ s_i' = s_i + 1
  /\ UNCHANGED <<sweep, s_j, workVars, array_base, calls>>

SumReturns ==
  /\ sweep \in {"sequential_sum", "random_sum"} /\ s_i = ELEMENTS
  /\ Return(IF sweep = "random_sum" THEN "done" ELSE "random_sum")
  /\ UNCHANGED <<workVars, array_base>>

(***************************************************************************)
(* ex2_1: stride_access for each power of two up to MAX_STRIDE.            *)
(***************************************************************************)
(* malloc of buf returns NULL: perror and exit(1). *)
SetupFails ==
  /\ sweep = "stride_access" /\ stride = 1 /\ s_i = 0
  /\ sweep' = "exited"
  /\ UNCHANGED <<s_i, s_j, workVars, array_base, readVars, calls>>

StrideTurn ==
  /\ sweep = "stride_access" /\ s_i < ARRAY_BYTES
  /\ Read(s_i, s_i % 256)
  /\ s_i' = s_i + stride
  /\ UNCHANGED <<sweep, s_j, workVars, array_base, calls>>

StrideReturns ==
  /\ sweep = "stride_access" /\ s_i >= ARRAY_BYTES
  /\ stride' = stride * 2
  /\ Return(IF stride' <= MAX_STRIDE THEN "stride_access" ELSE "done")
  /\ UNCHANGED <<rand_idx, aos, soa, array_base>>

(***************************************************************************)
(* ex4_1: row_major_sum has r outside and c inside, col_major_sum the      *)
(* other way round; matrix[r][c] is r * COLS + c.                          *)
(***************************************************************************)
Matrix == sweep \in {"row_major_sum", "col_major_sum"}
Outer  == IF sweep = "row_major_sum" THEN ROWS ELSE COLS
Inner  == IF sweep = "row_major_sum" THEN COLS ELSE ROWS

MatrixTurn ==
  /\ Matrix /\ s_i < Outer /\ s_j < Inner
  /\ LET e == IF sweep = "row_major_sum" THEN s_i * COLS + s_j ELSE s_j * COLS + s_i
     IN Read(e * INT_BYTES, e)
  /\ s_j' = s_j + 1
  /\ UNCHANGED <<sweep, s_i, workVars, array_base, calls>>

MatrixInnerEnds ==
  /\ Matrix /\ s_i < Outer /\ s_j = Inner
  /\ s_i' = s_i + 1 /\ s_j' = 0
  /\ UNCHANGED <<sweep, workVars, array_base, readVars, calls>>

MatrixReturns ==
  /\ Matrix /\ s_i = Outer
  /\ Return(IF sweep = "col_major_sum" THEN "done" ELSE "col_major_sum")
  /\ UNCHANGED <<workVars, array_base>>

(***************************************************************************)
(* ex4_2: one loop over the particles, or one loop per coordinate.         *)
(***************************************************************************)
AosTurn ==
  /\ sweep = "update_aos" /\ s_i < ELEMENTS
  /\ aos' = [aos EXCEPT ![s_i] = [axis \in Axis |-> @[axis] + 1]]
  /\ s_i' = s_i + 1
  /\ UNCHANGED <<sweep, s_j, rand_idx, stride, soa, array_base, readVars, calls>>

AosReturns ==
  /\ sweep = "update_aos" /\ s_i = ELEMENTS
  /\ Return("update_soa")
  /\ UNCHANGED <<workVars, array_base>>

SoaTurn ==
  /\ sweep = "update_soa" /\ s_i < ELEMENTS /\ s_j < 3
  /\ soa' = [soa EXCEPT ![<<"x", "y", "z">>[s_j + 1]][s_i] = @ + 1]
  /\ s_i' = s_i + 1
  /\ UNCHANGED <<sweep, s_j, rand_idx, stride, aos, array_base, readVars, calls>>

SoaLoopEnds ==
  /\ sweep = "update_soa" /\ s_i = ELEMENTS /\ s_j < 3
  /\ s_j' = s_j + 1 /\ s_i' = 0
  /\ UNCHANGED <<sweep, workVars, array_base, readVars, calls>>

SoaReturns ==
  /\ sweep = "update_soa" /\ s_j = 3
  /\ Return("done")
  /\ UNCHANGED <<workVars, array_base>>

SweepNext ==
  \/ ShuffleTurn \/ SetupDone \/ SumTurn \/ SumReturns
  \/ SetupFails \/ StrideTurn \/ StrideReturns
  \/ MatrixTurn \/ MatrixInnerEnds \/ MatrixReturns
  \/ AosTurn \/ AosReturns \/ SoaTurn \/ SoaLoopEnds \/ SoaReturns

SweepSpec == SweepInit /\ [][SweepNext]_sweepVars

(***************************************************************************)
(* Properties.                                                             *)
(***************************************************************************)
(* As many lines as the bytes fill, and one more if they begin inside one. *)
LinesOf(bytes, l) == {bytes \div l, bytes \div l + 1}

(* Each read once: "the total work is identical" (ex1_2 line 76), "same    *)
(* operations, same result" (ex4_1 line 69), both layouts end with the     *)
(* same positions (ex4_2).  Only the lines differ: every read of the       *)
(* column-major sum is on another line than the one before, and up to the  *)
(* line size a stride saves loads and no misses (ex2_1 lines 12-21).       *)
SameWorkOtherLines ==
  /\ \A p \in DOMAIN calls :
       LET call == calls[p] IN
       /\ call.of \in {"random_sum", "col_major_sum"} =>
            call.sum = calls[p - 1].sum /\ call.reads = calls[p - 1].reads
       /\ call.of = "row_major_sum" => call.misses \in LinesOf(ROWS * COLS * INT_BYTES, LINE)
       /\ call.of = "col_major_sum" => call.misses = ROWS * COLS
       /\ call.of = "stride_access" =>
            /\ call.reads = ARRAY_BYTES \div call.stride
            /\ call.misses \in
                 LinesOf(ARRAY_BYTES, IF call.stride > LINE THEN call.stride ELSE LINE)
  /\ sweep = "done" => \A e \in Element, axis \in Axis : aos[e][axis] = soa[axis][e]
=============================================================================
