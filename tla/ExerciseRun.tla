----------------------------- MODULE ExerciseRun ----------------------------
(***************************************************************************)
(* sandbox/Makefile and sandbox/run.sh: the exercises are built and run    *)
(* one after the other, until one of them fails.  An exercise is the       *)
(* sequence of the things it does that may fail or not return; the stubs   *)
(* of ch13 are either as they were shipped or implemented.                 *)
(***************************************************************************)
EXTENDS Integers, SequencesExt

CONSTANTS
  Todos,        \* what of ch13 may still be stubs: sets of queue and operation
  MSG_COUNT, QUEUE_CAP

ASSUME RunAssumption ==
  /\ Todos \subseteq SUBSET ({"spsc", "mtq"} \X {"enqueue", "dequeue"})
  /\ MSG_COUNT \in Nat \ {0} /\ QUEUE_CAP \in Nat \ {0}

(***************************************************************************)
(* The exercises.  "print" is a computation that returns, with a line of   *)
(* results; malloc may return NULL, which all check; calloc is that of     *)
(* bt_new_node, checked too late; "spsc" and "mtq" are the bodies that run *)
(* a producer and a consumer thread.                                       *)
(***************************************************************************)
ex1_1  == <<"malloc", "print", "print">>
ex1_2  == <<"print", "print">>
ex2_1  == <<"malloc">> \o [stride \in 1 .. 10 |-> "print"]
ex2_2  == <<"print", "print">>
ex3_1  == <<"print", "print">>
ex4_1  == <<"print", "print">>
ex4_2  == <<"print", "print">>
ex5_1  == <<"print", "print">>
ex6_1  == <<"print">>
ex7_1  == [f \in 1 .. 6 |-> "print"]
ex8_1  == [f \in 1 .. 12 |-> IF f % 2 = 1 THEN "malloc" ELSE "print"]
ex9_1  == <<"malloc", "print", "print">>
ex10_1 == [o \in 1 .. 8 |-> IF o % 2 = 1 THEN "calloc" ELSE "print"]
ex12_1 == <<"malloc", "print", "malloc", "print">>
ex13_1 == <<"spsc", "print", "mtq", "print">>
ex16_1 == <<"print", "print", "print">>
ex17_1 == <<"print", "print">>

(* $(wildcard exercises/ch*/ex*.c), and build/riscv64/ch*/* of run.sh.     *)
EX_BINS == <<ex1_1, ex1_2, ex2_1, ex2_2, ex3_1, ex4_1, ex4_2, ex5_1, ex6_1, ex7_1,
             ex8_1, ex9_1, ex10_1, ex12_1, ex13_1, ex16_1, ex17_1>>

VARIABLES
  script,        \* "make run" or "run.sh"
  todo,          \* the stubs
  built,         \* how many of the binaries exist
  run_pc,        \* "build", "loop", "program" or "ended"
  bin, phase,    \* the binary that runs and how far it is
  sent, got,     \* of the threads of ch13; the queue holds the difference
  status,        \* of the last command
  printed        \* lines of results so far, per binary (history)

threads  == <<sent, got>>
choices  == <<script, todo>>
runVars  == <<choices, built, run_pc, bin, phase, threads, status, printed>>

Bins == 1 .. Len(EX_BINS)

(* ./run.sh takes what is there, all or what a failed build has left.      *)
RunInit ==
  /\ script \in {"make run", "run.sh"} /\ todo \in Todos
  /\ IF script = "run.sh" THEN run_pc = "loop" /\ built \in 0 .. Len(EX_BINS)
                          ELSE run_pc = "build" /\ built = 0
  /\ bin = 1 /\ phase = 1 /\ sent = 0 /\ got = 0
  /\ status = 0 /\ printed = [b \in Bins |-> 0]

(* run: all *)
Build ==
  /\ run_pc = "build"
  /\ IF built < Len(EX_BINS) THEN built' = built + 1 /\ UNCHANGED run_pc
                             ELSE run_pc' = "loop" /\ UNCHANGED built
  /\ UNCHANGED <<choices, bin, phase, threads, status, printed>>

BuildFails ==
  /\ run_pc = "build" /\ built < Len(EX_BINS)
  /\ run_pc' = "ended" /\ status' = 2
  /\ UNCHANGED <<choices, built, bin, phase, threads, printed>>

(* The for loop of both scripts starts the next binary. *)
StartBin ==
  /\ run_pc = "loop" /\ bin <= built
  /\ run_pc' = "program" /\ phase' = 1
  /\ UNCHANGED <<choices, built, bin, threads, status, printed>>

LoopEnds ==
  /\ run_pc = "loop" /\ bin > built
  /\ run_pc' = "ended"
  /\ UNCHANGED <<choices, built, bin, phase, threads, status, printed>>

(***************************************************************************)
(* A program.                                                              *)
(***************************************************************************)
Doing(what) == run_pc = "program" /\ phase <= Len(EX_BINS[bin]) /\ EX_BINS[bin][phase] = what

Prints ==
  /\ Doing("print")
  /\ printed' = [printed EXCEPT ![bin] = @ + 1] /\ phase' = phase + 1
  /\ UNCHANGED <<choices, built, run_pc, bin, threads, status>>

Allocates ==
  /\ Doing("malloc") \/ Doing("calloc")
  /\ phase' = phase + 1
  /\ UNCHANGED <<choices, built, run_pc, bin, threads, status, printed>>

(* The program ends with code: 1 of exit(1), 139 of a crash. *)
Goes(code) ==
  /\ status' = code
  /\ IF code = 0 THEN run_pc' = "loop" /\ bin' = bin + 1
                 ELSE run_pc' = "ended" /\ UNCHANGED bin
  /\ UNCHANGED <<choices, built, phase, threads, printed>>

ProgramEndsOn(code) ==                       \* faulty: no || exit 1, no set -e
  /\ status' = code /\ run_pc' = "loop" /\ bin' = bin + 1
  /\ UNCHANGED <<choices, built, phase, threads, printed>>
(* || exit 1 makes make fail with 2; set -e hands the code on. *)
ProgramEnds(code) == Goes(IF code # 0 /\ script = "make run" THEN 2 ELSE code)

ReturnsFromMain == run_pc = "program" /\ phase > Len(EX_BINS[bin]) /\ ProgramEnds(0)

OutOfMemory ==
  \/ Doing("malloc") /\ ProgramEnds(1)
  \/ Doing("calloc") /\ \E code \in {1, 139} : ProgramEnds(code)

(* The threads of ch13.  A stub returns 0, and its caller spins.           *)
Stub(op) == <<EX_BINS[bin][phase], op>> \in todo
TwoThreads == Doing("spsc") \/ Doing("mtq")

Produce ==
  /\ TwoThreads /\ sent < MSG_COUNT
  /\ ~ Stub("enqueue") /\ sent - got < QUEUE_CAP
  /\ sent' = sent + 1
  /\ UNCHANGED <<choices, built, run_pc, bin, phase, got, status, printed>>

HasMessageEarly == got + 1 < sent            \* faulty: the last one counts as none
HasMessage == got < sent

Consume ==
  /\ TwoThreads /\ got < MSG_COUNT
  /\ ~ Stub("dequeue") /\ HasMessage
  /\ got' = got + 1
  /\ UNCHANGED <<choices, built, run_pc, bin, phase, sent, status, printed>>

(* pthread_join of both, and the next run_lockfree or run_mutex resets.    *)
ThreadsJoined ==
  /\ TwoThreads /\ sent = MSG_COUNT /\ got = MSG_COUNT
  /\ sent' = 0 /\ got' = 0 /\ phase' = phase + 1
  /\ UNCHANGED <<choices, built, run_pc, bin, status, printed>>

RunStep ==
  \/ Build \/ StartBin \/ LoopEnds
  \/ Prints \/ Allocates \/ ReturnsFromMain \/ Produce \/ Consume \/ ThreadsJoined

(* No step is left: the scripts have ended, or threads spin.               *)
Rests == ~ ENABLED RunStep /\ UNCHANGED runVars

RunNext == RunStep \/ BuildFails \/ OutOfMemory \/ Rests

(* The machine goes on; nothing has to fail.                               *)
RunSpec == RunInit /\ [][RunNext]_runVars /\ WF_runVars(RunStep)

(***************************************************************************)
(* Properties.                                                             *)
(***************************************************************************)
Printed(b, p) == Cardinality({q \in 1 .. p : EX_BINS[b][q] = "print"})
ResultLines(b) == Printed(b, Len(EX_BINS[b]))

(* The scripts stop at the first exercise that fails: all before it have   *)
(* printed all their results and none after it has begun, and status 0     *)
(* means that everything built has run (Makefile lines 37-40, run.sh lines *)
(* 11 and 23-27).                                                          *)
StopsAtFirstFailure ==
  /\ \A b \in Bins : (b < bin => printed[b] = ResultLines(b)) /\ (b > bin => printed[b] = 0)
  /\ run_pc = "ended" /\ status = 0 => \A b \in 1 .. built : printed[b] = ResultLines(b)
  /\ run_pc = "ended" /\ status # 0 /\ bin <= built => printed[bin] < ResultLines(bin)

(* With all of ch13 implemented the scripts come to an end. *)
ScriptsEnd == todo = {} => <>(run_pc = "ended")

(* make run is to "build then run all exercises" (README.md line 173): it  *)
(* ends, with the stubs as they were shipped too, which "implement TODOs   *)
(* to see real results" (exercises/ch13, line 129) takes for granted.      *)
MakeRunEnds == script = "make run" => <>(run_pc = "ended")
=============================================================================
