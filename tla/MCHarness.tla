----------------------------- MODULE MCHarness ------------------------------
(* The programs of chapters 2 and 3 under BENCH_RUN, and the scripts that  *)
(* run the exercises: a behaviour runs one of the three.                   *)
EXTENDS FalseSharing, Microbenchmark, ExerciseRun

VARIABLE program

harnessVars == <<program, sharingVars, microVars, runVars>>

AnyStubs == SUBSET ({"spsc", "mtq"} \X {"enqueue", "dequeue"})

HarnessInit ==
  /\ program \in {"ch02", "ch03", "scripts"}
  /\ SharingInit /\ MicroInit /\ RunInit
  /\ program # "ch02" => base = 0
  /\ program = "ch02" => (arch = "x86_64" \/ base = 8)
  /\ program = "scripts" => arch = "x86_64"
  /\ program # "scripts" => script = "make run" /\ todo = {}

Exited ==
  CASE program = "ch02"    -> SharingDone
    [] program = "ch03"    -> MicroDone
    [] program = "scripts" -> run_pc = "ended"

HarnessNext ==
  \/ /\ program = "ch02" /\ SharingNext
     /\ UNCHANGED <<program, workload, listVars, bodyVars, interrupts, runVars>>
  \/ program = "ch03" /\ MicroNext /\ UNCHANGED <<program, ownVars, runVars>>
  \/ program = "scripts" /\ RunNext /\ UNCHANGED <<program, sharingVars, microVars>>
  \/ Exited /\ UNCHANGED harnessVars

HarnessSpec ==
  /\ HarnessInit /\ [][HarnessNext]_harnessVars
  /\ WF_harnessVars(program = "scripts" /\ HarnessNext)

(* What BENCH_RUN of benchmark.h (lines 85-100) promises, in the programs  *)
(* of chapters 2 and 3: every sample is the cost of one whole body.        *)
SamplesAreWhole ==
  /\ program = "ch02" => MeasuredWhole
  /\ program = "ch03" => WorkloadsMeasured

(* The scripts run all exercises once ch13 is implemented (Makefile lines  *)
(* 37-40, run.sh lines 23-27).                                             *)
ExercisesEnd == program = "scripts" => ScriptsEnd
=============================================================================
