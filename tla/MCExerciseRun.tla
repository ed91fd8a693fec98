--------------------------- MODULE MCExerciseRun ----------------------------
(* ExerciseRun with the exercises as they are in the repository.           *)
EXTENDS ExerciseRun

AsShipped == {{"spsc", "mtq"} \X {"enqueue", "dequeue"}}
=============================================================================
