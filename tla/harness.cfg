SPECIFICATION HarnessSpec
CONSTANTS
  WARMUP = 1
  ITERATIONS = 2
  WORD = 4
  NSEC = 5
  ITERS = 3
  CACHE_LINE = 64
  Base = {0, 8, 16, 24, 32, 40, 48, 56}
  INNER_OPS = 3
  LIST_NODES = 3
  Addr = {a1, a2, a3, a4}
  NULL = NULL
  INTERRUPTS = 1
  Todos <- AnyStubs
  MSG_COUNT = 3
  QUEUE_CAP = 2
INVARIANTS
  NoFalseSharing
  SamplesAreWhole
  StopsAtFirstFailure
PROPERTY ExercisesEnd
