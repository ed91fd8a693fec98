SPECIFICATION Spec
CONSTANTS
  N = 5
  LookupKey = {0, 1, 2, 3, 4, 5, 6, 7, 8, 9, 10, 11, 12, 13, 14}
  NUM_ENTRIES = 7
  TABLE_BUCKETS = 3
  LookupId = {0, 2, 3, 4, 9, 10, 11, 17, 18, 24, 31, 38, 44, 45, 46, 52}
  FILTER_BYTES = 2
  NUM_HASH = 2
  INSERT_COUNT = 2
  HashValue = {7, 8, 22}
  STACK_SIZE = 3
  StackValue = {0, 1, 2}
  Addr = {a1, a2, a3, a4}
  NIL = NIL
  ARENA_BYTES = 64
  SIZE = 1024
  UINT = 256
  Requests = {1, 7, 8, 9, 24, 64, 65}
  PUSH_COUNT = 3000
  Growth <- Factors
  ELEMENTS = 5
  ROWS = 3
  COLS = 4
  ARRAY_BYTES = 32
  MAX_STRIDE = 16
  LINE = 8
  INT_BYTES = 4
  TABLE_SIZE = 4
  NUM_KEYS = 12
  KEY_LEN = 11
  WIDTH = 32
  SEED <- DeadBeef
INVARIANTS
  SearchesAgree
  LookupsAgree
  NoFalseNegatives
  GrowthIsCheap
  SameWorkOtherLines
  BlocksAreSound
  NeverStuck
  MixLosesNothing
  VarianceCountsCollisions
PROPERTIES
  BothAreStacks
  SearchesEnd
