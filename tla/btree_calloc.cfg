SPECIFICATION FairSpec
CONSTANTS
  ORDER = 4
  Key = {1, 2, 3}
  MAX_INSERTS = 10
INVARIANT FailureIsReported
