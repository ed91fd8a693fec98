SPECIFICATION FairSpec
CONSTANTS
  CAP = 4
  MSG_COUNT = 9
  RUNS = 2
INVARIANTS
  NoDataRace
  QuietWhenReset
PROPERTIES
  ImplementsFIFO
  Termination
