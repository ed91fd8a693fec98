SPECIFICATION Spec
CONSTANTS
  ARENA_BYTES = 65536
  SIZE = 16777216
  UINT = 1048576
  Requests = {48, 72}
  NodeCounts = {3, 256}
  MAX_PROPS = 16
  NODE_BYTES = 48
  PROP_BYTES = 72
  PARSES = 2
INVARIANTS
  Consecutive
  AsManyAsPossible
PROPERTY ImplementsDeviceList
