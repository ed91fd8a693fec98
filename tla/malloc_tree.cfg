SPECIFICATION Spec
CONSTANTS
  Addr = {a1, a2, a3, a4, a5, a6, a7}
  NULL = NULL
  MAX_NODES = 2
  MAX_PROPS = 2
  PARSES = 2
INVARIANTS
  NoDangling
  NothingLeaked
PROPERTY ImplementsDeviceList
