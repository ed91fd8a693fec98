SPECIFICATION ArenaSpec
CONSTANTS
  ARENA_BYTES = 32
  SIZE = 256
  UINT = 64
  Requests <- AllSizes
PROPERTY ExcessIsRefused
