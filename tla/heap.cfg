SPECIFICATION Spec
CONSTANTS
  Arity = {2, 4}
  CAP = 7
  Value = {0, 1, 2}
  INT_MIN = 0
INVARIANTS
  MinAtRoot
PROPERTY ImplementsQueue
