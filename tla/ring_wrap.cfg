SPECIFICATION Spec
CONSTANTS
  CAP = 4
  MOD = 16
  Value = {v1, v2}
  NoValue = NoValue
INVARIANTS
  CountsAreExact
PROPERTY ImplementsFIFO
