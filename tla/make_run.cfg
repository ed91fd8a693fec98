SPECIFICATION RunSpec
CONSTANTS
  Todos <- AsShipped
  MSG_COUNT = 3
  QUEUE_CAP = 2
PROPERTY MakeRunEnds
