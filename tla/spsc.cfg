SPECIFICATION ConsumerFairSpec
CONSTANTS
  CAP = 4
  MSG_COUNT = 9
  RUNS = 2
INVARIANTS
  NoDataRace
  QueueIntact
  ChecksStayTrue
  RunDelivers
PROPERTIES
  ImplementsFIFO
  TerminatesIfFair
  DrainsWithoutProducer
