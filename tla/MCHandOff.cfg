SPECIFICATION Spec
CONSTANTS
  Pushers = {sendThread, host}
  Consumer = consumer
  Signals = {sendThread}
  MaxBatch = 2
  MaxItems = 3
  sendThread = sendThread
  host = host
  consumer = consumer
CHECK_DEADLOCK FALSE
INVARIANTS
  TypeOK
  SectionsOverlap
PROPERTIES
  ImplementsBatchQueue
  PushedIsTaken
  EverybodyGetsIn
