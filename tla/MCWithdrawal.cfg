SPECIFICATION WSpec
CONSTANTS
  SeqMod = 4
  SWS = 2
  RWS = 2
  MaxMessages = 2
  Lengths = {0, 5, 7}
  FRAME_PAYLOAD_SIZE = 4
  MaxChanges = 3
CHECK_DEADLOCK FALSE
INVARIANTS
  WTypeOK
  PrintsEndInSomethingNew
PROPERTIES
  DropsReported
  EmptySlotOnlyALapAhead
