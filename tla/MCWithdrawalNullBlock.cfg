SPECIFICATION WSpec
CONSTANTS
  SeqMod = 8
  SWS = 2
  RWS = 2
  MaxMessages = 3
  Lengths = {0, 5}
  FRAME_PAYLOAD_SIZE = 4
  MaxChanges = 3
CHECK_DEADLOCK FALSE
INVARIANTS
  AcksHaveABlock
