SPECIFICATION Spec
CONSTANTS
  SeqMod = 4
  SWS = 2
  RWS = 2
  MaxMessages = 3
  Lengths = {4, 5, 9, 12}
  FRAME_PAYLOAD_SIZE = 4
INVARIANTS
  TypeOK
  InOrderArrival
  WindowRespected
  UnackedFramesKept
  FramesInTransit
  NumberingSound
PROPERTIES
  MessagesDelivered
  WindowReopens
