SPECIFICATION TSpec
CONSTANTS
  SeqMod = 6
  SWS = 2
  RWS = 2
  MaxMessages = 3
  Lengths = {0, 5, 15}
  FRAME_PAYLOAD_SIZE = 4
INVARIANTS
  TTypeOK
  OneMessageAltered
  EndsWithTheLap
  OvertakingStalls
PROPERTIES
  AllPrintedWhileOrderly
