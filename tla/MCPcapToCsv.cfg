SPECIFICATION Spec
CONSTANTS
  HEADER = 1
  LENGTH_AT = 1
  MIN_LENGTH = 2
  MAX_LENGTH = 3
  Clients = {c1, c2}
  Foreign = Foreign
  SEQS = 16
  CLIENT_SEQ = 1
  PLC_SEQ = 5
  Content <- MCContent
  FirstSeqs = {1, 13}
  RowFiles <- MCRowFiles
  MAX_PACKETS = 4
  MAX_ROWS = 3
INVARIANTS
  ToolsAcceptIt
  NoByteTwice
  LossIsCounted
  FramesDespiteSegmentation
  RoundTrip
CHECK_DEADLOCK FALSE
