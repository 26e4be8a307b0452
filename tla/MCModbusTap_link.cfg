SPECIFICATION FairSpec
CONSTANTS
  Conns = {c1}
  NoPump = NoPump
  Requests <- ShortFrame
  Replies <- ShortFrame
  HEADER = 1
  LENGTH_AT = 1
  MIN_LENGTH = 2
  MAX_LENGTH = 2
  CHUNK = 4
  MAX_BYTES = 4
  Faults = {"client", "plc", "unreachable", "interrupt", "kill"}
INVARIANTS
  FramesSurviveSegmentation
PROPERTIES
  LinkSpec
  LastReplyIsCaptured
  HandlerEnds
CHECK_DEADLOCK FALSE
