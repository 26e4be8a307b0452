SPECIFICATION Spec
CONSTANTS
  Conns = {c1}
  NoPump = NoPump
  Requests <- AnyRequests
  Replies <- OneReply
  HEADER = 2
  LENGTH_AT = 2
  MIN_LENGTH = 2
  MAX_LENGTH = 2
  CHUNK = 3
  MAX_BYTES = 5
  Faults = {"client", "plc", "unreachable", "interrupt", "kill"}
INVARIANTS
  TypeOK
  RecordedBeforeForwarded
  RowsInStreamOrder
  NothingReceivedIsLost
  AtMostOneRowAtRisk
  ReplyRowAfterRequestRow
CHECK_DEADLOCK FALSE
