SPECIFICATION Spec
CONSTANTS
  Conns = {c1, c2}
  NoPump = NoPump
  Requests <- ShortFrame
  Replies <- ShortFrame
  HEADER = 1
  LENGTH_AT = 1
  MIN_LENGTH = 2
  MAX_LENGTH = 2
  CHUNK = 2
  MAX_BYTES = 2
  Faults = {}
INVARIANT FileOrderIsWireOrder
CHECK_DEADLOCK FALSE
