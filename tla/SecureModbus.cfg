SPECIFICATION Spec
CONSTANTS
  Signers = {operator, other}
  Frames = {f1, f2}
  ShortFrames = {short}
  KEY = KEY
  NoTag = NoTag
  COUNTER_LIMIT = 4
INVARIANTS
  WindowIsLastAccepted
  SomeSignerNotLockedOut
PROPERTIES
  DeliverySpec
CHECK_DEADLOCK FALSE
