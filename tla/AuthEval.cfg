SPECIFICATION EvalSpec
CONSTANTS
  Frames = {f1, f2}
  ShortFrames = {short}
  KEY = KEY
  NoTag = NoTag
  None = None
  COUNTER_LIMIT = 9
  MAX_ROWS = 5
INVARIANTS
  KeylessRejectedWhenLed
  OperatorUnaffectedWhenLed
CHECK_DEADLOCK FALSE
