SPECIFICATION Spec
CONSTANTS
  hmi = hmi
  x1 = x1
  operator = operator
  attacker = attacker
  None = None
  Connections = {hmi, x1}
  Masters = {hmi}
  Host <- MCHost
  Routine <- MCRoutine
  Commands <- MCCommands
  TXIDS = 2
  MAX_SENT = 3
INVARIANTS
  MastersNotFlagged
  ResendIsFlagged
  ZeekAgrees
