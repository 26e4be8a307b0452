SPECIFICATION Spec
CONSTANTS
  None = None
  Conns = {c1, c2}
  Frames <- MCFrames
  FIRST_TXID = 7
  TOL = 1
  MAX_TICK = 2
  MAX_REQUESTS = 3
INVARIANTS
  ConnectionFeaturesAreOnline
  ValueFeaturesAreOnline
  AlertsComeBack
CHECK_DEADLOCK FALSE
SYMMETRY ConnsAlike
