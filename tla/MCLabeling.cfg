SPECIFICATION Spec
CONSTANTS
  Bytes <- MCBytes
  Garbled = "cut"
  BasicPlan <- MCBasicPlan
  HarderPlan <- MCHarderPlan
  HmiPort = 1
  StrangerPort = 9
  OwnPort <- MCOwnPort
  MAX_ROWS = 3
INVARIANTS
  ExitZeroMeansTrueLabels
  ExitZeroMeansAllCaptured
  EveryPacketIsAccountedFor
  LossCostsNoOtherLabel
CHECK_DEADLOCK FALSE
