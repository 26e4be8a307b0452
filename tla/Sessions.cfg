SPECIFICATION Spec
CONSTANTS
  RUNS = 1
  MAX_COMMANDS = 3
  MAX_SESSIONS = 4
  MAX_FAULTS = 1
INVARIANTS
  MultiRunScoresTrueSessions
  ThreeSessions
  FinishedSessionsSurvive
  TuningManifestBelongs
PROPERTIES
  NothingLeftRunning
CHECK_DEADLOCK FALSE
