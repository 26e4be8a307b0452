SPECIFICATION Spec
CONSTANTS
  None = None
  Views = {base, ctx}
  Scores = {0, 1, 2}
  NUM = 1
  DEN = 3
  MAX_ROWS = 3
  MAX_TEST = 2
  MAX_RUNS = 2
INVARIANTS
  FalseAlarmBudget
  BestF1IsBest
  AttackTypesApart
  EveryScoredRequestGradedOnce
  MissedIffNeverFlagged
CHECK_DEADLOCK FALSE
