\* SoftTimeLimitExceeded raised outside done.wait leaves the stage unabandoned.
SPECIFICATION Spec
CONSTANTS
  NumStages = 3
  AlwaysRun <- MCAlwaysRun
  ReportStage = 3
  RowWriters = {}
PROPERTIES
  LateWritesNeverLand
CHECK_DEADLOCK FALSE
