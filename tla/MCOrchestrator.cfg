SPECIFICATION Spec
CONSTANTS
  NumStages = 3
  AlwaysRun <- MCAlwaysRun
  ReportStage = 3
  RowWriters <- MCRowWriters
INVARIANTS
  TypeOK
  CompleteMeansLanded
  AbandonedNeverLands
  FinishedHasNoPending
  CompleteRanAlwaysRun
PROPERTIES
  StagesSerial
  ImplementsRunRecord
  OnlyRowHoldersHang
CHECK_DEADLOCK FALSE
