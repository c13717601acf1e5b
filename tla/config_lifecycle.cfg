SPECIFICATION Spec
CONSTANTS
  Homes <- MCHomes
  MaxChanges = 2
  MaxRollbacks = 2
  MaxEdits = 1
  MaxCrashes = 1
  MaxErrors = 1
INVARIANTS
  TypeOK
  FailureLeavesNoTrace
  BackupIsPreChange
  RollbackRestores
  ActivatedAlone
  ForeignEntriesSurvive
CHECK_DEADLOCK FALSE
