SPECIFICATION Spec
CONSTANTS
  Homes <- MCHomes
  MaxChanges = 2
  MaxRollbacks = 0
  MaxEdits = 0
  MaxCrashes = 0
  MaxErrors = 0
INVARIANT RefusedOnlyForForeign
CHECK_DEADLOCK FALSE
