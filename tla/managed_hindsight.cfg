\* Two homes of one user, with setups and removals that fail, and restarts.
SPECIFICATION Spec
CONSTANTS
  Homes = {work, private}
  Foreign = foreign
  None = None
  MaxSettings = 3
CHECK_DEADLOCK FALSE
INVARIANTS
  TypeOK
  UnitIsComplete
  ServesWrittenSettings
