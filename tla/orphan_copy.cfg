\* A write that succeeds and is reported as an error, then a forget.
SPECIFICATION Spec
CONSTANTS
  Records = {r1}
  Backends = {hindsight, mnemosyne}
  None = None
  AttemptCap = 4
  Drainers = {worker, cli}
  Primary = hindsight
  Configured <- AllConfigured
  Upserts = {hindsight}
  StrictDelete = {hindsight}
  BatchSize = 2
  MaxAttempts = 2
  Lossy = {hindsight}
  MaxFaults = 2
  MaxAbandons = 1
SYMMETRY DrainerSymmetry
CHECK_DEADLOCK FALSE
INVARIANT DeleteIsComplete
