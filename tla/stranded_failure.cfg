\* A forget meets a running write, and the write fails.
SPECIFICATION Spec
CONSTANTS
  Records = {r1}
  Backends = {hindsight, mnemosyne}
  None = None
  AttemptCap = 4
  Drainers = {worker, cli}
  Primary = hindsight
  Configured <- AllConfigured
  Upserts = {hindsight}
  StrictDelete = {hindsight}
  BatchSize = 2
  MaxAttempts = 0
  Lossy = {}
  MaxFaults = 1
  MaxAbandons = 0
SYMMETRY DrainerSymmetry
CHECK_DEADLOCK FALSE
INVARIANT FailedIsRetried
