\* One router with both backends after another; a process is killed in the middle of a call.
SPECIFICATION SessionSpec
CONSTANTS
  Records = {x1}
  Backends = {hindsight, mnemosyne}
  None = None
  AttemptCap = 1
  Routers = {gateway, restarted}
  IdentityOf <- SameIdentity
  Drainers <- Threads
  Primary = hindsight
  Configured <- AllConfigured
  Upserts = {hindsight}
  StrictDelete = {}
  BatchSize = 1
  MaxAttempts = 0
  Lossy = {}
  MaxFaults = 0
  MaxAbandons = 1
  FlushRounds = 2
  MaxCallers = 1
CHECK_DEADLOCK FALSE
INVARIANT HealthyMeansNoWorkLeft
