\* Two configurations on one database; calls fail, lose their answers, and one drainer dies or
\* outlives its router.
SPECIFICATION FairSessionSpec
CONSTANTS
  Records = {x1}
  Backends = {hindsight}
  None = None
  AttemptCap = 1
  Routers = {gateway, tests}
  IdentityOf <- OwnIdentities
  Drainers <- Threads
  Primary = hindsight
  Configured <- AllConfigured
  Upserts = {hindsight}
  StrictDelete = {}
  BatchSize = 1
  MaxAttempts = 0
  Lossy = {hindsight}
  MaxFaults = 1
  MaxAbandons = 1
  FlushRounds = 2
  MaxCallers = 1
CHECK_DEADLOCK FALSE
INVARIANTS
  SessionTypeOK
  NoLostWakeup
  OneIdentity
  CleanCloseStrandsNothing
PROPERTIES
  SettlesHealthy
