\* Two records in one backend, two agents, one drainer and the operator.
SPECIFICATION PlansSpec
CONSTANTS
  Records = {r1, r2}
  Backends = {hindsight}
  None = None
  AttemptCap = 1
  Drainers = {worker}
  Primary = hindsight
  Configured <- AllConfigured
  Upserts = {hindsight}
  StrictDelete = {hindsight}
  BatchSize = 1
  MaxAttempts = 0
  Lossy = {}
  MaxFaults = 0
  MaxAbandons = 0
  Agents = {a1, a2}
  Tokens = {t1, t2}
SYMMETRY Symmetry
CHECK_DEADLOCK FALSE
INVARIANTS
  SpentTokenDeletes
  PlansInv
PROPERTY ForgetIsAuthorized
