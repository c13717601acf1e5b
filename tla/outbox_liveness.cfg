\* Delivery and erasure under fairness: no drainer dies, and calls to one of the backends
\* may take effect and be reported as errors.
SPECIFICATION FairSpec
CONSTANTS
  Records = {r1}
  Backends = {hindsight, mnemosyne}
  None = None
  AttemptCap = 4
  Drainers = {worker, cli}
  Primary = hindsight
  Configured <- AllConfigured
  Upserts = {hindsight}
  StrictDelete = {hindsight}
  BatchSize = 1
  MaxAttempts = 0
  Lossy = {mnemosyne}
  MaxFaults = 2
  MaxAbandons = 0
CHECK_DEADLOCK FALSE
PROPERTIES
  LiveIsDelivered
  ForgottenIsErased
