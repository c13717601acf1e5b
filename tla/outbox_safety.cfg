\* One record for both backends, two drainers, calls that fail, calls to Hindsight that take
\* effect and are reported as errors, and drainers that die.
SPECIFICATION Spec
CONSTANTS
  Records = {r1}
  Backends = {hindsight, mnemosyne}
  None = None
  AttemptCap = 4
  Drainers = {worker, cli}
  Primary = hindsight
  Configured <- AllConfigured
  Upserts = {hindsight}
  StrictDelete = {hindsight}
  BatchSize = 2
  MaxAttempts = 2
  Lossy = {hindsight}
  MaxFaults = 2
  MaxAbandons = 1
SYMMETRY DrainerSymmetry
CHECK_DEADLOCK FALSE
INVARIANTS
  TypeOK
  SingleOwner
  DeliveryInv
  ForgottenCopyIsTracked
  ConfirmedMeansGone
PROPERTIES
  FinalStaysFinal
  ImplementsLedger
