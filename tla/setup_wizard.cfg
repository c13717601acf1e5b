SPECIFICATION Spec
CONSTANT DetectedModes = {"none", "local_external", "cloud", "managed_local"}
INVARIANTS
  TypeOK
  AppliedAsAcknowledged
  RemoteIsAcknowledged
CHECK_DEADLOCK FALSE
