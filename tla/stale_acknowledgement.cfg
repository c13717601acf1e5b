SPECIFICATION Spec
CONSTANT DetectedModes = {"none"}
INVARIANT RemoteAlwaysAcknowledged
CHECK_DEADLOCK FALSE
