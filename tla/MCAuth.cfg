\* Three commands, two at a time, failing saves and crashes.
SPECIFICATION Spec
CONSTANTS
  p1 = p1
  p2 = p2
  Process = {p1, p2}
  Grant <- MCGrants
  Device <- MCDevices
  Buffer = 1
  Fault = {"save", "crash"}
  MaxCalls = 3
  MaxTime = 4
SYMMETRY MCSymmetry
CHECK_DEADLOCK FALSE
INVARIANTS
  TypeOK
  AloneStoredIsCurrent
  PollingSlowsDown
PROPERTIES
  GivenIsValid
