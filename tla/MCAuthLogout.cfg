\* A command that refreshes while the user logs out.
SPECIFICATION Spec
CONSTANTS
  p1 = p1
  p2 = p2
  Process = {p1, p2}
  Grant <- MCGrants
  Device <- MCDevices
  Buffer = 1
  Fault = {}
  MaxCalls = 2
  MaxTime = 3
SYMMETRY MCSymmetry
CHECK_DEADLOCK FALSE
INVARIANTS
  LogoutHolds
