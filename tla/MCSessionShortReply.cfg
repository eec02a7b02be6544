\* One request for two nodes, a proxy that has one node to give, no fault.
SPECIFICATION Spec
CONSTANTS
  p1 = p1
  p2 = p2
  p3 = p3
  Process = {p1, p2}
  NoProcess = NoProcess
  Request <- MCOneRequest
  Reply <- MCShortReplies
  Fault = {}
  MaxCalls = 3
  MaxTime = 1
CHECK_DEADLOCK FALSE
PROPERTIES
  NoTwinSession
