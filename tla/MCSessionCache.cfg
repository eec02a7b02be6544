\* Safety, with every fault, three processes and three calls.
SPECIFICATION Spec
CONSTANTS
  p1 = p1
  p2 = p2
  p3 = p3
  Process = {p1, p2, p3}
  NoProcess = NoProcess
  Request <- MCRequests
  Reply <- MCReplies
  Fault = {"lock", "refuse", "lose", "save", "crash", "logout"}
  MaxCalls = 3
  MaxTime = 1
SYMMETRY MCSymmetry
CHECK_DEADLOCK FALSE
INVARIANTS
  TypeOK
  LockDiscipline
  CreatesOnlyWhenUnusable
  InstallsNewer
  NoSpareSession
PROPERTIES
  ServiceSpec
