\* Two users of one client id that log in and out, commands without a token for
\* another, two processes, two calls, every fault but that of the lock.
SPECIFICATION ClientSpec
CONSTANTS
  p1 = p1
  p2 = p2
  alice = alice
  bob = bob
  app1 = app1
  app2 = app2
  Process = {p1, p2}
  NoProcess = NoProcess
  Token <- MCTokens
  NoToken = NoToken
  FlagClient = {app2}
  NoUser = NoUser
  Request <- MCRequests
  Reply <- MCReplies
  Fault = {"refuse", "lose", "save", "crash", "logout"}
  MaxCalls = 2
  MaxTime = 1
  MaxLogins = 2
CHECK_DEADLOCK FALSE
INVARIANTS
  OwnClientSession
  LogoutForgets
PROPERTIES
  EveryCallReturns
