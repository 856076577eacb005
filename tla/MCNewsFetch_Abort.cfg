SPECIFICATION FairSpec
CONSTANTS
  MaxNntpThreads = 2
  NumGroups = 2
  GroupLo <- Lo1
  GroupHi <- Hi3
  NotAvail <- None
  Kill <- None
  KillCut <- KillOne
  CrossPost <- Crossposted
  BadGroups <- Bad2
  ReadBefore <- Nothing
  Strategy = 1
  DoXref = TRUE
  DoNewGroups = FALSE
  ReadOnly = FALSE
  MaxBytes = 2
  ThroughputCheck = TRUE
  UserAbort = TRUE
  DiskFull = FALSE
  FaultKinds = {"down", "stuck"}
  MaxFaults = 1
  ConnectTries = 2
  ResetAbove = 100
  ResetSlack = 4
  NotAvailMax = 3
  XhdrGap = 20
INVARIANT AbortLossBounded
PROPERTY Termination
\* The session ends: in a final state of the main thread nothing moves.
CHECK_DEADLOCK FALSE
