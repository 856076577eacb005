SPECIFICATION Spec
CONSTANTS
  MaxNntpThreads = 2
  NumGroups = 2
  GroupLo <- Lo1
  GroupHi <- Hi2
  NotAvail <- None
  Kill <- None
  KillCut <- None
  CrossPost <- None
  BadGroups <- None
  ReadBefore <- Nothing
  Strategy = 1
  DoXref = TRUE
  DoNewGroups = FALSE
  ReadOnly = FALSE
  MaxBytes = 0
  ThroughputCheck = FALSE
  UserAbort = TRUE
  DiskFull = FALSE
  FaultKinds = {"down"}
  MaxFaults = 0
  ConnectTries = 2
  ResetAbove = 100
  ResetSlack = 4
  NotAvailMax = 3
  XhdrGap = 20
INVARIANT SavedIsDelivered
\* The session ends: in a final state of the main thread nothing moves.
CHECK_DEADLOCK FALSE
