SPECIFICATION Spec
CONSTANTS
  MaxNntpThreads = 2
  NumGroups = 2
  GroupLo <- Lo1
  GroupHi <- Hi2
  NotAvail <- None
  Kill <- KillOne
  KillCut <- KillOne
  CrossPost <- None
  BadGroups <- None
  ReadBefore <- Nothing
  Strategy = 1
  DoXref = FALSE
  DoNewGroups = TRUE
  ReadOnly = FALSE
  MaxBytes = 0
  ThroughputCheck = FALSE
  UserAbort = FALSE
  DiskFull = FALSE
  FaultKinds = {"down", "stuck"}
  MaxFaults = 2
  ConnectTries = 2
  ResetAbove = 100
  ResetSlack = 4
  NotAvailMax = 3
  XhdrGap = 0
INVARIANT SlotExclusive
INVARIANT SavedIsDelivered
PROPERTY FailedStaysFailed
\* The session ends: in a final state of the main thread nothing moves.
CHECK_DEADLOCK FALSE
