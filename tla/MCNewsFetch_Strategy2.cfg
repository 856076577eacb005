SPECIFICATION Spec
CONSTANTS
  MaxNntpThreads = 3
  NumGroups = 2
  GroupLo <- Lo1
  GroupHi <- Hi3
  NotAvail <- None
  Kill <- None
  KillCut <- None
  CrossPost <- None
  BadGroups <- None
  ReadBefore <- Nothing
  Strategy = 2
  DoXref = FALSE
  DoNewGroups = FALSE
  ReadOnly = FALSE
  MaxBytes = 0
  ThroughputCheck = FALSE
  UserAbort = FALSE
  DiskFull = FALSE
  FaultKinds = {"down"}
  MaxFaults = 0
  ConnectTries = 2
  ResetAbove = 100
  ResetSlack = 4
  NotAvailMax = 3
  XhdrGap = 20
INVARIANT NoDuplicateFetch
INVARIANT OneTransition
INVARIANT LeftAtEnd
\* The session ends: in a final state of the main thread nothing moves.
CHECK_DEADLOCK FALSE
