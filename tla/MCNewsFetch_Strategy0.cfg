SPECIFICATION FairSpec
CONSTANTS
  MaxNntpThreads = 2
  NumGroups = 2
  GroupLo <- Lo1
  GroupHi <- HiHoles
  NotAvail <- Holes
  Kill <- KillOne
  KillCut <- KillOne
  CrossPost <- CrosspostedHoles
  BadGroups <- None
  ReadBefore <- SomeRead
  Strategy = 0
  DoXref = TRUE
  DoNewGroups = TRUE
  ReadOnly = FALSE
  MaxBytes = 0
  ThroughputCheck = FALSE
  UserAbort = FALSE
  DiskFull = FALSE
  FaultKinds = {"down"}
  MaxFaults = 0
  ConnectTries = 2
  ResetAbove = 5
  ResetSlack = 1
  NotAvailMax = 2
  XhdrGap = 2
INVARIANT TypeOK
INVARIANT OneGroupAtATime
INVARIANT ReadIsDelivered
INVARIANT CompleteAtEnd
INVARIANT QuietAtDisconnect
\* The session ends: in a final state of the main thread nothing moves.
CHECK_DEADLOCK FALSE
