SPECIFICATION FairSpec
CONSTANTS
  Chunks = 2
  NumMails = 3
  EmptyMails <- Empty4
  AbortInStart = FALSE
  MaxFaults = 2
  MaxAborts = 1
  MaxWriteErrors = 1
  MaxLate = 1
  MaxRuns = 2
INVARIANTS TypeOK MailNotLost OneCopyPerFault CompleteOnSuccess FramesWhole
PROPERTIES FinishedStay Termination
\* The session ends: after the last run nothing moves.
CHECK_DEADLOCK FALSE
