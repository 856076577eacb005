CONSTANTS
  m1 = m1
  m2 = m2
  m3 = m3
  a1 = a1
  a2 = a2
  o1 = o1
  Mails <- MCMails
  Articles <- MCArticles
  Others <- MCOthers
  Recipients <- MCRecipients
  Unterminated <- MCBare
  MaxSuffix = 1
  MaxFaults = 2
  MaxCopies = 5
  Queued <- MCQueued
  Packets0 <- MCPackets
  Overlap = FALSE
SPECIFICATION FairSpec
CHECK_DEADLOCK FALSE
INVARIANT TypeOK
INVARIANT NoReplyLost
INVARIANT CopiesBounded
INVARIANT EnvelopeWhole
INVARIANT KindsApart
PROPERTY ImplementsQueue
PROPERTY EventuallySent
