SPECIFICATION Spec
CONSTANTS
  a1 = a1
  a2 = a2
  a3 = a3
  a4 = a4
  t1 = t1
  t2 = t2
  Threads = {t1, t2}
  Groups = {"rescue", "strict", "plain"}
  Articles = {a1, a2, a3, a4}
  GroupOf <- MCGroupOf
  Header <- MCHeader
  Sections <- MCSections
  Threshold = 0
  NoGroup = NoGroup
  Fifo = 2
  Protected = {2}
  NoArea = NoArea
  NoWriter = NoWriter
  NoArticle = NoArticle
  MaxBreaks = 1
  UserAbort = TRUE
  AbortInStart = FALSE
INVARIANT TypeOK
INVARIANT KillsAreDue
INVARIANT Filed
INVARIANT Apart
SYMMETRY ThreadSymmetry
\* The program ends.
CHECK_DEADLOCK FALSE
