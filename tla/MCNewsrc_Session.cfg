SPECIFICATION Spec
CONSTANTS
  a = a
  b = b
  c = c
  NoName = NoName
  w1 = w1
  w2 = w2
  Worker = {w1, w2}
  Name = {a, b, c}
  OldNewsrc <- OneGroup
  GroupLo <- LoOf
  GroupHi <- HiOf
  Marks = {2, 5}
  NewNames = {b}
  Sendme = {c}
  Modes = {"RECEIVE", "CATCHUP"}
  CatchupKeep = {0, 2, 9}
  UserAbort = TRUE
  InterruptWrite = FALSE
  ResetAbove = 3
  ResetSlack = 1
INVARIANT TypeOK
INVARIANT MarksSaved
INVARIANT OneWhole
PROPERTY ImplementsSets
SYMMETRY WorkerSymmetry
\* The program ends: nothing moves once writeFile() has returned.
CHECK_DEADLOCK FALSE
