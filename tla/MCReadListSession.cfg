SPECIFICATION Spec
CONSTANTS
  ResetAbove = 4
  ResetSlack = 2
  MaxArt = 7
  Lines <- SortedLines
INVARIANT ListIsSet
INVARIANT QueriesAreSet
INVARIANT RoundTrip
