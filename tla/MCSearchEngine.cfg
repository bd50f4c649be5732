SPECIFICATION FairSpec
CONSTANTS
  EntryCounts = {0, 1, 2, 4, 5}
  NumThreads = 3
  MaxResults = 2
INVARIANTS
  TypeOK
  ResultsAreOrderedHits
  NoHitLost
  BoundedOvershoot
PROPERTY
  SearchReturns
