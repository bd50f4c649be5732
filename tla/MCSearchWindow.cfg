SPECIFICATION FairSpec
CONSTANTS
  Text <- MCText
  Short = ""
  Files = {1, 2, 3}
  Match <- MCMatch
  MaxInputs = 4
  MaxJobs = 1
  MaxChanges = 1
INVARIANTS
  TypeOK
  RowsHaveResults
PROPERTIES
  LastQueryShown
  ExecuteSearchReturns
CHECK_DEADLOCK FALSE
