SPECIFICATION Spec
CONSTANTS
  Text <- MCText
  Short = ""
  Files = {1, 2, 3}
  Match <- MCMatch
  MaxInputs = 4
  MaxJobs = 0
  MaxChanges = 0
PROPERTY
  DeletesWhatWasAsked
CHECK_DEADLOCK FALSE
