SPECIFICATION FairSpec
CONSTANTS
  Char <- MCChar
  Lower <- MCLower
  Sep = {"-", "_"}
  WordChar = {"a", "A", "_"}
  Width = 2
  Texts <- MCTexts
  Queries <- MCQueries
INVARIANTS
  TypeOK
  ReadsInside
  FindsFirstOccurrence
  TokenSetRule
PROPERTY
  TestEnds
