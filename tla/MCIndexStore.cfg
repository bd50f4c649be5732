SPECIFICATION Spec
CONSTANTS
  Component <- MCComponent
  Lower <- MCLower
  Stamp = {t1}
  Searcher = {s1}
  Saver = saver
  MaxMeta = 3
  MaxCells = 8
  MaxStage = 2
  Paths <- MCPaths
  Prefixes <- MCPrefixes
INVARIANTS
  TypeOK
  ViewsInBounds
  NameLowerMatchesName
PROPERTIES
  PoolStableUnderReaders
  NoMixedFile
  ImplementsFileIndex
