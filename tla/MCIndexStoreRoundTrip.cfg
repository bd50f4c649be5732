SPECIFICATION Spec
CONSTANTS
  Component <- MCComponent
  Lower <- MCLower
  Stamp = {t1}
  Searcher = {}
  Saver = saver
  MaxMeta = 2
  MaxCells = 6
  MaxStage = 2
  Paths <- MCPaths
  Prefixes <- MCPrefixes
PROPERTY
  SaveKeepsLiveEntries
