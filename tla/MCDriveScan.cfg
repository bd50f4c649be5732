SPECIFICATION FairSpec
CONSTANTS
  Name = {R, dirD, dirE}
  Sep = Sep
  Drive = R
  Gone = Gone
  dirD = dirD
  dirE = dirE
  linkJ = linkJ
  dirK = dirK
  fileF = fileF
  fileG = fileG
  Dirs = {dirD, dirE, linkJ, dirK}
  Files = {fileF, fileG}
  Reparse = {linkJ}
  Target <- MCTarget
  Layout <- MCLayout
  MayMove <- MCMayMove
  MaxMoves = 2
  PathLimit = 3
  Denied = {dirK}
  FrnOrders <- MCFrnOrders
  BufferLimit = 5
  OptionKeys <- MCOptionKeys
  DefaultInterval = 48
  Intervals = {48}
  FixedDrives <- MCFixedDrives
  Folders <- MCFolders
  DefaultExcludedPaths <- MCDefaultExcludedPaths
  NTFS = TRUE
  MaxUses = 4
  MaxScanUses = 2
INVARIANTS
  TypeOK
  UntouchedFilesCollectedOnce
  SettingsSurvive
PROPERTIES
  ScanEnds
CHECK_DEADLOCK FALSE
