SPECIFICATION FairSpec
CONSTANTS
  c = c
  d = d
  f = f
  g = g
  h = h
  l = l
  Root = {c, d}
  File = {f, g, h}
  Folder = {g}
  Below <- MCBelow
  Late = {}
  Under <- MCUnder
  Fixed = {c, d}
  NoFile = NoFile
  NoRoot = NoRoot
  Selections <- MCAny
  Excluded = {}
  Calm = TRUE
  MaxChanges = 2
  MaxOps = 1
  MaxLost = 1
INVARIANTS
  SettledIndexIsExact
PROPERTIES
  IndexCatchesUp
  JobsComplete
  DestructionReturns
