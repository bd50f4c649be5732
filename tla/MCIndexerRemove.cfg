SPECIFICATION Spec
CONSTANTS
  c = c
  d = d
  f = f
  g = g
  h = h
  l = l
  Root = {c, d}
  File = {f, h}
  Folder = {}
  Below <- MCBelow
  Late = {}
  Under <- MCUnder
  Fixed = {c, d}
  NoFile = NoFile
  NoRoot = NoRoot
  Selections <- MCAny
  Excluded = {}
  Calm = FALSE
  MaxChanges = 1
  MaxOps = 1
  MaxLost = 0
PROPERTY
  RemovePathsRemovesAll
