SPECIFICATION Spec
CONSTANTS
  c = c
  d = d
  f = f
  g = g
  h = h
  l = l
  Root = {c}
  File = {f, g}
  Folder = {g}
  Below <- MCBelow
  Late = {}
  Under <- MCUnder
  Fixed = {c}
  NoFile = NoFile
  NoRoot = NoRoot
  Selections <- MCOne
  Excluded = {}
  Calm = TRUE
  MaxChanges = 1
  MaxOps = 0
  MaxLost = 0
INVARIANT
  FoldersAreFollowed
