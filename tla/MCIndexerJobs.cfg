SPECIFICATION Spec
CONSTANTS
  c = c
  d = d
  f = f
  g = g
  h = h
  l = l
  Root = {c, d}
  File = {f, h}
  Folder = {}
  Below <- MCBelow
  Late = {l}
  Under <- MCUnder
  Fixed = {c, d}
  NoFile = NoFile
  NoRoot = NoRoot
  Selections <- MCAny
  Excluded = {h}
  Calm = FALSE
  MaxChanges = 1
  MaxOps = 3
  MaxLost = 0
INVARIANTS
  TypeOK
  OneWatcherPerRoot
  UntouchedFilesIndexedOnce
  SearchBarEnabled
  
  OnlyLateThreadsRunOn
