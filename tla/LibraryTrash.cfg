SPECIFICATION Spec
CONSTANTS
  f1 = f1
  f2 = f2
  r1 = r1
  r2 = r2
  File = {f1, f2}
  Root = {r1, r2}
  FirstRoot = r2
  RootOf <- RootOfFile
  Episode = {}
  Drive = {r1}
  MountLike = {"there", "blank"}
  Blockable = {}
  Moves = 2
PROPERTIES UnmountedKeepsRows
CHECK_DEADLOCK FALSE
