SPECIFICATION FairSpec
CONSTANTS
  f1 = f1
  f2 = f2
  r1 = r1
  r2 = r2
  File = {f1, f2}
  Root = {r1, r2}
  FirstRoot = r2
  RootOf <- RootOfFile
  Episode = {f1}
  Drive = {r1}
  MountLike = {"there", "gone"}
  Blockable = {f1}
  Moves = 3
INVARIANTS TypeOK NoHiddenEpisode
PROPERTIES OnlyUnlistedGo CancelMarksNothing NothingAfterFinished ComesToMatch
CHECK_DEADLOCK FALSE
