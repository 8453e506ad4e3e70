SPECIFICATION FairSpec
CONSTANTS
  File = {exe, dll}
  Exe = exe
  Latest = 3
  Ships <- MCShips
  Download = {d1, d2}
  Moves = 2
INVARIANTS TypeOK WholeRelease
PROPERTIES NeverDowngrades UpdatesAtLast
CHECK_DEADLOCK FALSE
