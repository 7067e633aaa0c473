CONSTANTS
  BytesPerSec = 4
  SecPerClus = 2
  RootDirSecs = 1
  TotalClusters = 4
  Files <- MCFiles
  Dirs = {}
  NumFcb = 1
  Lengths = {2}
  Places = {3}
  MaxSize = 6
CHECK_DEADLOCK FALSE
SPECIFICATION FatSpec
INVARIANT ReadBack
