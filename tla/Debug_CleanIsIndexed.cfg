SPECIFICATION DSpec
CONSTANTS
  N = 1
  yaml = yaml
  marker = marker
  LogFile = LogFile
  ErrLogFile = ErrLogFile
  Files <- MCFiles
  Markers <- MCMarkers
  Copied <- None
  Guarded <- None
  Stuck <- None
INVARIANTS
  CleanIsIndexed
