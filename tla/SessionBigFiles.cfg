CONSTANTS
  n1 = n1
  Names <- OneName
  Unterminated <- OneName
  Stray = stray
  NoName = noname
  NoFile = nofile
  Dir = dir
  HeaderSize = 1
  Wrap = 2
  BufCap = 1
  LsSizes <- LsOne
  Spelled <- FewCodes
  Errnos = {1}
  DiskMayFill = TRUE
  LocalDisks <- BigLocal
  RemoteDisks <- BigRemote
SPECIFICATION Spec
CHECK_DEADLOCK FALSE
INVARIANTS
  InSync
