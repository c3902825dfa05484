CONSTANTS
  n1 = n1
  Names <- OneName
  Unterminated = {}
  Stray = stray
  NoName = noname
  NoFile = nofile
  Dir = dir
  HeaderSize = 2
  Wrap = 8
  BufCap = 2
  LsSizes <- LsLengths
  Spelled <- FewCodes
  Errnos = {5}
  DiskMayFill = FALSE
  LocalDisks <- SmallLocal
  RemoteDisks <- SmallRemote
SPECIFICATION FairSpec
CHECK_DEADLOCK FALSE
INVARIANTS
  TypeOK
  InSync
  PutCopies
  OneLeak
PROPERTIES
  GetCopies
  ImplementsRpc
  CommandEnds
  ChildFollows
