SPECIFICATION FairSpec
CONSTANTS
  a = a  b = b  t = t  x = x
  Shards <- MCShards
  HeadShard = a
  Fp8Shards <- MCFp8Shards
  TableShards <- MCTableShards
  Extra = x
  MaxCrashes = 3
  Home <- MCHome
  Modules <- MCModules
  Packed <- MCPacked
  Spelled <- MCSpelled
  CrashAt <- AnyPosition
INVARIANTS
  ServedAsStored
  OriginalKept
  NeverTwice
  IndexBehind
  DoneIsServable
PROPERTIES
  NeverUndone
  ResumesWhenWhole
CHECK_DEADLOCK FALSE
