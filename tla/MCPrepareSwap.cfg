SPECIFICATION FairSpec
CONSTANTS
  a = a  b = b  t = t  x = x
  Shards <- MCShards
  HeadShard = a
  Fp8Shards <- MCFp8Shards
  TableShards <- MCTableShards
  Extra = x
  MaxCrashes = 1
  Home <- MCHome
  Modules <- MCModules
  Packed <- MCPacked
  Spelled <- MCSpelled
  CrashAt <- Unwhole
PROPERTY
  Resumable
CHECK_DEADLOCK FALSE
