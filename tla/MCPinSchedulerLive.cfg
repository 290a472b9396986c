SPECIFICATION FairSchedSpec
CONSTANTS
  attn = attn  mamba = mamba
  r1 = r1  r2 = r2  r3 = r3
  s = s  u = u  v = v  w = w
  Blocks = {b1, b2, b3}
  Reqs = {r1, r2, r3}
  None = None
  MaxFraction = 34
  MaxRef = 3
  Hashes <- MCHashes
  Prompt <- MCPrompt
  MarkerIds <- MCMarker
  Groups <- MCTokenGroups
  StateGroups = {}
  BlockSize <- MCBlockSize
  Cacheable <- MCTokenGroups
  HashBlockSize = 1
PROPERTY
  EveryRequestEnds
