SPECIFICATION SchedSpec
CONSTANTS
  attn = attn  mamba = mamba
  r1 = r1  r2 = r2  r3 = r3
  s = s  u = u  v = v  w = w
  Blocks = {b1, b2}
  Reqs = {r1, r2, r3}
  None = None
  MaxFraction = 67
  MaxRef = 3
  Hashes <- MCHashes
  Prompt <- MCPrompt
  MarkerIds <- MCMarker
  Groups <- MCGroups
  StateGroups <- MCStateGroups
  BlockSize <- MCBlockSize
  Cacheable <- MCGroups
  HashBlockSize = 1
PROPERTY
  MarkedArrivalArms
