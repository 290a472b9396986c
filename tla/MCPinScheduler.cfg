SPECIFICATION SchedSpec
CONSTANTS
  attn = attn  mamba = mamba
  r1 = r1  r2 = r2  r3 = r3
  s = s  u = u  v = v  w = w
  Blocks = {b1, b2, b3, b4, b5}
  Reqs = {r1, r2, r3}
  None = None
  MaxFraction = 67
  MaxRef = 3
  Hashes <- MCHashes
  Prompt <- MCLongPrompt
  MarkerIds <- MCMarker
  Groups <- MCStateGroups
  StateGroups <- MCStateGroups
  BlockSize <- MCBlockSize
  Cacheable <- MCStateGroups
  HashBlockSize = 1
SYMMETRY MCSymmetry
INVARIANTS
  RefCountsMatch
  ArmedStaysCached
