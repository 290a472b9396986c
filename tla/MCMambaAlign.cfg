SPECIFICATION Spec
CONSTANTS
  BlockSize = 3
  FineBlockSize = 1
  NumSpec = 2
  MaxTokens = 13
  MaxPreempts = 2
\* Behaviours end when the bound on the request is reached.
CHECK_DEADLOCK FALSE
INVARIANTS
  StateRead
  CachedStateWhole
  GuardUnused
