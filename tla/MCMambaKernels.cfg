SPECIFICATION KernelsSpec
CONSTANTS
  Slots = 2
  Configs <- MCConfigs
  States <- MCStates
  Page = 11
  NumBlocks = 30
  BlockSize = 3
  MaxTokens = 7
  Schedules <- MCSchedules
  MaxDrafts = 2
  Word = 2
  BlockLanes = 4
  NumTiles = 2
  MaxAddr = 37
  Jobs <- MCJobs
\* A copy ends; a batch at the bound of tokens ends when its requests leave.
CHECK_DEADLOCK FALSE
INVARIANTS
  RightMoves
  ListFits
  AcceptedOwn
  CopiesAsMemmove
  EveryByteOnce
