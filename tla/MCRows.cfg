SPECIFICATION RowsSpec
CONSTANTS
  Vocab = 5
  Tables <- MCTables
  IdLists <- MCIdLists
  FastRows = 2
  Chunk = 2
  Workers = {w1, w2}
  Heads <- MCHeads
  Rankings <- MCRankings
  IdFiles <- MCIdFiles
  Out = 6
  In = 4
  Group = 2
  Bits = 3
  Pack = 2
  Smallest = 2
  Exact = 8
  Exponents = 6
  HeadVocab = 5
  TokVocab = 6
  Specials = {4, 5}
  Bytes = 1
  KeepIds = 4
  Tile = 3
  HeadChunk = 2
\* A call ends.
CHECK_DEADLOCK FALSE
INVARIANTS
  OwnRow
  AcceptedServes
  WeightsComeBack
  OwnScores
  ReservedDraftable
