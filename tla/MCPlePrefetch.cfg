SPECIFICATION FairSpec
CONSTANTS
  MaxBatch = 4
  Sizes <- MCSizes
  SlotRows = 2
\* Behaviours end when the bound on batches is reached.
CHECK_DEADLOCK FALSE
INVARIANTS
  OwnRows
  NoRace
PROPERTY
  EveryLookupDelivers
