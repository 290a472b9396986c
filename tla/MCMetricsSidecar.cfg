SPECIFICATION FairSpec
CONSTANTS
  Pushers = {p1, p2}
  Keys = {calls}
  MaxCount = 2
  Period = 2
  MaxCopies = 2
  Traffics <- MCTraffics
INVARIANTS
  OneRefresher
  NeverOvercounts
  SectionsApart
PROPERTIES
  GuardReported
  GaugesSettle
CHECK_DEADLOCK FALSE
