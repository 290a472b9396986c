SPECIFICATION Spec
CONSTANTS
  Pushers = {p1}
  Keys = {calls}
  MaxCount = 2
  Period = 2
  MaxCopies = 2
  Traffics <- MCTraffics
INVARIANT
  NothingLost
CHECK_DEADLOCK FALSE
