\* Four blocks and three hashes: two hashes fit the cap of 2, a third does
\* not, and two blocks can cache the same hash.
SPECIFICATION PoolSpec
CONSTANTS
  Blocks = {b1, b2, b3, b4}
  Hashes = {h1, h2, h3}
  None = None
  MaxFraction = 40
  MaxRef = 2
SYMMETRY PoolSymmetry
CHECK_DEADLOCK TRUE
INVARIANTS
  TypeOK
  OnePlace
  PinIndexed
  ReservationHolds
  CapRespected
PROPERTIES
  NeverEvicted
  RearmKeepsShared
  FitsThenPinned
  KeepsPromise
