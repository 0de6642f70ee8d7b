SPECIFICATION Spec
CONSTANTS
  Caller = {c1, c2}
  Key = {k1, k2}
  TTL = {1, 3}
  CleanupPeriod = 2
  MaxClock = 4
  Nobody = Nobody
  NoCall = NoCall
SYMMETRY Symmetry
INVARIANTS
  MutexHeld
  LiveGrantsKept
  NothingLingers
PROPERTIES
  ImplementsClaims
