SPECIFICATION Spec
CONSTANTS
  Request = {r1, r2}
  Replica = {a, b}
  Key = {k}
  TTL = 3
  Timeout = 1
  MaxClock = 4
  MaxBoots = 2
  Redis = Redis
  NoRequest = NoRequest
SYMMETRY Symmetry
INVARIANTS
  RetryCreatesOneRow
PROPERTIES
  ConflictMeansDuplicate
