SPECIFICATION CallFairSpec
CONSTANTS
  Kinds = {"unary", "stream"}
INVARIANTS
  OkIsInTime
  ReportsAgree
  OneTrace
PROPERTIES
  UnaryReturns
