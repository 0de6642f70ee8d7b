SPECIFICATION FairSpec
CONSTANTS
  Proc = {p1, p2}
  MaxId = 2
  Name = {a}
  Desc = {x}
  Omitted = Omitted
  Unborn = Unborn
  Deleted = Deleted
  NoOp = NoOp
  NoRow = NoRow
  Drivers = {"postgres", "mysql"}
  PoolSizes = {1, 2}
PROPERTIES
  EveryCallReturns
