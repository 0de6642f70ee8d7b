SPECIFICATION Spec
CONSTANTS
  Proc = {p1, p2}
  MaxId = 2
  Name = {a, b}
  Desc = {x}
  Omitted = Omitted
  Unborn = Unborn
  Deleted = Deleted
  NoOp = NoOp
  NoRow = NoRow
  Drivers = {"postgres"}
  PoolSizes = {2}
PROPERTIES
  UpdateApplied
