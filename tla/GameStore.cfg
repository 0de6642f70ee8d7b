SPECIFICATION Spec
CONSTANTS
  Proc = {p1, p2}
  MaxId = 2
  Name = {a, b}
  Desc = {x}
  Omitted = Omitted
  Unborn = Unborn
  Deleted = Deleted
  NoOp = NoOp
  NoRow = NoRow
  Drivers = {"postgres", "mysql"}
  PoolSizes = {2}
SYMMETRY Symmetry
INVARIANTS
  LastSuppliedFieldsWin
  IdleHoldsNothing
PROPERTIES
  TakesEffectAtomically
