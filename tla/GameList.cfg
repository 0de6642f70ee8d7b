SPECIFICATION Spec
CONSTANTS
  MaxId = 5
  ConfigMaxP = 3
  ConfigMaxS = 2
  MaxInt32 = 3
  MaxChanges = 3
INVARIANTS
  WalkErrsOnlyByChanges
  LimitCutsOnlyLongWalks
