SPECIFICATION Spec
CONSTANTS
  Protos = 2
  Version = {"v1", "v2"}
  MaxRuns = 2
PROPERTIES
  RefusalModifiesNothing
