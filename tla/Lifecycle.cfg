SPECIFICATION FairSpec
CONSTANTS
  Endpoints = {"http", "profiler", "grpc"}
  MaxResources = 2
  MaxRequests = 1
INVARIANTS
  CleanRunIsDrained
  NothingLeftOpen
  ZeroOnlyOnSignal
PROPERTIES
  RequestsFindResources
  ProcessEnds
