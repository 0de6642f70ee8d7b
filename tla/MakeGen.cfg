SPECIFICATION MakeGenSpec
CONSTANTS
  Protos = 2
  Version = {"v1", "v2"}
  MaxRuns = 2
  Trees <- MCTrees
  Root = "modules"
  AppPath = "app"
  Base <- MCBase
  PackageName <- MCPackageName
  Var = {"r", "v"}
  Methods = {"GET", "PUT"}
  Routers <- MCRouters
  Registrations <- MCRegistrations
  Literals <- MCLiterals
  MaxStatements = 4
  Keys = {"a", "b"}
  QueryVar = {"v"}
  Kinds = {"integer", "boolean"}
  MaxBody = 4
  Packages = {"game", "team"}
  Decls <- MCDecls
  Results <- MCResults
  Statuses = {200, 400}
  Messages = {"m", "internal"}
  MaxRoutes = 2
  MaxCalls = 3
INVARIANTS
  FilesAreWhole
  SuccessIsInSync
  OnlyKillsBlockDocsgen
  EveryModuleIsWired
  RoutesAsServed
  QueryTypesFollowReads
  ResponsesAsSent
  RefsMeanTheirTypes
