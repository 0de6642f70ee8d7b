------------------------------- MODULE MakeGen -------------------------------
(***************************************************************************)
(* make gen (the root Makefile): the four generators, how they replace     *)
(* files (Generators), and what two of them make of the sources: modulegen *)
(* (ModuleWiring) and docsgen (RouteDocs, QueryDocs, HandlerDocs).  What a  *)
(* generator makes of its sources is decided before it touches a file and  *)
(* depends on nothing but the sources, and so do the three passes of       *)
(* docsgen on each other: a behaviour looks at one part, and the others    *)
(* stay where they begin.                                                  *)
(***************************************************************************)
EXTENDS Generators, ModuleWiring, RouteDocs, QueryDocs, HandlerDocs

VARIABLE part   \* "files", "wiring", "routes", "query", "handlers"

makeGenVars == <<vars, wiringVars, routeVars, queryVars, handlerVars, part>>

AnyTree == CHOOSE t \in Trees : TRUE
AnyPackage == CHOOSE p \in Packages : TRUE

MakeGenInit ==
  /\ part \in {"files", "wiring", "routes", "query", "handlers"}
  /\ Init /\ (part # "files" => \A f \in File : disk[f] = "absent")
  /\ RouteInit /\ (part # "routes" => style = "plain")
  /\ QueryInit
  /\ HandlerInit /\ (part # "handlers" => pkg = AnyPackage)
  /\ WiringStart(IF part = "wiring" THEN Trees ELSE {AnyTree})

Files == Next /\ UNCHANGED <<wiringVars, routeVars, queryVars, handlerVars, part>>

Wiring == WiringNext /\ UNCHANGED <<vars, routeVars, queryVars, handlerVars, part>>

Routes == RouteNext /\ UNCHANGED <<vars, wiringVars, queryVars, handlerVars, part>>

Query == QueryNext /\ UNCHANGED <<vars, wiringVars, routeVars, handlerVars, part>>

Handlers == HandlerNext /\ UNCHANGED <<vars, wiringVars, routeVars, queryVars, part>>

\* The part that is looked at has come to its end.
Ended == /\ \/ part = "wiring" /\ wiring # "inspecting"
            \/ part = "routes" /\ walk = "done"
            \/ part = "query" /\ query = "done"
            \/ part = "handlers" /\ docs \in {"done", "crashed"}
         /\ UNCHANGED makeGenVars

MakeGenNext == \/ part = "files" /\ Files
               \/ part = "wiring" /\ Wiring
               \/ part = "routes" /\ Routes
               \/ part = "query" /\ Query
               \/ part = "handlers" /\ Handlers
               \/ Ended

MakeGenSpec == MakeGenInit /\ [][MakeGenNext]_makeGenVars
=============================================================================
