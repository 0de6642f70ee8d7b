------------------------------ MODULE MCMakeGen ------------------------------
(* MakeGen on small sources. *)
EXTENDS MakeGen

\* modulegen: a business module "game" in several forms, and the module "menu".
MCPaths == {"modules", "db", "redis/v9", "game", "menu"}
MCBase == [p \in MCPaths |-> IF p = "redis/v9" THEN "v9" ELSE p]
MCPackageName == [p \in MCPaths |-> IF p = "redis/v9" THEN "redis" ELSE p]

Import(path, as) == [path |-> path, as |-> as]
Pointer(sel, name) == [ptr |-> TRUE, sel |-> sel, name |-> name]
Plain(sel, name) == [ptr |-> FALSE, sel |-> sel, name |-> name]
AppField(name, type) == [name |-> name, type |-> type]

MCFields ==
  {AppField("db", Pointer("db", "Store")), AppField("copy", Plain("db", "Store")),
   AppField("other", Pointer("db", "Store")), AppField("", Pointer("db", "Store")),
   AppField("menu", Pointer("menu", "Module")), AppField("redis", Pointer("redis", "Client")),
   AppField("service", Pointer("game", "Service")), AppField("local", Pointer("", "Service"))}

MCImports ==
  {<<Import("db", ""), Import("menu", ""), Import("game", ""), Import("redis/v9", as)>> :
     as \in {"", "redis"}}

Asserted(interface, type) == [sel |-> "modules", interface |-> interface, type |-> type]
Source(asserts, news) ==
  [imports |-> <<Import("modules", ""), Import("redis/v9", "redis"), Import("db", "")>>,
   asserts |-> asserts, news |-> news]
Constructor(result, params) == [result |-> result, params |-> params]

MCPackages ==
  LET Game(files) == [name |-> "game", files |-> files]
      News(params) == Constructor("Module", params)
      Http == Asserted("HTTPModule", "Module")
      Grpc == Asserted("GRPCModule", "Module")
  IN  {Game({Source({Http}, {News(<<Pointer("db", "Store")>>)})}),
       Game({Source({Http, Grpc}, {News(<<Pointer("", "Service"), Plain("db", "Store")>>)})}),
       Game({Source({Grpc}, {}), Source({}, {News(<<Pointer("redis", "Client")>>)})}),
       Game({Source({Http, Asserted("GRPCModule", "Other")}, {News(<<>>)})}),
       Game({Source({}, {News(<<Plain("[]", "x")>>)})}),
       Game({Source({Asserted("Module", "Module")}, {News(<<Plain("[]", "x")>>)})}),
       Game({Source({Asserted("Module", "Module")}, {Constructor("Other", <<>>)})})}

MCDirs ==
  LET Dir(path, hidden, packages) == [path |-> path, hidden |-> hidden, packages |-> packages]
      Menu(name) == CHOOSE p \in {[q EXCEPT !.name = name] : q \in MCPackages} :
                      \E f \in p.files : f.asserts = {Asserted("HTTPModule", "Module")}
  IN  {<<Dir("game", hidden, packages), Dir("menu", FALSE, {Menu(name)})>> :
         hidden \in BOOLEAN, name \in {"menu", "game", "modules"},
         packages \in {{}} \cup {{p} : p \in MCPackages}
                      \cup {{[name |-> "main", files |-> {}], p} : p \in MCPackages}}

MCTrees == [imports : MCImports,
            fields  : {f \in SUBSET MCFields : Cardinality(f) \in 1 .. 2},
            dirs    : MCDirs]

\* docsgen: routers and registrations, in forms that it reads and forms that it does not.
Expr(name, made) == [var |-> name, calls |-> made]
WithCall  == [name |-> "With", path |-> <<>>]
GroupCall == [name |-> "Group", path |-> <<"/g">>]
Helper    == [name |-> "helper", path |-> <<"/h">>]

MCRouters ==
  [chi   |-> {Expr(New, <<>>), Expr("r", <<>>), Expr("v", <<>>), Expr("r", <<Helper>>)},
   gin   |-> {Expr("r", <<>>), Expr("r", <<GroupCall>>),
              Expr("v", <<WithCall, GroupCall>>), Expr("r", <<Helper>>)},
   plain |-> {}]

Registration(method, constant, path, literal) ==
  [method |-> method, methods |-> IF method = NoMethod THEN Methods ELSE {method},
   constant |-> constant, path |-> path, literal |-> literal, local |-> TRUE]
MCRegistrations == {Registration("PUT", TRUE, <<"/a">>, TRUE),
                    Registration("GET", FALSE, <<"/a">>, FALSE),
                    Registration(NoMethod, FALSE, <<"/a">>, TRUE)}
MCLiterals == {<<>>, <<"/p">>}

\* The types of two packages.
Struct(uses) == [struct |-> TRUE, uses |-> uses]
Other(uses) == [struct |-> FALSE, uses |-> uses]
MCDecls ==
  [game |-> [Game |-> Struct(<<"Tags", "string", "Game">>), Tags |-> Other(<<"Tag">>),
             Tag |-> Struct(<<"Game">>)],
   team |-> [Tag |-> Struct(<<>>), Tree |-> Other(<<"Tree">>),
             ErrorResponse |-> Struct(<<"string">>)]]
MCResults == [game |-> [Get |-> {"Game"}, List |-> {"Tags", "Tag"}],
              team |-> [Get |-> {"Tag"}]]
=============================================================================
