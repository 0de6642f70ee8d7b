----------------------------- MODULE RouteDocs -----------------------------
(***************************************************************************)
(* docsgen finds the routes of a module in the syntax of its HTTP method:  *)
(* httpRoutes of internal/cmd/docsgen/routes.go and discoverRoutes of      *)
(* main.go.  One statement of the method is looked at after the other.     *)
(* What the walker makes of it (known, documented) is kept next to what Go *)
(* makes of it (bound, registered).  A path is a sequence of literals.  A  *)
(* router expression is [var, calls]: a variable or the call NewRouter(),  *)
(* and the calls made on it, each with the literals it adds to the path.   *)
(***************************************************************************)
EXTENDS Naturals, SequencesExt

CONSTANTS Var,            \* the variables of the method
          Methods,        \* the HTTP methods
          Routers,        \* the router expressions, by style of router
          Registrations,  \* [method, methods, constant, path, literal, local]: method is
                          \* the one the walker reads off the call, NoMethod for Any,
                          \* HandleFunc, Handle of two arguments or one outside its tables
          Literals,       \* the literals of Route, Group and Mount
          MaxStatements

NoMethod == ""

ASSUME RouteDocsAssumption ==
  /\ "GET" \in Methods
  /\ \A reg \in Registrations : reg.method # NoMethod => reg.methods = {reg.method}
  /\ \A s \in {"chi", "gin", "plain"} : [router |-> 0] \notin Routers[s]

VARIABLES style,      \* "chi", "gin", or "plain": HTTP() returns one handler itself
          frames,     \* the open blocks, the innermost last
          documented, \* the routes found: <<method, path>>
          registered, \* the routes of the program: <<method, router, path>>
          mounts,     \* the routers mounted on others: [child, on, path]
          routers,    \* how many routers NewRouter() has made
          mentioned,  \* the method constants that occur in the method
          odd,        \* what the method did that the walker does not support
          statements,
          walk        \* "walking" or "done"

routeVars == <<style, frames, documented, registered, mounts, routers, mentioned,
               odd, statements, walk>>

None == [router |-> 0]    \* no router
New  == "NewRouter()"
-----------------------------------------------------------------------------
\* A frame: the scopes of the walker, the variables that Go declares in the block, and
\* whether the walker follows the block at all.
Frame(known, bound, followed) ==
  [known |-> known, bound |-> bound, followed |-> followed]

Nothing == [v \in {} |-> None]
Top == Last(frames)

Join(path, calls) == path \o FlattenSeq([k \in DOMAIN calls |-> calls[k].path])

\* routerPath follows With and Group with a literal, from a variable it knows.
Follows(expr, known) ==
  /\ expr.var \in DOMAIN known \cup {New}
  /\ \A k \in DOMAIN expr.calls : expr.calls[k].name \in {"With", "Group"}

RouterPath(expr, known) ==
  Join(IF expr.var = New THEN <<>> ELSE known[expr.var], expr.calls)

\* Go: the innermost block that declares the variable.
Declares(k, var) == var \in DOMAIN frames[k].bound
Declared(var) == \E k \in DOMAIN frames : Declares(k, var)
Innermost(var) == CHOOSE k \in DOMAIN frames :
                    /\ Declares(k, var)
                    /\ \A j \in DOMAIN frames : Declares(j, var) => j <= k

ValueOf(var) == frames[Innermost(var)].bound[var]

GoValue(expr) ==
  IF expr.var = New THEN [router |-> routers + 1, path |-> Join(<<>>, expr.calls)]
  ELSE LET value == ValueOf(expr.var)
       IN  [value EXCEPT !.path = Join(@, expr.calls)]

\* The expressions that compile here.
Usable(expr) == IF expr.var = New THEN routers = 1
                ELSE Declared(expr.var) /\ ValueOf(expr.var) # None

MadeBy(expr) == routers' = IF expr.var = New THEN routers + 1 ELSE routers

\* What lies outside the supported forms.
OddOf(expr) == (IF expr.var = New THEN {"second router"} ELSE {})
               \cup (IF \A k \in DOMAIN expr.calls : expr.calls[k].name \in {"With", "Group"}
                     THEN {} ELSE {"helper"})
-----------------------------------------------------------------------------
\* r is the parameter of HTTP in Gin; in chi it is set to NewRouter() first of all, by :=
\* or by var, and that router is what HTTP() returns.
RouteInit ==
  /\ style \in {"chi", "gin", "plain"}
  /\ odd \in (IF style = "chi" THEN {{}, {"var"}} ELSE {{}})
  /\ frames = <<IF style = "plain" THEN Frame(Nothing, Nothing, TRUE)
                ELSE Frame([v \in (IF odd = {} THEN {"r"} ELSE {}) |-> <<>>],
                           [v \in {"r"} |-> [router |-> 1, path |-> <<>>]], TRUE)>>
  /\ routers = 1
  /\ documented = {} /\ registered = {} /\ mounts = {} /\ mentioned = {}
  /\ statements = 0 /\ walk = "walking"

Statement == /\ walk = "walking" /\ statements < MaxStatements
             /\ statements' = statements + 1
             /\ UNCHANGED <<style, walk>>

SetTop(frame) == frames' = [frames EXCEPT ![Len(frames)] = frame]

\* v := expr and v = expr are the same to the walker.
\* Broken variant: a variable that no longer holds a router keeps its path.
Rebound_Kept(var, expr) ==
  IF expr # None /\ Follows(expr, Top.known)
  THEN [v \in DOMAIN Top.known \cup {var} |->
          IF v = var THEN RouterPath(expr, Top.known) ELSE Top.known[v]]
  ELSE Top.known
Rebound(var, expr) ==
  IF expr # None /\ Follows(expr, Top.known)
  THEN [v \in DOMAIN Top.known \cup {var} |->
          IF v = var THEN RouterPath(expr, Top.known) ELSE Top.known[v]]
  ELSE [v \in DOMAIN Top.known \ {var} |-> Top.known[v]]

Learn(var, expr) == IF Top.followed THEN Rebound(var, expr) ELSE Top.known

\* expr = None is an expression that is no router.
DeclareAs(var, expr, known, form) ==
  /\ Statement /\ style # "plain"
  /\ expr # None => Usable(expr)
  /\ LET value == IF expr = None THEN None ELSE GoValue(expr)
     IN  SetTop([Top EXCEPT !.known = known,
                            !.bound = [v \in DOMAIN Top.bound \cup {var} |->
                                         IF v = var THEN value ELSE Top.bound[v]]])
  /\ IF expr = None THEN UNCHANGED routers ELSE MadeBy(expr)
  /\ odd' = odd \cup form \cup (IF expr = None THEN {} ELSE OddOf(expr))
  /\ UNCHANGED <<documented, registered, mounts, mentioned>>

Declare(var, expr) == DeclareAs(var, expr, Learn(var, expr), {})

\* var v = expr is not among the statements the walker looks at: it does not get to know
\* the router, and a name that it knows keeps its path.
OddVar(var, expr) ==
  IF ~Top.followed THEN {}
  ELSE IF var \in DOMAIN Top.known THEN {"shadowing var"}
  ELSE IF expr = None THEN {} ELSE {"var"}

DeclareVar(var, expr) == /\ ~Declares(Len(frames), var)
                         /\ DeclareAs(var, expr, Top.known, OddVar(var, expr))

Assign(var, expr) ==
  /\ Statement /\ style # "plain"
  /\ Usable(expr) /\ Declared(var) /\ ValueOf(var) # None
  /\ frames' = [k \in DOMAIN frames |->
                  [frames[k] EXCEPT
                     !.known = IF k = Len(frames) THEN Learn(var, expr) ELSE @,
                     !.bound = IF k = Innermost(var) THEN [@ EXCEPT ![var] = GoValue(expr)] ELSE @]]
  /\ MadeBy(expr)
  /\ odd' = odd \cup OddOf(expr) \cup (IF Declares(Len(frames), var) THEN {} ELSE {"outer"})
  /\ UNCHANGED <<documented, registered, mounts, mentioned>>

\* A call on a router that registers a handler; local: the handler is a function
\* literal, or a function or method of the same package.
IsFound(expr, reg) == /\ Top.followed /\ Follows(expr, Top.known)
                      /\ reg.method # NoMethod /\ reg.literal /\ reg.local

Register(expr, reg) ==
  /\ Statement /\ style # "plain"
  /\ expr.var # New /\ Usable(expr)
  /\ documented' = IF IsFound(expr, reg)
                   THEN documented \cup {<<reg.method, RouterPath(expr, Top.known) \o reg.path>>}
                   ELSE documented
  /\ registered' = registered \cup
       {<<m, GoValue(expr).router, GoValue(expr).path \o reg.path>> : m \in reg.methods}
  /\ mentioned' = IF reg.constant THEN mentioned \cup reg.methods ELSE mentioned
  /\ odd' = odd \cup OddOf(expr)
            \cup (IF reg.literal /\ reg.local THEN {} ELSE {"helper"})
            \cup (IF reg.method # NoMethod THEN {} ELSE {"no method"})
            \cup (IF Top.followed THEN {} ELSE {"branch"})
  /\ UNCHANGED <<frames, mounts, routers>>

\* Route and Group with a callback: its parameter is the router of the inner block.
\* Broken variant: the callback has the path of the router outside.
ChildPath_Parent(parent, prefix) == parent
ChildPath(parent, prefix) == parent \o prefix

Nest(expr, prefix, param) ==
  /\ Statement /\ style = "chi"
  /\ expr.var # New /\ Usable(expr)
  /\ LET follows == Top.followed /\ Follows(expr, Top.known)
         known   == IF follows
                    THEN [v \in DOMAIN Top.known \cup {param} |->
                            IF v = param THEN ChildPath(RouterPath(expr, Top.known), prefix)
                            ELSE Top.known[v]]
                    ELSE Top.known
         value   == [GoValue(expr) EXCEPT !.path = @ \o prefix]
     IN  frames' = Append(frames, Frame(known, [v \in {param} |-> value], follows))
  /\ odd' = odd \cup OddOf(expr)
  /\ UNCHANGED <<documented, registered, mounts, routers, mentioned>>

\* A block is walked; the body of an if (or a loop, or a function literal) is not.
Open(branch) ==
  /\ Statement /\ style # "plain"
  /\ frames' = Append(frames, Frame(Top.known, Nothing, Top.followed /\ ~branch))
  /\ UNCHANGED <<documented, registered, mounts, routers, mentioned, odd>>

Close ==
  /\ walk = "walking" /\ Len(frames) > 1
  /\ frames' = Front(frames)
  /\ UNCHANGED <<style, documented, registered, mounts, routers, mentioned, odd, statements, walk>>

\* Mount is not among the calls the walker knows.
Mount(expr, prefix, child) ==
  /\ Statement /\ style = "chi"
  /\ expr.var # New /\ Usable(expr)
  /\ Declared(child) /\ ValueOf(child) # None
  /\ ValueOf(child).router # GoValue(expr).router
  /\ mounts' = mounts \cup {[child |-> ValueOf(child).router, on |-> GoValue(expr).router,
                             path |-> GoValue(expr).path \o prefix]}
  /\ UNCHANGED <<frames, documented, registered, routers, mentioned, odd>>

\* The handler of a plain module compares with http.MethodX.
Mention(method) ==
  /\ Statement /\ style = "plain"
  /\ mentioned' = mentioned \cup {method}
  /\ UNCHANGED <<frames, documented, registered, mounts, routers, odd>>

\* A module without routes whose HTTP takes no parameter is taken for a plain handler.
Fallback == IF mentioned = {} THEN {<<"GET", <<>>>>} ELSE {<<m, <<>>>> : m \in mentioned}

Finish ==
  /\ walk = "walking" /\ Len(frames) = 1
  /\ documented' = IF documented = {} /\ style # "gin" THEN Fallback ELSE documented
  /\ odd' = odd \cup (IF documented = {} /\ style = "chi" THEN {"no routes"} ELSE {})
               \cup (IF style = "plain" /\ mentioned = {} THEN {"any method"} ELSE {})
  /\ walk' = "done"
  /\ UNCHANGED <<style, frames, registered, mounts, routers, mentioned, statements>>

RouteNext ==
  \/ \E var \in Var, expr \in Routers[style] :
       \/ Declare(var, expr) \/ DeclareVar(var, expr) \/ Assign(var, expr)
       \/ \E prefix \in Literals : Nest(expr, prefix, var) \/ Mount(expr, prefix, var)
  \/ \E var \in Var : Declare(var, None) \/ DeclareVar(var, None)
  \/ \E expr \in Routers[style], reg \in Registrations : Register(expr, reg)
  \/ \E branch \in BOOLEAN : Open(branch)
  \/ \E method \in Methods : Mention(method)
  \/ Close \/ Finish

RouteSpec == RouteInit /\ [][RouteNext]_routeVars
-----------------------------------------------------------------------------
\* A second router is reached where it is mounted.
Mounted(r) == {m \in mounts : m.child = r[2] /\ m.on = 1}

Served ==
  IF style = "plain"
  THEN {<<m, <<>>>> : m \in IF mentioned = {} THEN Methods ELSE mentioned}
  ELSE {<<r[1], r[3]>> : r \in {x \in registered : x[2] = 1}}
       \cup UNION {{<<r[1], m.path \o r[3]>> : m \in Mounted(r)} : r \in registered}

(***************************************************************************)
(* The document shows the routes that are served, at the paths they are    *)
(* served at, for a method that has them in its own blocks and callbacks,  *)
(* each with a literal path and one method, and declares and sets its      *)
(* routers by := and = there: however they are named, shadowed, nested,    *)
(* reused and rebound (the comment of httpRoutes, routes.go:8-9).  What    *)
(* lies in branches, helpers and dynamic paths, what is registered for     *)
(* Any or with a method that the walker does not know, and what is         *)
(* registered on a router declared by var is left out and adds nothing     *)
(* wrong, unless it leaves the method without any route or the var shadows *)
(* a router that the walker knows.                                         *)
(***************************************************************************)
RoutesAsServed ==
  walk = "done" =>
    /\ odd = {} => documented = Served
    /\ odd \subseteq {"branch", "helper", "any method", "no method", "var"} =>
         documented \subseteq Served
-----------------------------------------------------------------------------
(* What every state satisfies, and why the property holds. *)

IsFrame(frame) == /\ frame = Frame(frame.known, frame.bound, frame.followed)
                  /\ frame.followed \in BOOLEAN

FramesInv ==
  frames \in Seq(ToSet(frames)) /\ frames # <<>> /\ \A k \in DOMAIN frames : IsFrame(frames[k])

\* In block k of fs, the variable is the one that block j declares.
Means(fs, k, var, j) ==
  /\ j \in 1 .. k /\ var \in DOMAIN fs[j].bound
  /\ \A i \in j + 1 .. k : var \notin DOMAIN fs[i].bound

\* The one router there is, at some path, or none.
IsBound(value) == value = None \/ value = [router |-> 1, path |-> value.path]

\* What the walker knows in block k is what the program means there, and all of it.
KnowsRight(fs, k) ==
  \A var \in DOMAIN fs[k].known :
    \E j \in 1 .. k : /\ Means(fs, k, var, j)
                      /\ fs[j].bound[var] = [router |-> 1, path |-> fs[k].known[var]]

KnowsAll(fs, k) ==
  \A j \in 1 .. k : \A var \in DOMAIN fs[j].bound :
    Means(fs, k, var, j) /\ fs[j].bound[var] # None => var \in DOMAIN fs[k].known

\* Nothing that the walker passes over was a router.
AllKnown(seen) == "helper" \notin seen /\ "var" \notin seen

Agree(fs, seen) ==
  \A k \in DOMAIN fs :
    /\ \A var \in DOMAIN fs[k].bound : IsBound(fs[k].bound[var])
    /\ fs[k].followed => KnowsRight(fs, k) /\ (AllKnown(seen) => KnowsAll(fs, k))

\* One router, and no variable of an outer block is set or shadowed behind the walker's back.
Quiet == odd \cap {"second router", "outer", "shadowing var"} = {}

ScopesInv ==
  Quiet => routers = 1 /\ mounts = {} /\ Agree(frames, odd)

Paths == {<<r[1], r[3]>> : r \in registered}

FoundInv ==
  walk = "walking" /\ Quiet =>
    /\ \A r \in registered : r[2] = 1
    /\ documented \subseteq Paths
    /\ odd = {} => documented = Paths

RoutesInv ==
  /\ style \in {"chi", "gin", "plain"} /\ walk \in {"walking", "done"}
  /\ FramesInv /\ ScopesInv /\ FoundInv
  /\ style = "plain" /\ walk = "walking" => registered = {} /\ documented = {} /\ odd = {}
  /\ RoutesAsServed
=============================================================================
