# A verification model of chi-layout

chi-layout is a template that generates a Go service: HTTP (chi or gin) and
optionally gRPC in front of modules that use a database (Postgres or MySQL) and
optionally Redis. The TLA+ modules here model the generated service, how it is
configured and deployed, and the generators that write parts of it. Paths below are relative to `src/{{ .Project }}/internal/`
unless they start with `src/`; where the template offers a choice (router,
driver, Redis) the models leave it open in the initial state.

## 1. Inventory

| component | state | operations | hard behaviour | what makes it correct |
|---|---|---|---|---|
| idempotency store in the process (`common/idempotency`) | map key -> expiry, time of next sweep, mutex | `Claim` | clock is read before the mutex; sweep runs inside claims | one grant per key and ttl; memory is given back |
| idempotency store in Redis (`infra/rds/idempotency.go`) | key with expiry | `Claim` = `SETNX` | go-redis sends again after a lost reply | as above, over replicas |
| HTTP middleware (`common/server`) | one request: context, response writer | claim, deadline, recovery, access log | deadline, disconnection, panic, abort at any step | one answer, of the right status, logged as sent; no handler without a claim |
| game module (`modules/game`) | rows of `t_game` | `Create Get Update Delete List` | concurrent transactions, faults, deletes that wait for rows, pages read while rows change | operations are atomic; refusals change nothing; pages miss only what a deletion moved |
| database store (`infra/db/transaction.go`) | pool, transactions | `Tx`, `SQL` | failing statements, commits and rollbacks, a small pool | nothing is left open, every call returns |
| database start (`infra/db/database.go create.go migrate.go`) | database, tables, records | `New`, `createDatabase`, `MigrateUp` | replicas start together, die in the middle | a replica that is to migrate serves only on the full schema |
| pagination | limits | `New`, `Normalize` | ends of int32 | |
| lifecycle (`app`, `cmd/server/main.go`) | resources, listeners, goroutines, timer | `New Run Close` | signal, server failure, hanging handler, late goroutine | everything closed, in the right order, with the right exit code |
| gRPC (`common/rpc`, `modules/game/grpc.go`) | one call: two contexts | `Unary Stream invoke Shutdown`, client interceptors | two deadlines, panic, lost connection | one status everywhere, never OK too late |
| generators (`cmd/protogen`, `configgen`, `modulegen`, `docsgen`) | the files they write | `run syncGenerated writeAtomic` | failing file operations, kill, hand-written files, what one leaves for the next to read | files are whole; hand-written ones are kept; a failure does not stop a later run |
| modulegen's wiring (`cmd/modulegen`) | the modules found, the fields of `Application` | `importPaths typeKey inspectModule constructorArguments generate` | names that mean different packages, maps ranged over | every module that asserts an interface is mounted once, with the right dependencies |
| docsgen's reading of the syntax (`cmd/docsgen/routes.go query.go request.go main.go`) | routes, parameters, answers, components | `httpRoutes queryParameters describeRoute typeSchema` | scopes of variables, the forms of Go that are not read, types that contain themselves, one status answered in several ways | the document says what the program does, or leaves it out |
| health (`common/server/health.go`) | none | checks under 5 s | a database that does not answer | every check ends |
| tracing (`common/tracing`, `server/trace.go`, `rpc/trace.go`, `rpc/client_trace.go`) | contexts | `TraceID startTrace outgoingTrace` | headers that disagree, forwarded metadata | one trace from the request to the last server |
| Redis client (`infra/rds/client.go redis.go`) | connection, key prefix | `newClient` and the commands of the prefix | prefixes that begin alike or are spelled differently | each prefix is a store of its own |
| configuration (`common/config`, `common/redact`, `common/logging`, `internal/docs`) | the values, the overrides, the embedded document | `LoadDir applyEnvironment LogOverrides Init New` | lists and maps overridden by name, two environments (build and run), secrets in the log | overrides are exact, secrets are masked |
| localisation (`common/i18n`) | tables that never change | lookup | | |

How they interact: `main` calls `New`, which opens tracer, database (creating
and migrating it) and Redis, chooses the idempotency store, builds the router
and the gRPC server, and then `Run`. A request passes access log, trace,
recovery, locale, deadline and the idempotency check (`router.go` gives the
order, which differs between chi and gin) and calls the game module, whose
operations go through `Store.Tx` or `Store.SQL`. Contexts carry the deadline,
the disconnection of the client and the transaction; the stores and the pool
are the state that requests share. `Run` stops the servers and `Close` the
resources. Before all that, `make gen` runs the generators, whose files the
server is built with, and `make api` embeds the API document; the server loads
the same configuration files under its own environment, and what they say
decides which database is opened and created and which Redis prefix is used.

PROJECT.json lists every component with its status, and the hazards with the
line where each bites and the properties that look at it.

## 2. Modules

| module | models | composes |
|---|---|---|
| `Claims` | what any idempotency store promises: a key is granted when nobody holds it | |
| `MemoryStore` | `MemoryStore.Claim`: checks, clock, mutex, sweep, decision | refines `Claims` |
| `HttpRequest` | one request through the middleware and a handler or the health check, for both routers | |
| `GameRows` | the game operations as atomic steps on rows | |
| `GameStore` | the same as statements in transactions over a pool, with locks and faults | refines `GameRows` |
| `CreateOnce` | clients that repeat a creation, replicas with either store, crashes | the claim, the deadline and the transaction together |
| `GameList` | a client that reads all pages; pagination in bounded integers | |
| `Lifecycle` | `New`, `Run`, `Close`, the servers, their goroutines and the timer | |
| `RpcCall` | one gRPC call: client interceptor, contexts, `invoke`, handler | uses `Trace` |
| `Startup` | `New` of `infra/db` in several replicas | |
| `Trace` | which trace a request or a call belongs to | |
| `Configuration` | files, overrides, decoding, logging of overrides, limits, the served document | |
| `RedisStores` | what services that share a Redis server take for granted: a store each | |
| `RedisKeys` | `newClient`, its prefixes and every command, over one map of whole keys | refines `RedisStores` |
| `Delivery` | a deployment from its files to a service that runs | `Configuration`, `Startup`, `RedisKeys` |
| `Generators` | the runs of the four generators: `syncGenerated` and each `writeAtomic` | the generators, through the files they leave |
| `ModuleWiring` | how modulegen finds modules and matches their constructors | |
| `RouteDocs` | the routes docsgen finds in an `HTTP` method | |
| `QueryDocs` | the query parameters it finds in a handler | |
| `HandlerDocs` | the answers, bodies and components it finds | |
| `MakeGen` | `make gen` | `Generators`, `ModuleWiring`, `RouteDocs`, `QueryDocs`, `HandlerDocs` |
| `MemoryStore_proofs`, `Lifecycle_proofs`, `Requests_proofs`, `GameStore_proofs`, `CreateOnce_proofs`, `GameList_proofs`, `Delivery_proofs`, `MakeGen_proofs` | the theorems, see section 5 | `Requests_proofs`: `HttpRequest` and `RpcCall` |
| `MC*` | the constants and symmetries for TLC | |

### Correspondence

One action stands for one indivisible step of the code: a statement the
database executes, a mutex region, an external call with its outcome, a step
of the middleware. The `map` of PROJECT.json gives the lines of every
definition. Points worth knowing:

- **MemoryStore.** `Reject` and `Enter` are the checks of lines 26-34 and the
  reading of the clock in line 36, `Lock` is line 37, `Sweep` lines 39-47, and
  `Admit`, `Refuse` and `Grant` the decision of lines 48-52. The clock only moves
  forward (`time.Now` is monotonic). Nothing bounds the time between the clock
  and the mutex. The history variable `last` is read by properties only.
- **HttpRequest.** Writers are modelled by what they do with a second
  `WriteHeader` and with a status without a body: gin remembers it and may
  replace it, chi sends it. `written` is what `Written()` / `responseWritten`
  see. net/http answers 200 when nobody answered. `NewRouter` is the one check
  at start that matters to a request; `probe` is the context of health checks.
- **GameStore.** Each transaction holds a connection of the pool and row locks
  to its end. `driver = "postgres"` is READ COMMITTED, where an UPDATE does not
  see an uncommitted INSERT; `"mysql"` is InnoDB, where it waits for it.
  `born` is history: the rows created since a call began, which on Postgres an
  UPDATE or a DELETE may miss. The one DELETE of several ids is three kinds of
  steps: `StartDelete` fixes what it will look for (on Postgres the rows that
  are committed by then), `VisitRow` waits for one of these and marks it, and
  `DeleteRows` commits; `todo` and `marked` are what is left and what is locked.
  On MySQL the visited ids that have no row are locked too, as gaps (`Claimed`).
  Statements that wait for each other are ended by the database
  (`BreakDeadlock`). The database is external; every statement, commit and reply can fail.
- **CreateOnce.** `shared` is chosen at the start: the store in Redis, or one
  in-process store for each replica. A request is sent again at any time, to any replica.
- **GameList.** Integers are as wide as `MaxInt32` says, and arithmetic wraps.
- **Lifecycle.** `Open`, `Wire` are `New`; `Listen`, `Select`, `Stop`, `Wait`,
  `Leave` are `Run`; `Close` also stands for the clean-up of a failed `New`.
  `Serve(e)` is the moment the goroutine gets to call `Serve`, possibly after
  the shutdown.
- **RpcCall.** The deferred functions of `invoke` are actions in the order in
  which Go runs them: recover, look at the context, log, end the span.
- **Startup.** A start that fails ends the process and is repeated. `migrate` is
  `database.migrate` in a project that was generated with migrations; without it
  a replica is up as soon as its database answers, whatever tables there are.
  `DatabaseInit` is the state of the server before any replica starts.
- **Configuration.** A document is a function from the paths of its scalars to
  values, so that a list that became a map, or a lost element, shows as another
  set of paths. `ApplySection` takes the top-level keys in any order, as the
  range over the map does. `StartProcess` runs docsgen first, under `build`,
  and then the server, under `run`. A value is known by what decides something:
  whether it is a number, how long it is and, for a DSN, how long a password it
  holds and the order of its pieces: the colons, the @ signs, the password, and
  which of them are the user information of a URL (`user`).
- **RedisKeys.** Strings are sequences of characters, because whether two whole
  keys are equal is the question. `Expire` may come at any time; the answer of
  `DEL` is only whether there was something to delete.
- **Delivery.** The replicas share one configuration, so it is computed once;
  the pages under `/docs` are made after the connections but of the
  configuration alone, and belong to the configuration step here. Redis is
  opened when all replicas are up. It may be refused for a reason the model
  does not look at (no DSN, no answer).
- **Trace.** A context is its trace id. `NewProvider` always installs the W3C
  propagator and an SDK provider, so the branches for a build without them do
  not occur.
- **Generators.** Everything a tool does before it touches a destination is one
  step that may fail (`ConfiggenRun`, `ModulegenRun`, `DocsgenRun`,
  `ProtogenRun`). `Kill` may come between any two file operations. `litter` is
  what a kill leaves: an empty `.modules.gen-*.go` or `.config.gen-*.go`, which
  the Go tools ignore and docsgen parses.
- **ModuleWiring, RouteDocs, QueryDocs, HandlerDocs.** The inputs are programs,
  so each module keeps two things side by side: what the generator makes of the
  syntax, with its maps by name, and what Go makes of it, with scopes, packages
  and types. The properties compare the two. `RouteDocs` and `QueryDocs` write
  the method one statement at a time and may stop anywhere, which enumerates
  every program up to their bound. In `HandlerDocs` a declared type is a struct
  or not, and the names it is made of; pointers, slices and maps pass through.
  *modulegen*: `InspectPackage` visits one package of one directory, in the
  order of the walk; `MountAll` is the text of `generatedModules()`. A slice that
  the code searches from one end is a set of positions here, and what it finds
  there the least or the greatest of them.
  *docsgen's parameters*: `scopes` is history, Go's scopes before each
  statement and after the last; an if has two, of its condition and of its
  body. `Visit` is one statement of the last walk. Left out are the walk for
  aliases of the query values (`q := r.URL.Query()`, query.go:14-26), values
  declared by `var v = q.Get(...)`, and the parsers other than Atoi, ParseInt and
  ParseBool. The closure `inspect` gives
  an if a scope unless it is the root of the walk, which the else of an if is:
  of a chain of else ifs, every second one has a scope (`own`).
  *docsgen's routes*: a router is declared by `:=` (`Declare`) or by `var`
  (`DeclareVar`), which the walker does not look at, and is set by `=`. A `var`
  without a value holds no router until it is assigned; the two together are
  modelled as one `:=` at the assignment in the same block. A `Registration` has the methods it serves and the one
  the walker reads off it, which is `NoMethod` for `Any`, `HandleFunc`, `Handle`
  of two arguments and methods outside its tables. `odd` is history: what the
  method did that is not read.
  *docsgen's answers*: `actual` is the type that the variable has, `inferred`
  what docsgen takes for it, `told` whether any assignment says it in a form that
  is read: a composite literal, a declaration with a type, or one of several
  results of a method. `AssignUnseen` stands for all other forms, among them one
  value that is a call or the address of a literal. What is sent is such a
  variable (`WriteVariable`), a literal (`WriteValue`) or another expression
  (`WriteOther`), under a status that `statusCode` knows or not (`WriteUnread`).
- **MakeGen.** What a generator makes of its sources is decided before it
  touches a file and depends on the sources alone, and so do the three passes
  of docsgen: `part` chooses the one that a behaviour looks at, and the others
  stay where they begin.

### Broken variants

A definition named `X_WhatIsWrong`, right before `X`, is a plausible bug in the
code of `X`. No module uses it; substituted for `X` it makes a property fail,
which shows that the property can. PROJECT.json names one for each property.

## 3. Runs

| run | what it asks | bounds |
|---|---|---|
| memory_store | live grants kept, old ones forgotten, the mutex given back, implements `Claims` | 2 goroutines, 2 keys, a ttl of 1 and one of 3, a clean-up every 2, a clock to 4: long enough for a grant to lapse, be swept and be granted again |
| http_request | one answer, kept once it is sent, of the right status and logged as sent, under both routers; no handler without a claim; the deadline bounds a request | one request, every configuration, handler and health check |
| game_store | the operations on both databases implement `GameRows` (so a refusal changes nothing), the last supplied field wins, an idle process holds neither transaction nor lock | 2 processes, 2 ids, 2 names, 1 description, 2 connections |
| game_update_applied | *violated* on Postgres, see Findings | 2 processes, as in game_store |
| game_liveness | every operation returns | 2 processes with 1 name, and with 1 connection for 2 processes, the smallest pool, too |
| create_once | a repeated creation makes one row; 409 is told to duplicates | 2 requests with one key, 2 replicas with 2 lives each, ttl 3, deadline 1, a clock to 4 |
| lifecycle | drained, closed in order, the right exit code; requests find their resources; the process ends | 3 servers, 2 resources (so that an order of closing exists), one handler per server, which may never end |
| game_list | that only changes make a walk through pages miss or repeat rows, and where the limit cuts it | 5 rows, 3 changes, pages of 1 and 2, integers of 3 bits |
| rpc_call | never OK too late, reports that agree, one trace, unary calls return | one call of each kind and configuration |
| delivery | overrides are exact and secrets masked; replicas that are to migrate serve only on the full schema, and all replicas get up; each Redis prefix is a store of its own | deployments with up to 2 files and 2 overrides out of those that matter to one side of the configuration; 3 replicas, 2 migrations, 2 faults, both databases, with and without migration; 2 services, one of them spelling its prefix in two ways and the other's beginning with it |
| make_gen | files whole, in sync after a success, hand-written ones kept, and a failed run in nobody's way; modules wired; routes, parameters, answers and schemas documented as the program has them, in forms that docsgen reads, and nothing wrong for those that it does not | 2 runs of any of the four tools, 2 proto files and 3 others, 2 contents; 1 or 2 fields and 2 modules, one of them in 15 forms; methods of 4 statements with 2 variables in three styles of router, with declarations by `:=` and `var` and registrations with one method, with any, and with a dynamic path; handlers of 4 statements with 1 variable; 2 routes of 3 calls |
| generators_refusal | *violated*, see Findings | the same files |

Every module with a state has a type invariant or documents its types next to
its variables. The type invariants are proved, as theorems or as parts of the
inductive invariants of section 5, except where a module only documents them.

Two actors suffice for most interleavings: the shared objects are a mutex, one
row and its lock, one key, one file, and each property speaks of at most two
users of one. A DELETE that waits for an UPDATE of one row while a Create of
another commits needs three calls, but not three processes: between
`StartDelete` and any `VisitRow` the other process may begin and end as many
calls as it likes, so that the row it commits there is missed in game_store too
(with a `GameRows` whose Delete may miss nothing the run fails). Three replicas
start together in delivery, so that one can find what a second has half done
while a third repeats it. Four statements are enough to declare a variable,
shadow it in a block, leave the block and use it. Clocks are bounded so that
every deadline and ttl passes at least once and something can follow it. No run
switches the deadlock check off: where a behaviour ends (a request that was
answered, a bound reached) the module says so with a stuttering action of its
own.

**Fairness.** Goroutines that can take a step are scheduled (weak fairness of
their next action), the row lock and the connection are granted to someone who
waits, the database ends a deadlock of statements, and timers fire. Clients,
handlers, signals and faults have no fairness: a handler may run for ever, a
client may never retry. A fault is bounded in number where the property is that
something gets done in the end (`Startup`), since no code gets up under endless
faults. In `Delivery` the make targets and the start run to their end (weak
fairness of `Configure`, `OpenDatabase` and of each replica's next step that is
no fault); commands to Redis have none. `MemoryStore` needs no fairness: that
the mutex is always given back is the invariant `MutexHeld`.

## 4. Findings

Where the code and what is said about it differ, and TLC shows it:

1. *game_update_applied*: on Postgres `Update` may return success without
   having changed the row (`modules/game/game.go:118`): the row was created
   while it ran. `GameRows` allows exactly this, as `UpdateMissed`, and the
   same of a Delete of several ids (below), which no text speaks of.
2. *generators_refusal*: protogen meets a hand-written file only after it has
   changed others (`cmd/protogen/main.go:178`), while a comment says that
   destinations are validated first.

Limits met while modelling, which no document contradicts and the properties
state with the exception:

- On Postgres a Delete of several ids finds the rows that are committed when its
  statement begins, and may then wait for one of them: a row of its ids that is
  committed meanwhile stays (`modules/game/game.go:157`). `GameRows` allows this
  for rows created since the call; on MySQL, which looks at an id when it comes
  to it and locks the gaps, a Delete is atomic.
- Without `database.migrate` nobody looks whether there are tables
  (`infra/db/database.go:83`): the replica is up and its requests fail.
- A claim lasts the ttl from the reading of the clock, not from the grant, so a
  wait for the mutex shortens it (`common/idempotency/store.go:36`).
- Under gin a status without a body (the answer of DELETE) is replaced by 504 or
  500 when the deadline or a panic follows it (`common/server/timeout.go:24`);
  `AnswerKept` speaks of answers that were sent.
- A handler that is aborted before it has answered leaves the client with the
  200 of net/http (`common/server/recovery.go:51`).
- go-redis sends `SETNX` again when the reply is lost, and the first request
  then gets 409 although it is no duplicate (`infra/rds/idempotency.go:35`);
  `ConflictMeansDuplicate` names this exception.
- A modulegen or configgen that is killed while it writes leaves a Go file that
  docsgen cannot parse, and `make gen` fails until somebody removes it
  (`cmd/docsgen/main.go:205`); `OnlyKillsBlockDocsgen` says that a failure alone
  does not do this.
- On MySQL a kill between a migration and its record leaves a table that stops
  every later start (`infra/db/migrate.go:31`); `Orphan` names it.
- modulegen looks up a type written without a package among the types of `app`
  first (`cmd/modulegen/main.go:302`), knows an import without a name by the
  last element of its path (`redis/v9` as `v9`), skips embedded fields, and
  takes either package of a directory with two.
- docsgen's routes (`cmd/docsgen/routes.go`): an assignment to the router of an
  outer block, a second router and `Mount` lead to routes that are not served;
  branches, helpers and dynamic paths are left out, and so are registrations
  without one known method (`Any`, `HandleFunc`, `Handle` of two arguments) and
  the routes of `var v = r.Group("/v1")`, since no declaration is looked at (line
  60; `src/README.md:110-113`, which asks for literal paths and for registration
  inside `HTTP`, does not say so); under a `var` that shadows a router they are
  documented at the path of the shadowed one; a chi module of which no route was followed gets
  the methods it mentions, or a GET.
- docsgen's query parameters (`cmd/docsgen/query.go:50`): only the `if` that
  begins a chain opens a scope, an `else if` does not.
- docsgen's answers (`cmd/docsgen/main.go`): the later call of a status
  replaces an earlier one of the other kind; a status in a variable, or a
  constant that `statusCode` does not know, is left out; the type of a variable
  is that of the first assignment that tells one, and of a method's result that
  of any method of that name; a value whose type no such assignment tells
  (`value := m.f()`, `value := &T{}`) and an expression are objects; components are keyed by the bare name of a struct; a type that is
  not a struct and contains itself overflows the stack; the message of the
  idempotency middleware may be repeated beside others of its status.
- Two keys such as `a.b_c` and `a_b.c` share an environment name, and an
  override changes both (`common/config/environment.go:32`).
- The policy of redaction is made of the files, before the environment is
  looked at; keys of several words in `redact.keys` match whole names only;
  values of at most three characters are logged as they are, and of a DSN
  everything but the password between a colon and an `@`: `host=db password=...`
  and `postgres://db?password=...` show it (`common/redact/redact.go:97-118`).

## 5. Proofs

Checked by tlapm with Z3, Zenon and LS4; the theorems hold for every value of
the constants that satisfies the module's ASSUME. Each safety invariant is
proved from an inductive one, which stands at the end of the component's module
and was itself checked by TLC on the instance of its run. All invariants of the
passing runs, the action property of `create_once` and the three refinements
are proved.

- **MemoryStore_proofs** (any set of goroutines, any keys, any positive ttls):
  types, `MutexHeld`, `LiveGrantsKept`, `NothingLingers`, `NoEarlyReclaim`,
  `ScheduleAdvances` and the refinement of `Claims`. `IInv` adds to the types
  `MutexHeld` (the goroutine inside the region is the one with the mutex),
  `CallsRead` (the instant a goroutine read is not after the clock, which is what
  makes a late sweep or decision err on the safe side), `KeyStaysFree` (nobody
  takes a key between the look and the grant), `MapMatchesGrants` (the map holds
  the latest grant, or that grant has lapsed) and `ScheduleBounds` (how long ago
  a stored entry can have lapsed, from the time of the next sweep).
- **Lifecycle_proofs** (any number of resources and requests, any of the three
  servers): `TypeOK`, `CleanRunIsDrained`, `NothingLeftOpen`,
  `ZeroOnlyOnSignal`, `RequestsFindResources`. None is inductive.
  `IInv` adds `Progress` (what is open at which point of main), `NotYet` (nobody
  serves before all listen), `ServerStates` (a serving server has not been told
  to stop; a drained one is idle), `RunIsOver` (after Run every server has
  stopped, and a forced one is an error) and `Reason` (main leaves the select
  for a signal or an error). That a late goroutine cannot accept is
  `ServerStates` with `Serve`'s look at `stopping`.
- **Requests_proofs**: `AnswerKept`, `GatewayTimeoutIffDeadline`,
  `HandlerNeedsClaim` and `LoggedAsSent` of an HTTP request, `OkIsInTime`,
  `ReportsAgree` and `OneTrace` of a gRPC call. `HttpRequest` and `RpcCall` have
  few constants and TLC reaches all their states; what the proofs add is the
  reason. `RequestInv` says what has been written at each layer: nothing before
  the handler unless the check of the key turned the request away (`ClaimsInv`),
  then the handler's answer (`AnswerInv`), and what the two layers outside put
  in its place when there is none (`SubstituteInv`). `TimerInv` is why 504 is
  exact: the timer runs only while RequestTimeout is on the stack, so a deadline
  that has passed is one that it looks at. `CallInv` follows the status through
  the deferred functions of `invoke`, and knows that a handler hands on the
  error of its context only when the context has ended.
- **GameStore_proofs** (any processes, ids, names, descriptions and pool sizes,
  either database): `LastSuppliedFieldsWin`, `IdleHoldsNothing`, and, step by
  step, that the transactions implement `GameRows` (`TakesEffectAtomically`).
  `GameStoreInv` is about what a transaction may rely on until it commits: one
  transaction at a time writes a row (`OneWriter`), what was written still fits
  the committed row (`CreationsHold`, `UpdatesHold`), what was read back is its
  own (`ReadsAreOwn`), ids are not handed out twice (`IdsAreFresh`), and an
  update that found no row is either right or, on Postgres, missed a row that
  was born meanwhile (`MissesAreLate`); what a DELETE has marked is still there,
  and what it has passed by is no row or, on Postgres, one born meanwhile
  (`DeletesHold`). The abstract step is the commit, of a DELETE too, or the
  reading of a row; all others are stutters.
- **CreateOnce_proofs** (any replicas, requests, keys, ttl and timeout):
  `RetryCreatesOneRow`, `ConflictMeansDuplicate`. `CreateOnceInv` says that a
  grant is covered (its key is held until the request has lapsed, whatever later
  claims do to the hold) and that two grants of one key in one life of a store
  are apart in time. A row is only ever a grant that ran to its end, so two rows
  of one life are apart too.
- **GameList_proofs** (any number of rows and changes, any limits, any width of
  integers): `WalkErrsOnlyByChanges`, `LimitCutsOnlyLongWalks` and the types,
  among them that the offset of a page does not overflow. `GameListInv` counts:
  the rows missed so far are at most those lost, and the rows returned together
  with those that will be met again are at most those seen and gained. The
  lemmas under it are about ranks: they have no gaps, and one row that comes or
  goes moves each rank by one at most.
- **Delivery_proofs** has three parts and their composition.
  *Redis* (any characters, any prefixes and keys over them, any bound on the
  values): `RedisTypeOK` and `OwnStores`, the refinement of `RedisStores`. The
  argument is about strings: a prefix that `newClient` accepts has one colon,
  between two components without one, and the client closes it by a second. So
  the first two colons of a whole key say where its prefix ends, two whole keys
  with different prefixes are never equal (`ClosedPrefixesPart`,
  `KeysArePrivate`), and with one prefix they are equal only for equal keys. From
  this each command on the map of whole keys is the same command on the store
  of its client and leaves every other store alone. No strengthening of the
  type invariant is needed.
  *The database* (any replicas, migrations and faults): `ServesOnFullSchema`,
  which promises tables only with `migrate`, and `RecordsAreTrue`. `DatabaseInv` says that the plan of a replica is the end of
  the list with everything before it recorded (`PlansAreSuffixes`), and that at
  most one table is there without its record, which on MySQL belongs to the one
  replica about to record it or to nobody (`OneUnderWay`, `RecorderOwnsTable`).
  *The configuration* (any files, environments and paths): `OverridesAreExact`,
  `SecretsAreMasked`. `ConfInv` says that each value is the one of the file that
  has the last say on its path, or of the environment once its section has been
  looked up. What DSN masks of a value (`InMaskedPart`, as the code cuts it) is
  what `BetweenColonAndAt` says to a reader.
  *The deployment*: all of these of `DeliverySpec`, and that its clients share
  one Redis safely, because what configurations spell is what clients expect
  (`DeliveryAssumption`).
- **MakeGen_proofs** (any number of proto files, contents and runs; any routes,
  handlers, types and packages; any modules, imports and fields).
  *The files*: `FilesAreWhole`, `SuccessIsInSync`,
  `OnlyKillsBlockDocsgen`, from `GeneratorsInv`: the files a run has still to
  come to are as they were, the ones behind it are as generated or hand-written,
  and only a kill leaves litter. *Answers and schemas*: `ResponsesAsSent` and
  `RefsMeanTheirTypes`, from `HandlerInv`: for each status the document shows
  what was sent with it (`AnswersInv`), and as long as there is one type to
  infer, what was inferred is the type of the variable, or nothing was told
  (`TypesInv`); the stack of `typeSchema` is a way
  through the declarations that meets each struct at most once (`StackInv`), so
  that one longer than all declarations has come back to a type without meeting
  a struct and the program is the one that `Cyclic` describes; and the components
  are closed under what they refer to (`ComponentsInv`). *Routes*:
  `RoutesAsServed`, from `RoutesInv`: in every block that the walk follows, what
  it knows of a variable is the binding that the innermost scope gives it, unless
  a var has shadowed it, and, where no helper was called and no router declared
  by var, it knows all of them (`ScopesInv`); the paths found are then paths
  registered (`FoundInv`). *Modules*:
  `EveryModuleIsWired`, from `WiringInv`: the list of modules has one entry for
  each directory that was walked and asserts an interface, with the capabilities
  and the arguments that its sources ask for, and a failure has its cause in a
  directory that was walked. Under it stands a lemma about names: where the
  sources compile and no renamed import passes for another, the key modulegen
  writes a type as tells the types of a file apart as Go does, by the path the
  last import of that name has. *Parameters*: `QueryTypesFollowReads`, from
  `QueryInv`. The code gives one name one parameter for the whole body, which is
  right where the name has one meaning; where it has several, but only ifs
  declare it, the proof needs that the walk has the scopes of Go: the map of the
  i-th open if holds what the innermost of the ifs around it gave the name
  (`AsScoped`), although every second else if has no scope of its own.

**Assumptions.** The proofs made these explicit, next to the constants they are
about: the values that mark an absent row, file or binding are none of the rows,
contents or expressions (`GameStoreValues`, `GeneratorsAssumption`,
`RouteDocsAssumption`), and the two marks of an unknown type are no types
(`HandlerDocsAssumption`); a registration whose method docsgen reads serves that
method only (`RouteDocsAssumption`); files map paths of known names, and none is empty
(`ConfigurationAssumption`); a package declares finitely many types, as a
program does (`HandlerDocsAssumption`); GET is a method; the sources modulegen
reads compile, that is, a file has each name for one import only, every
qualified type has its import, and nobody imports `internal/app`; directories
are walked once, and the package in `internal/modules` is named as its directory
(`WiringAssumption`); what is no query parameter is none of them
(`QueryDocsAssumption`). TLC evaluates each of them in the runs.

**What the proofs found.** Two definitions said less than they should, because
`SUBSET S \ {{}}` is `SUBSET (S \ {{}})`: with the empty set among the
candidates `Cyclic` of `HandlerDocs` was true of every program, so that a crash
of docsgen was excused without a cycle, and `GameRows` had a delete of no ids,
which the code refuses (`game.go`, ErrIDs). Both are corrected, and the
properties hold as they were meant. The proof about modulegen needed two things
the model had left out and the sources of the runs never showed. A file that
imports two packages whose names modulegen takes for the same one (it goes by
the last element of the path, and the later import wins) has its assertion
overlooked and its module not mounted, without an error: the property says so
by its hypothesis `Unmistaken`, which is about the imports alone. And which of
several constructors decides depends on the order of a map of files, so only a
module with *each* of its constructors satisfiable is sure to be wired
(`CanBeWired`). The proof about docsgen showed that the model gave every else if
a scope, where the code gives one to every second.

Only model-checked:

- liveness: fairness and ENABLED are outside the prover;
- the two statements that the code violates (section 4), by counterexample.

## 6. Not modelled

Formatting and parsing (JSON, LIKE patterns, YAML, the DSN that `create.go`
writes to reach the server without its database), message texts, log output: no property speaks of them. That a log level is
compared without regard to case and that a driver is trimmed and lowered is
left out of `Configuration`. Localisation chooses the language of a request
once, from tables that never change. The template and its hooks run once, when
a project is created; what they decide are constants of the modules. How
docsgen resolves constants and error messages across packages, how configgen
names structs and how both print are pure functions of the sources without a
second party. Serving the files under `/docs` is a file server, and the
profiler and the exporter of traces are libraries. OpenTelemetry, pq, go-redis,
database servers, net/http and grpc are external and modelled by how this code
uses them. No row of `GameStore` carries times: `updated_at` is taken before
the statement waits for the row, so a later change may show an earlier time,
and no text promises an order. Nested transactions do not occur in the code.

## 7. Plan

Done: all modules of section 2, and the proofs of all their safety properties.
Next:

1. `NewClient`: dialling, health check and clean-up of a gRPC client, in
   `Lifecycle` as a resource that may fail.
