------------------------------- MODULE Delivery -------------------------------
(***************************************************************************)
(* From the configuration files to an application that serves: docsgen     *)
(* writes its document under the environment of the build, each replica of *)
(* the server loads the same files under its own (New of                   *)
(* internal/app/app.go), and what comes out decides how the replicas bring *)
(* up the database (New of internal/infra/db/database.go) and under which  *)
(* prefix they share a Redis server with other services (New of            *)
(* internal/infra/rds/redis.go).  The replicas of a deployment have one    *)
(* configuration, so it is computed once.  Pages under /docs are made      *)
(* after the connections, but of the configuration alone.                  *)
(***************************************************************************)
EXTENDS Configuration, Startup, RedisKeys

CONSTANT Spelled  \* the characters of the values of redis.prefix

VARIABLE stage  \* "configuring", "database", "up", "redis" or "refused"


DriverPath == <<"database", "driver">>
DsnPath == <<"database", "dsn">>
AutoCreatePath == <<"database", "autoCreate">>
MigratePath == <<"database", "migrate">>
PrefixPath == <<"redis", "prefix">>

deliveryVars == <<confVars, vars, redisVars, stage>>

\* This service is one of those that are configured for the Redis server.
PrefixesOf(d) ==
  {d.files[k][PrefixPath] : k \in {i \in DOMAIN d.files : PrefixPath \in DOMAIN d.files[i]}}
  \cup {e[NameOf(PrefixPath)] :
          e \in {o \in {<<>>, d.build, d.run} : NameOf(PrefixPath) \in DOMAIN o}}

ASSUME DeliveryAssumption ==
  {<<>>} \cup {Spelled[v] : v \in UNION {PrefixesOf(d) : d \in Deployments}} \subseteq Configured

DeliveryInit ==
  /\ ConfInit
  /\ driver = "none" /\ autoCreate = FALSE /\ migrate = FALSE /\ DatabaseInit
  /\ exists => "database" \in deployment.parts
  /\ RedisInit
  /\ stage = "configuring"
-----------------------------------------------------------------------------
\* make api, with the environment of the build; then the server, if there is one.
Launch == \/ conf = "idle" /\ StartProcess("docsgen")
          \/ conf = "done" /\ purpose = "docsgen" /\ StartProcess("server")

Configure == /\ stage = "configuring" /\ (Launch \/ ConfNext)
             /\ UNCHANGED <<vars, redisVars, stage>>

ReadyToConnect == stage = "configuring" /\ conf = "done" /\ purpose = "server"

WithoutDatabase == /\ ReadyToConnect /\ "database" \notin deployment.parts
                   /\ stage' = "up"
                   /\ UNCHANGED <<confVars, vars, redisVars>>

Given(path, map) == path \in DOMAIN map /\ map[path] # ""
IsTrue(path) == path \in DOMAIN values /\ values[path] = "true"

\* An unknown driver or a missing DSN is refused before anything is opened.
OpenDatabase ==
  /\ ReadyToConnect /\ "database" \in deployment.parts
  /\ IF Given(DriverPath, values) /\ values[DriverPath] \in Drivers /\ Given(DsnPath, values)
     THEN /\ driver' = values[DriverPath]
          /\ autoCreate' = IsTrue(AutoCreatePath)
          /\ migrate' = IsTrue(MigratePath)
          /\ stage' = "database"
     ELSE stage' = "refused" /\ UNCHANGED config
  /\ UNCHANGED <<confVars, database, pc, todo, faults, redisVars>>

Database(r) == /\ stage = "database"
               /\ (Step(r) \/ Fault(r))
               /\ UNCHANGED <<confVars, redisVars, stage>>

DatabaseIsUp == /\ stage = "database" /\ \A r \in Replica : pc[r] = "up"
                /\ stage' = "up"
                /\ UNCHANGED <<confVars, vars, redisVars>>

ThisPrefix == IF PrefixPath \in DOMAIN values THEN Spelled[values[PrefixPath]] ELSE <<>>

\* newClient of this service; its DSN may be missing or the server may not answer.
OpenRedis ==
  /\ stage = "up" /\ "redis" \in deployment.parts
  /\ \/ Open(ThisPrefix) /\ stage' = "redis"
     \/ stage' = "refused" /\ UNCHANGED redisVars
  /\ UNCHANGED <<confVars, vars>>

\* This service and others that share the server.
Redis == /\ stage = "redis" /\ RedisNext
         /\ UNCHANGED <<confVars, vars, stage>>

\* The build or the start is refused, or there is nothing left to bring up.
Rest == /\ \/ conf = "failed"
           \/ stage = "refused"
           \/ stage = "up" /\ "redis" \notin deployment.parts
        /\ UNCHANGED deliveryVars

DeliveryNext == \/ Configure \/ WithoutDatabase \/ OpenDatabase \/ DatabaseIsUp
                \/ \E r \in Replica : Database(r)
                \/ OpenRedis \/ Redis \/ Rest

\* The make targets run to their end; processes run and are started again.
DeliverySpec ==
  /\ DeliveryInit /\ [][DeliveryNext]_deliveryVars
  /\ WF_deliveryVars(Configure) /\ WF_deliveryVars(OpenDatabase)
  /\ \A r \in Replica : WF_deliveryVars(Step(r) /\ Database(r))
-----------------------------------------------------------------------------
\* What a start needs of the files and an environment.
NumberIn(environment, path) == IF InFiles(path) THEN Value[ExpectedIn(environment, path)]
                               ELSE Value[""]

Usable(environment, numbers) ==
  /\ \A path \in numbers : NumberIn(environment, path).numeric
  /\ \A path \in {MaxP, MaxS} : NumberIn(environment, path).number \in 0 .. 2147483647

SoundFiles == /\ dir # <<>> /\ \A k \in DOMAIN dir : dir[k] # Malformed
              /\ Usable(deployment.build, {MaxP, MaxS})
              /\ Usable(deployment.run, {MaxP, MaxS} \cup ServerNumbers)
              /\ InFiles(Level)
              /\ ExpectedIn(deployment.run, Level) \in {"debug", "info", "warn", "error"}

SoundDatabase ==
  /\ InFiles(DriverPath) /\ ExpectedIn(deployment.run, DriverPath) \in Drivers
  /\ InFiles(DsnPath) /\ ExpectedIn(deployment.run, DsnPath) # ""
  /\ exists \/ (InFiles(AutoCreatePath) /\ ExpectedIn(deployment.run, AutoCreatePath) = "true")

(***************************************************************************)
(* A deployment whose files and environments are in order comes up by      *)
(* itself: the override of the environment is what counts, and however the *)
(* replicas collide on the missing database or the migrations and          *)
(* whichever fault interrupts them, each of them serves in the end, unless *)
(* a table is left that nobody recorded (migrate.go:31; RecordsAreTrue     *)
(* says that only MySQL leaves one).  Without database.migrate "serves"     *)
(* says nothing of the tables (ServesOnFullSchema).                        *)
(***************************************************************************)
SoundDeploymentGetsUp ==
  "database" \in deployment.parts /\ SoundFiles /\ SoundDatabase =>
    \A r \in Replica : <>(pc[r] = "up" \/ Orphan)
-----------------------------------------------------------------------------
\* The inductive invariant of the proofs: nobody touches a database before there is a
\* configuration, and replicas know which one it is and whether to migrate it.
DeliveryInv == /\ ConfInv /\ DatabaseInv
               /\ IF stage = "configuring"
                  THEN driver = "none" /\ \A r \in Replica : pc[r] = "ping"
                  ELSE conf = "done"
               /\ stage = "database" => driver \in Drivers
=============================================================================
