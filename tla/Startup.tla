------------------------------ MODULE Startup ------------------------------
(***************************************************************************)
(* Replicas that start together bring up one database: New of              *)
(* internal/infra/db/database.go, createDatabase and isMissingDatabase of  *)
(* create.go and MigrateUp of migrate.go.  A start that fails ends the     *)
(* process, and whatever supervises it starts it again.  The database and  *)
(* sql-migrate are external: sql-migrate reads which migrations are        *)
(* recorded and then applies the others in order, taking no lock; a        *)
(* migration and its record are one transaction in Postgres, while MySQL   *)
(* commits each CREATE TABLE by itself.                                    *)
(***************************************************************************)
EXTENDS Naturals, FiniteSets

CONSTANTS Replica,
          Migrations,  \* there are Migrations of them, applied in order
          Drivers,     \* the databases: "postgres", "mysql"
          MaxFaults    \* bound on lost connections and killed processes

ASSUME StartupAssumption ==
  /\ Migrations \in Nat /\ MaxFaults \in Nat
  /\ Drivers \subseteq {"postgres", "mysql"}

Migration == 1 .. Migrations

VARIABLES driver,   \* the database of this deployment
          autoCreate, \* database.autoCreate
          migrate,  \* database.migrate, in a project generated with migrations
          exists,   \* the database exists
          tables,   \* the migrations whose tables exist
          records,  \* the migrations recorded in schema_migrations
          pc,       \* where each replica is
          todo,     \* the migrations it has planned and not yet done
          faults

config == <<driver, autoCreate, migrate>>
vars == <<config, exists, tables, records, pc, todo, faults>>

DatabaseTypeOK ==
  /\ exists \in BOOLEAN
  /\ tables \subseteq Migration /\ records \subseteq Migration
  /\ pc \in [Replica -> {"ping", "create", "again", "plan", "apply", "record",
                         "up", "failed"}]
  /\ todo \in [Replica -> SUBSET Migration]
  /\ faults \in 0 .. MaxFaults

TypeOK ==
  /\ driver \in Drivers /\ autoCreate \in BOOLEAN /\ migrate \in BOOLEAN
  /\ DatabaseTypeOK

DatabaseInit ==
  /\ exists \in BOOLEAN
  /\ \E n \in 0 .. Migrations : /\ exists \/ n = 0
                                /\ tables = 1 .. n /\ records = 1 .. n
  /\ pc = [r \in Replica |-> "ping"]
  /\ todo = [r \in Replica |-> {}]
  /\ faults = 0

Init ==
  /\ driver \in Drivers /\ autoCreate \in BOOLEAN /\ migrate \in BOOLEAN
  /\ DatabaseInit
  /\ ~exists => autoCreate

Goto(r, label) == pc' = [pc EXCEPT ![r] = label]
database == <<exists, tables, records>>
-----------------------------------------------------------------------------
\* Only with database.migrate does New look at the migrations.
Connected == IF migrate THEN "plan" ELSE "up"

\* The first ping.  Only "the database is missing" leads to createDatabase.
Ping(r) ==
  /\ pc[r] = "ping"
  /\ Goto(r, IF exists THEN Connected ELSE IF autoCreate THEN "create" ELSE "failed")
  /\ UNCHANGED <<config, database, todo, faults>>

\* That another replica was faster is no error: IF NOT EXISTS in MySQL; in Postgres
\* the error 42P04 counts as success.
Create(r) ==
  /\ pc[r] = "create"
  /\ exists' = TRUE
  /\ Goto(r, "again")
  /\ UNCHANGED <<config, tables, records, todo, faults>>

PingAgain(r) ==
  /\ pc[r] = "again"
  /\ Goto(r, IF exists THEN Connected ELSE "failed")
  /\ UNCHANGED <<config, database, todo, faults>>

\* Broken variant: the records are not looked at.
Planned_All == Migration
\* Broken variant: only the newest of the missing migrations.
Planned_Newest == {m \in Migration \ records : \A n \in Migration : n <= m}
Planned == Migration \ records

Plan(r) ==
  /\ pc[r] = "plan"
  /\ todo' = [todo EXCEPT ![r] = Planned]
  /\ Goto(r, IF Planned = {} THEN "up" ELSE "apply")
  /\ UNCHANGED <<config, database, faults>>

Current(r) == CHOOSE m \in todo[r] : \A n \in todo[r] : m <= n

Done(r) == /\ todo' = [todo EXCEPT ![r] = @ \ {Current(r)}]
           /\ Goto(r, IF todo[r] = {Current(r)} THEN "up" ELSE "apply")

\* New closes the database and the process ends.
AfterError(r) == Goto(r, "failed") /\ UNCHANGED todo

\* CREATE TABLE fails when the table is there already.
Apply(r) ==
  /\ pc[r] = "apply"
  /\ IF Current(r) \in tables
     THEN AfterError(r) /\ UNCHANGED database
     ELSE /\ tables' = tables \cup {Current(r)}
          /\ IF driver = "postgres"
             THEN records' = records \cup {Current(r)} /\ Done(r)
             ELSE Goto(r, "record") /\ UNCHANGED <<records, todo>>
          /\ UNCHANGED exists
  /\ UNCHANGED <<config, faults>>

Record(r) ==
  /\ pc[r] = "record"
  /\ records' = records \cup {Current(r)}
  /\ Done(r)
  /\ UNCHANGED <<config, exists, tables, faults>>

\* A connection is lost, a timeout passes or the process is killed.
Fault(r) ==
  /\ pc[r] # "failed" /\ faults < MaxFaults
  /\ faults' = faults + 1
  /\ Goto(r, "failed")
  /\ UNCHANGED <<config, database, todo>>

Restart(r) ==
  /\ pc[r] = "failed"
  /\ Goto(r, "ping")
  /\ todo' = [todo EXCEPT ![r] = {}]
  /\ UNCHANGED <<config, database, faults>>

AllUp == (\A r \in Replica : pc[r] = "up") /\ UNCHANGED vars

Step(r) == \/ Ping(r) \/ Create(r) \/ PingAgain(r) \/ Plan(r) \/ Apply(r) \/ Record(r)
           \/ Restart(r)

Next == AllUp \/ \E r \in Replica : Step(r) \/ Fault(r)

Spec == Init /\ [][Next]_vars

-----------------------------------------------------------------------------
(***************************************************************************)
(* A replica that serves has its database, and with database.migrate it    *)
(* finds every table (database.go:83-88): it never goes on after a         *)
(* migration failed, and never before another replica has finished the one *)
(* it saw as missing.  Without database.migrate nobody looks: the replica  *)
(* serves on the tables there are, which may be none, and adds none.       *)
(***************************************************************************)
ServesOnFullSchema ==
  \A r \in Replica : pc[r] = "up" => exists /\ (migrate => tables = Migration)

InOrder(s) == \A m \in s : 1 .. m \subseteq s

(***************************************************************************)
(* What schema_migrations says is true, and it is complete but for one     *)
(* migration under way in MySQL: they are applied in order and once.       *)
(***************************************************************************)
RecordsAreTrue ==
  /\ records \subseteq tables /\ InOrder(records) /\ InOrder(tables)
  /\ Cardinality(tables \ records) <= (IF driver = "mysql" THEN 1 ELSE 0)

-----------------------------------------------------------------------------
(* The inductive invariant of the proofs. *)

\* At most one migration is under way, and none where it is one transaction.
OneUnderWay ==
  /\ records \subseteq tables /\ InOrder(records) /\ InOrder(tables)
  /\ \A m, n \in tables \ records : m = n
  /\ driver # "mysql" => tables = records

\* What a replica has left to do is the end of the list, and the rest is recorded.
PlansAreSuffixes ==
  \A r \in Replica : pc[r] \in {"apply", "record"} =>
    /\ todo[r] # {} /\ Migration \ todo[r] \subseteq records
    /\ \A m \in todo[r] : m .. Migrations \subseteq todo[r]

\* The table under way belongs to the one replica that is about to record it.
RecorderOwnsTable ==
  \A r \in Replica : pc[r] = "record" =>
    /\ driver = "mysql" /\ Current(r) \in tables \ records
    /\ \A s \in Replica : pc[s] = "record" => s = r

Positions ==
  \A r \in Replica : /\ pc[r] \in {"again", "plan", "apply", "record", "up"} => exists
                     /\ pc[r] = "up" /\ migrate => records = Migration

DatabaseInv == /\ DatabaseTypeOK /\ OneUnderWay /\ PlansAreSuffixes
               /\ RecorderOwnsTable /\ Positions

\* A table that nobody will record any more: every later start fails on it.
Orphan == \E m \in tables \ records :
            \A r \in Replica : ~(pc[r] = "record" /\ Current(r) = m)
=============================================================================
