------------------------------ MODULE Migrations ------------------------------
(***************************************************************************)
(* Database.connect() and _apply_migrations() (storage/database.py) with   *)
(* the statements of storage/migrations.py, for the processes that open    *)
(* the same file: the service and the commands of the technician CLI.      *)
(*                                                                         *)
(* sqlite3 opens a transaction before an INSERT and not before a CREATE:   *)
(* every CREATE is committed by itself, the version by the commit at the   *)
(* end.  A process may be killed, or fail on a locked database, anywhere.  *)
(***************************************************************************)
EXTENDS Integers, Sequences

CONSTANTS
  None,        \* no process
  Openers,     \* the processes
  Statements   \* SCHEMA_STATEMENTS, then INDEX_STATEMENTS: what each creates

ASSUME MigrationsAssumption ==
  /\ None \notin Openers
  /\ Len(Statements) \in Nat \ {0} /\ DOMAIN Statements = 1..Len(Statements)

VARIABLES
  schema,    \* the tables and indexes that exist
  versions,  \* rows of schema_version; every one holds SCHEMA_VERSION
  holder,    \* the process with an uncommitted INSERT, or None
  opening    \* where each process is in connect(), and the statements it has run

migration == <<schema, versions, holder, opening>>

Step(at, ran) == [at |-> at, ran |-> ran]

InitMigrations ==
  /\ schema = {} /\ versions = 0 /\ holder = None
  /\ opening = [p \in Openers |-> Step("closed", 0)]

Connect(p) ==
  /\ opening[p].at = "closed"
  /\ opening' = [opening EXCEPT ![p] = Step("table", 0)]
  /\ UNCHANGED <<schema, versions, holder>>

\* CREATE TABLE IF NOT EXISTS waits for the lock only if it has to write.
CreateVersionTable(p) ==
  /\ opening[p].at = "table"
  /\ holder = None \/ "schema_version" \in schema
  /\ schema' = schema \cup {"schema_version"}
  /\ opening' = [opening EXCEPT ![p] = Step("select", 0)]
  /\ UNCHANGED <<versions, holder>>

\* Mutant: the table with the version is taken for the version.
current_by_table == "schema_version" \in schema /\ schema # {"schema_version"}
\* current >= SCHEMA_VERSION
current == versions > 0

SelectVersion(p) ==
  /\ opening[p].at = "select"
  /\ opening' = [opening EXCEPT ![p] = Step(IF current THEN "open" ELSE "create", 0)]
  /\ UNCHANGED <<schema, versions, holder>>

\* The next of the statements; after the last one comes the version.
Execute(p) ==
  LET ran == opening[p].ran + 1 IN
  /\ opening[p].at = "create"
  /\ holder = None \/ Statements[ran] \in schema
  /\ schema' = schema \cup {Statements[ran]}
  /\ opening' = [opening EXCEPT ![p] =
                   Step(IF ran = Len(Statements) THEN "insert" ELSE "create", ran)]
  /\ UNCHANGED <<versions, holder>>

\* schema_version has no key, so that INSERT OR REPLACE never replaces.
InsertVersion(p) ==
  /\ opening[p].at = "insert"
  /\ holder = None
  /\ holder' = p
  /\ opening' = [opening EXCEPT ![p].at = "commit"]
  /\ UNCHANGED <<schema, versions>>

Commit(p) ==
  /\ opening[p].at = "commit"
  /\ versions' = versions + 1
  /\ holder' = None
  /\ opening' = [opening EXCEPT ![p].at = "open"]
  /\ UNCHANGED schema

\* close(), a kill or an exception: an uncommitted INSERT is rolled back.
Leave(p) ==
  /\ opening[p].at # "closed"
  /\ holder' = IF holder = p THEN None ELSE holder
  /\ opening' = [opening EXCEPT ![p] = Step("closed", 0)]
  /\ UNCHANGED <<schema, versions>>

Migrate(p) == \/ CreateVersionTable(p) \/ SelectVersion(p) \/ Execute(p)
              \/ InsertVersion(p) \/ Commit(p)

MigrationsNext == \E p \in Openers : Connect(p) \/ Migrate(p) \/ Leave(p)

MigrationsSpec == InitMigrations /\ [][MigrationsNext]_migration
-------------------------------------------------------------------------------
Created == {Statements[k] : k \in 1..Len(Statements)} \cup {"schema_version"}

\* The variables have their types; at most one process holds the lock, and it
\* is the one about to commit.
MigrationsTypeOK ==
  /\ schema \subseteq Created /\ versions \in Nat
  /\ holder \in Openers \cup {None}
  /\ opening \in [Openers -> [at: {"closed", "table", "select", "create", "insert",
                                   "commit", "open"}, ran: 0..Len(Statements)]]
  /\ \A p \in Openers : opening[p].at = "commit" <=> holder = p

\* migrations.py: "the storage layer always has the full schema".  However the
\* openers interleave and wherever they are killed, a recorded version means that
\* every table and index exists, and no process works on a database without them.
SchemaComplete ==
  versions > 0 \/ (\E p \in Openers : opening[p].at = "open") => schema = Created
==============================================================================
