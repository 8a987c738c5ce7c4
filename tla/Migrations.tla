----------------------------- MODULE Migrations -----------------------------
(***************************************************************************)
(* The start of a server process (server/src/main.cpp, Database::init):    *)
(* it connects to the database, runs the migration files that              *)
(* schema_migrations does not list, each in a transaction together with    *)
(* the row that records it, and listens.  Two processes may start on one   *)
(* database, as when a server is restarted while the old one is still up;  *)
(* each may end after any statement, which rolls its transaction back.     *)
(*                                                                         *)
(* "schema" lists the files whose effects are in the database.  What a     *)
(* transaction has done is known from the phase of its process until it    *)
(* commits; PostgreSQL shows it to nobody else.                            *)
(***************************************************************************)
EXTENDS Integers, Sequences

CONSTANTS
    Process,      \* server processes that use the database
    Files,        \* how many *.sql files lie in migrations/
    Rerunnable,   \* files that run again without an error (CREATE OR REPLACE only)
    OldVersion    \* version that an earlier release may have left the database at

ASSUME MigrationsAssumption ==
    /\ Files \in Nat
    /\ OldVersion \in 0..Files
    /\ Rerunnable \subseteq 1..Files

VARIABLES
    versions,  \* rows of schema_migrations
    schema,    \* files whose effects are committed, in order
    phase,     \* where each process is
    current    \* currentVersion while init runs

migrationVars == <<versions, schema, phase, current>>

Phase == {"off", "connected", "migrating", "executed", "recorded", "serving", "cut off"}

-----------------------------------------------------------------------------
(* Values in a database with the rows vs. *)

\* SELECT MAX(version), which toInt makes 0 where it is null.
MaxVersion(vs) == IF vs = {} THEN 0 ELSE CHOOSE n \in vs : \A m \in vs : m <= n

nextVersion(p) == current[p] + 1

\* Process p has run file n and not yet committed it.
Pending(p, n) == phase[p] \in {"executed", "recorded"} /\ nextVersion(p) = n

\* Another transaction holds what file n creates: the statement waits for its end.
Blocked(p, n) == \E q \in Process \ {p} : Pending(q, n)

\* A file creates tables, types or triggers, which fails if they are there.
MayExecute(n) == n \in Rerunnable \/ \A i \in DOMAIN schema : schema[i] # n

\* The primary key of schema_migrations.
MayRecord_Upsert(n) == n \in 1..Files
MayRecord(n) == n \notin versions

\* The loop over the files has ended.
Finished_StopsShort(p) == phase[p] = "migrating" /\ nextVersion(p) >= Files
Finished(p) == phase[p] = "migrating" /\ current[p] >= Files

Serving(p) == phase[p] = "serving"

\* The port is taken by a process that listens, whether or not it still reaches the database.
Listening(p) == phase[p] \in {"serving", "cut off"}

-----------------------------------------------------------------------------
(* Steps of a process. *)

Enter(p, where) == phase' = [phase EXCEPT ![p] = where]

\* init ends, and with it its local currentVersion.
Leave(p, where) == Enter(p, where) /\ current' = [current EXCEPT ![p] = 0]

\* connect opens the database; a failure ends the process (main.cpp).
connect(p) ==
    /\ phase[p] = "off"
    /\ Enter(p, "connected")
    /\ UNCHANGED <<versions, schema, current>>

\* init creates schema_migrations if it is missing and reads its last version.
readVersion(p) ==
    /\ phase[p] = "connected"
    /\ current' = [current EXCEPT ![p] = MaxVersion(versions)]
    /\ Enter(p, "migrating")
    /\ UNCHANGED <<versions, schema>>

\* transaction() and the next file.
executeMigration(p) ==
    /\ phase[p] = "migrating"
    /\ current[p] < Files
    /\ ~Blocked(p, nextVersion(p))
    /\ MayExecute(nextVersion(p))
    /\ Enter(p, "executed")
    /\ UNCHANGED <<versions, schema, current>>

\* INSERT INTO schema_migrations, still in the transaction.
recordMigration(p) ==
    /\ phase[p] = "executed"
    /\ MayRecord(nextVersion(p))
    /\ Enter(p, "recorded")
    /\ UNCHANGED <<versions, schema, current>>

\* The database makes the file's effects and its row durable.
Committed(p) ==
    /\ phase[p] = "recorded"
    /\ versions' = versions \cup {nextVersion(p)}
    /\ schema' = Append(schema, nextVersion(p))

commitMigration(p) ==
    /\ Committed(p)
    /\ current' = [current EXCEPT ![p] = nextVersion(p)]
    /\ Enter(p, "migrating")

\* The connection ends during the commit: the process takes it for failed and
\* ends, although the database has committed.
commitUnanswered(p) ==
    /\ Committed(p)
    /\ Leave(p, "off")

\* A file or its row is refused because it is there already: init rolls back
\* and returns false, and main ends the process.
migrationRefused(p) ==
    /\ \/ /\ phase[p] = "migrating" /\ current[p] < Files
          /\ ~Blocked(p, nextVersion(p)) /\ ~MayExecute(nextVersion(p))
       \/ phase[p] = "executed" /\ ~MayRecord(nextVersion(p))
    /\ Leave(p, "off")
    /\ UNCHANGED <<versions, schema>>

\* init returns true and the server listens, or ends where the port is taken: all
\* processes are taken to have one port (main.cpp reads PORT, or uses 8080).
start(p) ==
    /\ Finished(p)
    /\ Leave(p, IF \E q \in Process : Listening(q) THEN "off" ELSE "serving")
    /\ UNCHANGED <<versions, schema>>

\* Any other failing statement, and the process being killed, while it starts.
startFails(p) ==
    /\ phase[p] \in {"connected", "migrating", "executed", "recorded"}
    /\ Leave(p, "off")
    /\ UNCHANGED <<versions, schema>>

\* A server loses its database: connect never opens it again, but the server runs on.
connectionLost(p) ==
    /\ Serving(p)
    /\ Enter(p, "cut off")
    /\ UNCHANGED <<versions, schema, current>>

\* A listening process ends.
stop(p) ==
    /\ Listening(p)
    /\ Leave(p, "off")
    /\ UNCHANGED <<versions, schema>>

-----------------------------------------------------------------------------

MigrationInit ==
    /\ \E v \in {0, OldVersion} :
           /\ versions = 1..v
           /\ schema = [n \in 1..v |-> n]
    /\ phase = [p \in Process |-> "off"]
    /\ current = [p \in Process |-> 0]

\* What a starting process does of its own.
Progress(p) ==
    \/ readVersion(p) \/ executeMigration(p) \/ recordMigration(p)
    \/ commitMigration(p) \/ migrationRefused(p) \/ start(p)

StartNext == \E p \in Process :
    connect(p) \/ Progress(p) \/ commitUnanswered(p) \/ startFails(p)

MigrationNext == StartNext \/ \E p \in Process : connectionLost(p) \/ stop(p)

MigrationSpec == MigrationInit /\ [][MigrationNext]_migrationVars

-----------------------------------------------------------------------------
(* Properties. *)

MigrationTypeOK ==
    /\ versions \subseteq 1..Files
    /\ schema \in Seq(1..Files)
    /\ phase \in [Process -> Phase]
    /\ current \in [Process -> 0..Files]

\* Every file has been executed once and in the order of the names, and
\* schema_migrations lists exactly the executed files (Database::init), also
\* with two processes at it, ends after any statement and unanswered commits.
SchemaRecorded ==
    /\ schema = [n \in 1..Len(schema) |-> n]
    /\ versions = 1..Len(schema)

\* A server answers requests only on the full schema (main.cpp ends it otherwise).
ServesFullSchema == \A p \in Process : Listening(p) => Len(schema) = Files

\* Two processes with one port never listen, and so never write the tables, at the
\* same time.
OneServer == \A p, q \in Process : Listening(p) /\ Listening(q) => p = q

=============================================================================
