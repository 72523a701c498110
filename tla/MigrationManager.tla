--------------------------- MODULE MigrationManager ---------------------------
(***************************************************************************)
(* Migrations of a database (syntavra_runtime/migrations.py) by several     *)
(* processes that start at the same time: each plans, copies a backup and   *)
(* then applies what it has planned in one transaction; a process that      *)
(* fails puts its backup back, an operator any backup, and neither asks     *)
(* who else is at work.  Putting a backup back replaces the file: who has   *)
(* the old one open commits to a file that nobody will read.                *)
(*                                                                          *)
(* A backup is made and put back in one step each.                          *)
(***************************************************************************)
EXTENDS Integers, FiniteSets

CONSTANTS
    Migrator,      \* processes
    LatestVersion, \* the highest version
    MaxBackups     \* bound: different backups

ASSUME MigrationAssumption == LatestVersion \in Nat

VARIABLES
    database,  \* the file: syntavra_schema_migrations, user_version, how often each
               \* migration ran on it, whether a call that a restore had overtaken
               \* has committed to it
    kept,      \* the backups
    migrating  \* where each process is in apply: what it has planned, its backup,
               \* whether the file was replaced since it planned

migrationVars == <<database, kept, migrating>>

-----------------------------------------------------------------------------
Version == 1 .. LatestVersion
Empty == [applied |-> {}, user_version |-> 0, ran |-> [v \in Version |-> 0], patched |-> FALSE]
NotMigrating == [at |-> "none", current |-> 0, target |-> 0, backup |-> Empty, overtaken |-> FALSE]

MigrationInit ==
    /\ database = Empty
    /\ kept = {}
    /\ migrating = [m \in Migrator |-> NotMigrating]

CurrentVersion(db) == IF db.applied = {} THEN 0 ELSE CHOOSE v \in db.applied : \A w \in db.applied : w <= v

Planned(m) == migrating[m].current + 1 .. migrating[m].target

\* plan, up to a target version.
PlanMigration(m, target) ==
    /\ migrating[m] = NotMigrating
    /\ CurrentVersion(database) < target
    /\ migrating' = [migrating EXCEPT ![m] =
          [NotMigrating EXCEPT !.at = "backup", !.current = CurrentVersion(database),
                               !.target = target]]
    /\ UNCHANGED <<database, kept>>

BackUpDatabase(m) ==
    /\ migrating[m].at = "backup"
    /\ Cardinality(kept \cup {database}) <= MaxBackups
    /\ kept' = kept \cup {database}
    /\ migrating' = [migrating EXCEPT ![m].at = "open", ![m].backup = database]
    /\ UNCHANGED database

OpenDatabase(m) ==
    /\ migrating[m].at = "open"
    /\ migrating' = [migrating EXCEPT ![m].at = "apply"]
    /\ UNCHANGED <<database, kept>>

\* Fault: what was planned is applied.
DueAsPlanned(m) == Planned(m)

\* Another process may have applied it since.
Due(m) == Planned(m) \ database.applied

\* The immediate transaction.
ApplyMigrations(m) ==
    /\ migrating[m].at = "apply"
    /\ database' = [applied |-> database.applied \cup Planned(m),
                    user_version |-> migrating[m].target,
                    ran |-> [v \in Version |-> database.ran[v] + IF v \in Due(m) THEN 1 ELSE 0],
                    patched |-> database.patched \/ migrating[m].overtaken]
    /\ migrating' = [migrating EXCEPT ![m].at = "check"]
    /\ UNCHANGED kept

\* The same transaction on a file that has been replaced since it was opened.
ApplyToReplaced(m) ==
    /\ migrating[m].at = "replaced"
    /\ migrating' = [migrating EXCEPT ![m].at = "check"]
    /\ UNCHANGED <<database, kept>>

\* The integrity check and the receipt.
MigrationSucceeds(m) ==
    /\ migrating[m].at = "check"
    /\ migrating' = [migrating EXCEPT ![m] = NotMigrating]
    /\ UNCHANGED <<database, kept>>

\* A migration, the lock, the commit or the integrity check fails.
MigrationFails(m) ==
    /\ migrating[m].at \in {"open", "apply", "replaced", "check"}
    /\ migrating' = [migrating EXCEPT ![m].at = "restore"]
    /\ UNCHANGED <<database, kept>>

\* What a restore does to the calls of others.
Overtake(state) ==
    IF state = NotMigrating THEN state
    ELSE [state EXCEPT !.at = IF @ = "apply" THEN "replaced" ELSE @, !.overtaken = TRUE]

RestoreBackup(m) ==
    /\ migrating[m].at = "restore"
    /\ database' = migrating[m].backup
    /\ migrating' = [n \in Migrator |-> IF n = m THEN NotMigrating ELSE Overtake(migrating[n])]
    /\ UNCHANGED kept

\* rollback, to any backup.
RollbackMigration ==
    /\ database' \in kept
    /\ migrating' = [n \in Migrator |-> Overtake(migrating[n])]
    /\ UNCHANGED kept

MigrationDies(m) ==
    /\ migrating[m] # NotMigrating
    /\ migrating' = [migrating EXCEPT ![m] = NotMigrating]
    /\ UNCHANGED <<database, kept>>

MigrationNext ==
    \/ RollbackMigration
    \/ \E m \in Migrator :
          \/ \E target \in Version : PlanMigration(m, target)
          \/ BackUpDatabase(m) \/ OpenDatabase(m) \/ ApplyMigrations(m) \/ ApplyToReplaced(m)
          \/ MigrationSucceeds(m) \/ MigrationFails(m) \/ RestoreBackup(m) \/ MigrationDies(m)

MigrationSpec == MigrationInit /\ [][MigrationNext]_migrationVars

-----------------------------------------------------------------------------
\* However many processes have planned the same migrations, and whatever failed or was
\* restored beside them: each migration has run exactly once on the database that
\* records it; on a database that had all the earlier ones, unless a call has committed
\* to it that planned before a restore; and what a call has committed is there until
\* somebody restores.
MigratedOnce ==
    /\ \A v \in Version : database.ran[v] = IF v \in database.applied THEN 1 ELSE 0
    /\ ~database.patched => database.applied = 1 .. CurrentVersion(database)
    /\ \A m \in Migrator : migrating[m].at = "check" /\ ~migrating[m].overtaken
          => Planned(m) \subseteq database.applied
=============================================================================
