----------------------------- MODULE Migrations -----------------------------
(***************************************************************************)
(* The migration runner of crates/atrg-db: several processes that share a  *)
(* database each bring it up to date when they start, tracking table by    *)
(* tracking table, with neither a transaction around a migration and its   *)
(* record nor a lock against each other.  Each call to the database is a   *)
(* step.                                                                   *)
(*                                                                         *)
(* A migration is a version in a tracking table; its file consists of      *)
(* Statements statements, and schema says how many of them the database    *)
(* has executed, which are always the first ones.                          *)
(***************************************************************************)
EXTENDS Naturals, Sequences

CONSTANTS
    Processes,   \* applications and `atrg migrate`, sharing the database
    Tables,      \* tracking tables: _atrg_migrations, _app_migrations, ...
    Top,         \* versions are 1..Top (bound)
    Plan,        \* what each process runs: a sequence of Sources
    Statements,  \* statements in a migration file
    Backends,    \* what DbPool may be: "sqlite", "postgres"
    Guarded,     \* tables whose files say IF NOT EXISTS throughout
    Faults       \* crashes and database errors (bound)

Versions == 1..Top

\* The files of a directory or of the binary, and their tracking table.
Sources == [table : Tables, newest : 0..Top]

ASSUME MigrationsAssumption ==
    /\ Top \in Nat
    /\ Plan \in [Processes -> Seq(Sources) \ {<<>>}]
    /\ Statements \in Nat \ {0}
    /\ Backends \subseteq {"sqlite", "postgres"}
    /\ Guarded \subseteq Tables
    /\ Faults \in Nat

VARIABLES
    \* The database.
    backend,    \* which one it is
    schema,     \* statements executed so far, per table and version
    recorded,   \* the versions in each tracking table
    \* The processes.
    at,         \* what each is about to do, see Stages
    step,       \* which entry of its plan it works on
    applied,    \* the versions it found recorded when it looked
    version,    \* the migration it works on, 0 before the first
    stmt,       \* the statement of it that comes next
    \* Bound.
    faults

database == <<backend, schema, recorded>>
vars == <<backend, schema, recorded, at, step, applied, version, stmt, faults>>

Working == {"creating", "reading", "executing", "recording"}
Stages == Working \cup {"down", "ready", "failed"}

Table(p) == Plan[p][step[p]].table
Files(p) == 1..Plan[p][step[p]].newest

\* Every statement of the migration has been executed.
Complete(t, v) == schema[t][v] = Statements

Init ==
    /\ backend \in Backends
    /\ schema = [t \in Tables |-> [v \in Versions |-> 0]]
    /\ recorded = [t \in Tables |-> {}]
    /\ at = [p \in Processes |-> "down"]
    /\ step = [p \in Processes |-> 1]
    /\ applied = [p \in Processes |-> {}]
    /\ version = [p \in Processes |-> 0]
    /\ stmt = [p \in Processes |-> 1]
    /\ faults = 0

-----------------------------------------------------------------------------
(* One start-up *)

\* App::run or `atrg migrate` begins with the first entry of its plan.
Start(p) ==
    /\ at[p] \in {"down", "failed"}
    /\ at' = [at EXCEPT ![p] = "creating"]
    /\ step' = [step EXCEPT ![p] = 1]
    /\ applied' = [applied EXCEPT ![p] = {}]
    /\ version' = [version EXCEPT ![p] = 0]
    /\ stmt' = [stmt EXCEPT ![p] = 1]
    /\ UNCHANGED <<database, faults>>

\* CREATE TABLE IF NOT EXISTS for the tracking table: an empty table is as
\* good as none.
CreateTable(p) ==
    /\ at[p] = "creating"
    /\ at' = [at EXCEPT ![p] = "reading"]
    /\ UNCHANGED <<database, step, applied, version, stmt, faults>>

\* Mutant: nothing is taken for applied.
PendingAll(p, after, found) == {v \in Files(p) : v > after}

\* Mutant: the newest file is left out.
PendingButNewest(p, after, found) ==
    {v \in Files(p) : v > after /\ v \notin found /\ v + 1 \in Files(p)}

\* The migrations the loop still has to apply after version `after`.
Pending(p, after, found) == {v \in Files(p) : v > after /\ v \notin found}

\* Mutant: the newest pending migration comes first.
AdvanceNewestFirst(p, after, found) ==
    LET todo == Pending(p, after, found)
    IN  \/ /\ \E v \in todo :
                 /\ \A u \in todo : u <= v
                 /\ version' = [version EXCEPT ![p] = v]
           /\ at' = [at EXCEPT ![p] = "executing"]
           /\ UNCHANGED step
        \/ /\ todo = {}
           /\ step[p] < Len(Plan[p])
           /\ step' = [step EXCEPT ![p] = @ + 1]
           /\ at' = [at EXCEPT ![p] = "creating"]
           /\ version' = [version EXCEPT ![p] = 0]

\* The head of the loop: the next pending migration in order of version, or
\* the next table, or the end of the start-up.
Advance(p, after, found) ==
    LET todo == Pending(p, after, found)
    IN  \/ /\ \E v \in todo :
                 /\ \A u \in todo : v <= u
                 /\ version' = [version EXCEPT ![p] = v]
           /\ at' = [at EXCEPT ![p] = "executing"]
           /\ UNCHANGED step
        \/ /\ todo = {}
           /\ step[p] < Len(Plan[p])
           /\ step' = [step EXCEPT ![p] = @ + 1]
           /\ at' = [at EXCEPT ![p] = "creating"]
           /\ version' = [version EXCEPT ![p] = 0]
        \/ /\ todo = {}
           /\ step[p] = Len(Plan[p])
           /\ at' = [at EXCEPT ![p] = "ready"]
           /\ version' = [version EXCEPT ![p] = 0]
           /\ UNCHANGED step

\* SELECT version FROM the tracking table, once, before the loop.
ReadApplied(p) ==
    /\ at[p] = "reading"
    /\ applied' = [applied EXCEPT ![p] = recorded[Table(p)]]
    /\ Advance(p, 0, recorded[Table(p)])
    /\ stmt' = [stmt EXCEPT ![p] = 1]
    /\ UNCHANGED <<database, faults>>

\* A statement that is not guarded fails when its effect is already there.
Conflicts(p, s) ==
    /\ Table(p) \notin Guarded
    /\ s <= schema[Table(p)][version[p]]

\* The statements up to s have been executed, some of them perhaps before.
Reach(p, s) ==
    IF s <= schema[Table(p)][version[p]] THEN UNCHANGED schema
    ELSE schema' = [schema EXCEPT ![Table(p)][version[p]] = s]

\* Mutant: the file has one statement too many.
ExecuteOneMore(p) ==
    /\ at[p] = "executing"
    /\ backend = "sqlite"
    /\ ~Conflicts(p, stmt[p])
    /\ Reach(p, stmt[p])
    /\ IF stmt[p] <= Statements
       THEN stmt' = [stmt EXCEPT ![p] = @ + 1] /\ UNCHANGED at
       ELSE at' = [at EXCEPT ![p] = "recording"] /\ UNCHANGED stmt
    /\ UNCHANGED <<backend, recorded, step, applied, version, faults>>

\* Mutant: a prepared query, which runs the first statement only.
ExecutePrepared(p) ==
    /\ at[p] = "executing"
    /\ backend = "sqlite"
    /\ ~Conflicts(p, stmt[p])
    /\ Reach(p, stmt[p])
    /\ at' = [at EXCEPT ![p] = "recording"]
    /\ UNCHANGED <<backend, recorded, step, applied, version, stmt, faults>>

\* SQLite commits the statements of a file one by one.
ExecuteSqlite(p) ==
    /\ at[p] = "executing"
    /\ backend = "sqlite"
    /\ ~Conflicts(p, stmt[p])
    /\ Reach(p, stmt[p])
    /\ IF stmt[p] < Statements
       THEN stmt' = [stmt EXCEPT ![p] = @ + 1] /\ UNCHANGED at
       ELSE at' = [at EXCEPT ![p] = "recording"] /\ UNCHANGED stmt
    /\ UNCHANGED <<backend, recorded, step, applied, version, faults>>

\* PostgreSQL runs the statements of one simple query in one transaction.
ExecutePostgres(p) ==
    /\ at[p] = "executing"
    /\ backend = "postgres"
    /\ ~Conflicts(p, 1)
    /\ Reach(p, Statements)
    /\ at' = [at EXCEPT ![p] = "recording"]
    /\ UNCHANGED <<backend, recorded, step, applied, version, stmt, faults>>

\* The database rejects the migration: run_migrator returns the error, and the
\* process ends.
Rejected(p) ==
    /\ at[p] = "executing"
    /\ Conflicts(p, IF backend = "sqlite" THEN stmt[p] ELSE 1)
    /\ at' = [at EXCEPT ![p] = "failed"]
    /\ UNCHANGED <<database, step, applied, version, stmt, faults>>

\* INSERT INTO the tracking table, where version is the primary key: the
\* process fails if another one has recorded the migration meanwhile.
Record(p) ==
    /\ at[p] = "recording"
    /\ IF version[p] \in recorded[Table(p)]
       THEN /\ at' = [at EXCEPT ![p] = "failed"]
            /\ UNCHANGED <<recorded, step, version, stmt>>
       ELSE /\ recorded' = [recorded EXCEPT ![Table(p)] = @ \cup {version[p]}]
            /\ Advance(p, version[p], applied[p])
            /\ stmt' = [stmt EXCEPT ![p] = 1]
    /\ UNCHANGED <<backend, schema, applied, faults>>

\* A call to the database fails for reasons of its own.
DatabaseError(p) ==
    /\ faults < Faults
    /\ faults' = faults + 1
    /\ at[p] \in Working
    /\ at' = [at EXCEPT ![p] = "failed"]
    /\ UNCHANGED <<database, step, applied, version, stmt>>

\* The process is killed, or stopped in order to be started again.
Crash(p) ==
    /\ faults < Faults
    /\ faults' = faults + 1
    /\ at[p] \notin {"down", "failed"}
    /\ at' = [at EXCEPT ![p] = "down"]
    /\ UNCHANGED <<database, step, applied, version, stmt>>

-----------------------------------------------------------------------------

Execute(p) == ExecuteSqlite(p) \/ ExecutePostgres(p)
Step(p) == CreateTable(p) \/ ReadApplied(p) \/ Execute(p) \/ Rejected(p)
                          \/ Record(p)
Next == \E p \in Processes :
            Start(p) \/ Step(p) \/ DatabaseError(p) \/ Crash(p)

Spec == Init /\ [][Next]_vars

\* A process runs while it lives, and its supervisor starts it again.
FairSpec ==
    Spec /\ \A p \in Processes : WF_vars(Step(p)) /\ WF_vars(Start(p))

-----------------------------------------------------------------------------
(* Properties *)

\* Every variable has its type.
TypeOK ==
    /\ backend \in Backends
    /\ schema \in [Tables -> [Versions -> 0..Statements]]
    /\ recorded \in [Tables -> SUBSET Versions]
    /\ at \in [Processes -> Stages]
    /\ step \in [Processes -> Nat \ {0}]
    /\ \A p \in Processes : step[p] <= Len(Plan[p])
    /\ applied \in [Processes -> SUBSET Versions]
    /\ version \in [Processes -> 0..Top]
    /\ stmt \in [Processes -> 1..Statements]
    /\ faults \in 0..Faults

\* A recorded migration has been executed to its last statement: whatever the
\* crashes and the races, no start-up ever skips an unfinished one
\* (run_migrator_sqlite and run_migrator_postgres record after they execute).
RecordedIsComplete ==
    \A t \in Tables : \A v \in recorded[t] : Complete(t, v)

\* Migrations are executed in order: when any statement of one has been
\* executed, all earlier versions of the same table are complete, so a file
\* may rely on those before it, also under concurrent start-ups and failures.
ExecutedInOrder ==
    \A t \in Tables : \A v \in Versions :
        schema[t][v] > 0 => \A u \in 1..(v - 1) : Complete(t, u)

\* A process that serves requests, or reports success, has its whole schema
\* (App::run, `atrg migrate`).
ReadyIsMigrated ==
    \A p \in Processes : at[p] = "ready" =>
        \A i \in 1..Len(Plan[p]) :
            \A v \in 1..Plan[p][i].newest : Complete(Plan[p][i].table, v)

\* "Idempotent and safe to run on every startup": a start-up fails only when a
\* call to the database fails for reasons of its own (run_internal_migrations).
StartupSucceeds ==
    [][ \A p \in Processes :
          at'[p] = "failed" /\ at[p] # "failed" => faults' # faults ]_vars

\* A file that is not guarded was executed, in part or as a whole, and not
\* recorded.
Torn(t, v) == t \notin Guarded /\ schema[t][v] > 0 /\ v \notin recorded[t]

\* Once faults have ceased, every process that is started again whenever it
\* fails gets through its migrations, although start-ups race, unless a fault
\* left a file without guards executed and not recorded.
EventuallyReady ==
    \A p \in Processes :
        \/ []<>(at[p] = "ready")
        \/ <>[](\E t \in Tables, v \in Versions : Torn(t, v))
=============================================================================
