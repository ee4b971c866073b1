----------------------------- MODULE AppStartup -----------------------------
(***************************************************************************)
(* AtrgApp of crates/atrg-core: what the builder was given, the steps of   *)
(* run in their order, any of which may fail, and the tasks they leave     *)
(* behind.  The processes use one atrg.toml, but each may bring its own    *)
(* database pool.  How a migration runs in detail is module Migrations;    *)
(* what the tasks do, JetstreamConsumer, FirehoseConsumer, RateLimiter and *)
(* OAuthSession; the provisioning of administrators, which cannot fail the *)
(* start, Rbac.                                                            *)
(***************************************************************************)
EXTENDS Naturals, Sequences

CONSTANTS
    Processes,
    Databases,
    Ports,
    Supported,  \* databases whose URL has the scheme of a backend that is compiled in
    Origins,    \* what cors_origins may list
    Unfit,      \* origins that are no header values
    Flaws,      \* fields that may be invalid: "name", "secret_key", "client_id", ...
    Sections,   \* of atrg.toml: among "jetstream", "firehose" and "rate_limit"
    Handlers    \* that may be given: among "jetstream", "firehose" and "cleanup"

\* A Config, as far as run looks at it.
Config == [url : Databases, port : Ports, origins : Origins, flaws : SUBSET Flaws,
           sections : SUBSET Sections]

AtMostOne(S) == {{}} \cup {{x} : x \in S}

VARIABLES
    toml,       \* atrg.toml: its config, nothing if it is missing or no TOML
    migrations, \* whether ./migrations is a directory
    built,      \* what with_db_pool, on_event, ... have been given
    stage,      \* the step of run that comes next
    config, pool,
    tasks,      \* background tasks that are running
    migrated    \* migrations that are applied, per database

vars == <<toml, migrations, built, stage, config, pool, tasks, migrated>>

Plain == [pool |-> {}, handlers |-> {}]

Init ==
    /\ toml \in AtMostOne(Config)
    /\ migrations \in BOOLEAN
    /\ built = [p \in Processes |-> Plain]
    /\ stage = [p \in Processes |-> "building"]
    /\ config = [p \in Processes |-> {}]
    /\ pool = [p \in Processes |-> {}]
    /\ tasks = [p \in Processes |-> {}]
    /\ migrated = {}

-----------------------------------------------------------------------------
(* Configuration *)

\* Config::validate; the rest of its checks are warnings.
Validate(c) == c.flaws = {} /\ c.origins \cap Unfit = {}

\* Config::load: reads, parses and validates the file.  run calls nothing else for the
\* configuration: it applies no override from the environment.
Loaded == {c \in toml : Validate(c)}

-----------------------------------------------------------------------------
(* The builder *)

\* connect: the backend is chosen by the URL's scheme, if it is compiled in.
Opens(db) == db \in Supported

WithDbPool(p, db) ==
    /\ stage[p] = "building" /\ Opens(db)
    /\ built' = [built EXCEPT ![p].pool = {db}]
    /\ UNCHANGED <<toml, migrations, stage, config, pool, tasks, migrated>>

\* on_event, on_firehose_event, with_cleanup_task.
Register(p, handler) ==
    /\ stage[p] = "building"
    /\ built' = [built EXCEPT ![p].handlers = @ \cup {handler}]
    /\ UNCHANGED <<toml, migrations, stage, config, pool, tasks, migrated>>

-----------------------------------------------------------------------------
(* run *)

Goto(p, next) == stage' = [stage EXCEPT ![p] = next]

\* run returns an error, or a signal ends the process: the runtime and all of
\* its tasks go with it.  run installs no handler of signals.
Exit(p) ==
    /\ stage[p] \notin {"building", "exited"}
    /\ Goto(p, "exited")
    /\ tasks' = [tasks EXCEPT ![p] = {}]
    /\ UNCHANGED <<toml, migrations, built, config, pool, migrated>>

LoadConfig(p) ==
    /\ stage[p] = "building"
    /\ IF Loaded = {} THEN Goto(p, "exited") /\ UNCHANGED config
       ELSE Goto(p, "connect") /\ config' = [config EXCEPT ![p] = Loaded]
    /\ UNCHANGED <<toml, migrations, built, pool, tasks, migrated>>

\* The pool that was given, whatever the configuration says.
Connect(p) ==
    LET url == {c.url : c \in config[p]}
        given == built[p].pool
    IN  /\ stage[p] = "connect"
        /\ IF given = {} /\ \E db \in url : ~Opens(db)
           THEN Goto(p, "exited") /\ UNCHANGED pool
           ELSE /\ Goto(p, "internal")
                /\ pool' = [pool EXCEPT ![p] = IF given # {} THEN given ELSE url]
        /\ UNCHANGED <<toml, migrations, built, config, tasks, migrated>>

\* Mutant: the migrations go to the configured database.
ConfiguredDatabase(p) == {c.url : c \in config[p]}

\* What the migrations are applied to.
Database(p) == pool[p]

\* run_internal_migrations
MigrateInternal(p) ==
    /\ stage[p] = "internal"
    /\ Goto(p, "application")
    /\ migrated' = migrated \cup {<<db, "internal">> : db \in Database(p)}
    /\ UNCHANGED <<toml, migrations, built, config, pool, tasks>>

\* run_isolated_migrations, if there are any.
MigrateApplication(p) ==
    /\ stage[p] = "application"
    /\ Goto(p, "assemble")
    /\ migrated' = IF migrations
                   THEN migrated \cup {<<db, "application">> : db \in Database(p)}
                   ELSE migrated
    /\ UNCHANGED <<toml, migrations, built, config, pool, tasks>>

\* build_cors_layer: no origins, any origin, or the listed ones; the layer of the
\* last takes no wildcard and panics.
HasCorsLayer(origins) == origins = {} \/ origins = {"*"} \/ "*" \notin origins

AssembleRouter(p) ==
    /\ stage[p] = "assemble"
    /\ IF \A c \in config[p] : HasCorsLayer(c.origins)
       THEN Goto(p, "rate_limit") ELSE Goto(p, "exited")
    /\ UNCHANGED <<toml, migrations, built, config, pool, tasks, migrated>>

\* The tasks a process starts: the one of the limiter by the configuration, the
\* consumers by configuration and handler, the cleanup by its handler.
Sectioned(p) == UNION {c.sections : c \in config[p]}
Wanted(p) ==
    (Sectioned(p) \cap {"rate_limit"})
        \cup (Sectioned(p) \cap built[p].handlers)
        \cup (built[p].handlers \cap {"cleanup"})

Order == <<"rate_limit", "jetstream", "firehose", "cleanup", "bind">>

\* The four places where run spawns.
Spawn(p) == \E i \in 1..4 :
    /\ stage[p] = Order[i]
    /\ tasks' = [tasks EXCEPT ![p] = @ \cup (Wanted(p) \cap {Order[i]})]
    /\ Goto(p, Order[i + 1])
    /\ UNCHANGED <<toml, migrations, built, config, pool, migrated>>

\* TcpListener::bind: fails, see Exit, if another process has the port.
Bind(p) ==
    /\ stage[p] = "bind"
    /\ \A q \in Processes : stage[q] = "serving" =>
           {c.port : c \in config[q]} # {c.port : c \in config[p]}
    /\ Goto(p, "serving")
    /\ UNCHANGED <<toml, migrations, built, config, pool, tasks, migrated>>

\* The program is started again.
Restart(p) ==
    /\ stage[p] = "exited"
    /\ Goto(p, "building")
    /\ built' = [built EXCEPT ![p] = Plain]
    /\ config' = [config EXCEPT ![p] = {}]
    /\ pool' = [pool EXCEPT ![p] = {}]
    /\ UNCHANGED <<toml, migrations, tasks, migrated>>

Next == \E p \in Processes :
    \/ \E db \in Databases : WithDbPool(p, db)
    \/ \E handler \in Handlers : Register(p, handler)
    \/ LoadConfig(p) \/ Connect(p) \/ MigrateInternal(p) \/ MigrateApplication(p)
    \/ AssembleRouter(p) \/ Spawn(p) \/ Bind(p) \/ Exit(p) \/ Restart(p)

Spec == Init /\ [][Next]_vars

-----------------------------------------------------------------------------
(* Properties *)

\* Neither a background task nor the server runs before the internal and the
\* application's migrations have been applied to the very database that the
\* process uses, whatever other processes did to it and whichever pool it was
\* given; a process that serves has started the tasks that were configured and
\* registered and no others, and one that has exited leaves none behind.  With a
\* file that is not valid, an address of another backend or a wildcard among
\* other origins no process has got as far as starting one.
WorkSeesTables ==
    \A p \in Processes :
        /\ tasks[p] # {} \/ stage[p] = "serving" =>
               /\ pool[p] \X {"internal"} \subseteq migrated
               /\ migrations => pool[p] \X {"application"} \subseteq migrated
               /\ pool[p] # {} /\ \A db \in pool[p] : Opens(db)
               /\ \A c \in toml : Validate(c) /\ HasCorsLayer(c.origins)
        /\ stage[p] = "serving" => tasks[p] = Wanted(p)
        /\ stage[p] = "exited" => tasks[p] = {}
=============================================================================
