-------------------------- MODULE StorageServices ---------------------------
(***************************************************************************)
(* The services that keep something for others: an application that        *)
(* starts, the cached dictionary, the records of a PDS, the labels of a    *)
(* labeler, generated code, and the migrations of two releases. Each is an *)
(* instance of its own module; they share no state in the code.            *)
(***************************************************************************)
EXTENDS Integers, Sequences

CONSTANTS
    AppProcesses, AppDatabases, AppSupported, AppPorts, AppOrigins, AppUnfit,
        AppFlaws, AppSections, AppHandlers,
    DictProcesses, DictMaxFaults,
    RepClients, RepClockIds, RepWidth, RepMaxMicros, RepMaxCalls,
    LabUris, LabLimits, LabMaxPage, LabMaxLabels,
    GenFiles, GenContents, GenSnake, GenKeywords, GenMaxEdits, GenMaxFaults,
    MigProcesses, MigTables, MigTop, MigPlan, MigStatements, MigBackends,
        MigGuarded, MigFaults

VARIABLES
    appToml, appMigrations, appBuilt, appStage, appConfig, appPool,
        appTasks, appMigrated,
    dictFile, dictOpener, dictLoad, dictAnswer, dictFaults, dictClashed,
    repMicros, repRecords, repNextKey, repCall, repDrawn, repUnheard,
    labTable, labCursor, labReceived, labEndSeen, labAsked,
    genInput, genDisk, genJob, genBefore, genEdits, genFaults,
    migBackend, migSchema, migRecorded, migAt, migStep, migApplied, migVersion,
        migStmt, migFaults

appVars == <<appToml, appMigrations, appBuilt, appStage, appConfig, appPool,
             appTasks, appMigrated>>
dictVars == <<dictFile, dictOpener, dictLoad, dictAnswer, dictFaults, dictClashed>>
repVars == <<repMicros, repRecords, repNextKey, repCall, repDrawn, repUnheard>>
labVars == <<labTable, labCursor, labReceived, labEndSeen, labAsked>>
genVars == <<genInput, genDisk, genJob, genBefore, genEdits, genFaults>>
migVars == <<migBackend, migSchema, migRecorded, migAt, migStep, migApplied,
             migVersion, migStmt, migFaults>>
storageVars == <<appVars, dictVars, repVars, labVars, genVars, migVars>>

App == INSTANCE AppStartup WITH
    Processes <- AppProcesses, Databases <- AppDatabases, Supported <- AppSupported,
    Ports <- AppPorts, Origins <- AppOrigins, Unfit <- AppUnfit, Flaws <- AppFlaws,
    Sections <- AppSections, Handlers <- AppHandlers,
    toml <- appToml, migrations <- appMigrations, built <- appBuilt,
    stage <- appStage, config <- appConfig, pool <- appPool, tasks <- appTasks,
    migrated <- appMigrated

Dict == INSTANCE DictCache WITH
    Processes <- DictProcesses, MaxFaults <- DictMaxFaults,
    file <- dictFile, opener <- dictOpener, load <- dictLoad, answer <- dictAnswer,
    faults <- dictFaults, clashed <- dictClashed

Repo == INSTANCE RepoClient WITH
    Clients <- RepClients, ClockIds <- RepClockIds, Width <- RepWidth,
    MaxMicros <- RepMaxMicros, MaxCalls <- RepMaxCalls,
    micros <- repMicros, records <- repRecords, nextKey <- repNextKey,
    call <- repCall, drawn <- repDrawn, unheard <- repUnheard

Labels == INSTANCE LabelStore WITH
    Uris <- LabUris, Limits <- LabLimits, MaxPage <- LabMaxPage,
    MaxLabels <- LabMaxLabels,
    table <- labTable, cursor <- labCursor, received <- labReceived,
    endSeen <- labEndSeen, asked <- labAsked

Gen == INSTANCE CodeGen WITH
    Files <- GenFiles, Contents <- GenContents, Snake <- GenSnake,
    Keywords <- GenKeywords, MaxEdits <- GenMaxEdits, MaxFaults <- GenMaxFaults,
    input <- genInput, disk <- genDisk, job <- genJob, before <- genBefore,
    edits <- genEdits, faults <- genFaults

Rolling == INSTANCE Migrations WITH
    Processes <- MigProcesses, Tables <- MigTables, Top <- MigTop, Plan <- MigPlan,
    Statements <- MigStatements, Backends <- MigBackends, Guarded <- MigGuarded,
    Faults <- MigFaults,
    backend <- migBackend, schema <- migSchema, recorded <- migRecorded, at <- migAt,
    step <- migStep, applied <- migApplied, version <- migVersion, stmt <- migStmt, faults <- migFaults

-----------------------------------------------------------------------------
(* What the proofs assume of the constants; numbers are numbers.             *)

\* The sections and the handlers that AtrgApp::run knows.
ASSUME AppAssumption ==
    /\ AppSections \subseteq {"jetstream", "firehose", "rate_limit"}
    /\ AppHandlers \subseteq {"jetstream", "firehose", "cleanup"}

\* A clock identifier has its own bits below the microseconds, which stay within
\* the other 54 of a TID until the year 2540.
TidsFit == (RepMaxMicros + 1) * RepClockIds <= RepWidth
ASSUME RepoAssumption ==
    RepMaxMicros \in Nat /\ RepClockIds \in Nat /\ RepWidth \in Nat /\ TidsFit

\* A subscriber may send any limit; an answer has a largest size.
ASSUME LabelsAssumption == LabLimits \subseteq Int /\ LabMaxPage \in Nat \ {0}

\* The definitions of a lexicon are a map by name.
ASSUME GenAssumption ==
    \A c \in GenContents : Gen!Parses(c) =>
        \A d, e \in c.defs : d.name = e.name => d = e

\* MigrationsAssumption for the instance.
ASSUME RollingAssumption ==
    /\ MigTop \in Nat
    /\ MigPlan \in [MigProcesses -> Seq(Rolling!Sources) \ {<<>>}]
    /\ MigStatements \in Nat \ {0}
    /\ MigBackends \subseteq {"sqlite", "postgres"}
    /\ MigGuarded \subseteq MigTables
    /\ MigFaults \in Nat

-----------------------------------------------------------------------------
(* The composition                                                          *)

StorageInit ==
    /\ App!Init /\ Dict!Init /\ Repo!Init /\ Labels!Init /\ Gen!Init
    /\ Rolling!Init

StorageNext ==
    \/ App!Next /\ UNCHANGED <<dictVars, repVars, labVars, genVars, migVars>>
    \/ Dict!Next /\ UNCHANGED <<appVars, repVars, labVars, genVars, migVars>>
    \/ Repo!Next /\ UNCHANGED <<appVars, dictVars, labVars, genVars, migVars>>
    \/ Labels!Next /\ UNCHANGED <<appVars, dictVars, repVars, genVars, migVars>>
    \/ Gen!Next /\ UNCHANGED <<appVars, dictVars, repVars, labVars, migVars>>
    \/ Rolling!Next /\ UNCHANGED <<appVars, dictVars, repVars, labVars, genVars>>

StorageSpec == StorageInit /\ [][StorageNext]_storageVars

-----------------------------------------------------------------------------
(* The services' properties, as they are stated in their modules.           *)

\* AppStartup: no task and no server works on a database before its migrations
\* were applied (AtrgApp::run).
WorkSeesTables == App!WorkSeesTables

\* DictCache: processes that download the dictionary at once leave it whole
\* (load_from_url).
LoadsAreWhole == Dict!LoadsAreWhole

\* RepoClient: what repeated calls leave behind at the PDS (RepoClient, Tid).
RetriesAddUp == Repo!RetriesAddUp

\* LabelStore: a subscriber that follows the cursor misses no label, and has what
\* the library answered for a subject (query_labels_handler, query_by_uri).
LabelsArrive == Labels!SubscriberMissesNothing /\ Labels!SubscriberHasTheAnswer

\* CodeGen: the generated files are there, are of one reading of the lexicons,
\* and read what conforms to them (generate).
GeneratedHangsTogether == Gen!GeneratedHangsTogether

\* Migrations: two releases that start side by side on PostgreSQL execute their
\* files in order and completely (run_isolated_migrations).
RollingReleases == Rolling!ExecutedInOrder /\ Rolling!ReadyIsMigrated
=============================================================================
