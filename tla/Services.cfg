\* The services, one at a time.
CONSTANTS
    Null = Null
    NoHandle = "none"
    \* RateLimiter
    Ips = {i1}
    Unit = 3
    Burst = 8
    Rate = 2
    MaxAge = 3
    MaxTime = 8
    \* OtpCodes
    OtpMembers = {"m1", "m2"}
    OtpDrawn = {"c1"}
    OtpVerifiers = {"v1", "v2"}
    OtpLifetime = 1
    OtpMaxSends = 2
    OtpMaxTime = 2
    \* IdentityCache
    IdDids = {"d1", "d2"}
    IdHandles = {"h1"}
    IdResolvers = {"r1", "r2"}
    IdMaxChanges = 1
    \* LabelStore
    LabUris = {"u1", "u2"}
    LabLimits = {0, 1, 9}
    LabMaxPage = 2
    LabMaxLabels = 4
    \* ApiKeys
    KeyKeys = {"k1", "k2"}
    KeyPrefixOf <- MCPrefixOf
    KeyDids = {"alice", "bob"}
    KeyJwts <- MCJwts
    KeySessionOf <- MCSessionOf
    KeyRequests = {"q1"}
    KeyMaxTime = 1
    \* Rbac
    RbDids = {"d1"}
    RbRoles = {"admin"}
    RbScopeTypes = {"course"}
    RbScopeIds = {"c1"}
    RbAdmins <- MCAdmins
    RbProcesses = {"p1"}
    RbTtls = {1}
    RbMaxRows = 3
    RbMaxTime = 2
    \* EventRouter
    EvCollections = {"c"}
    EvMaxRoutes = 2
    EvMaxEvents = 2
    \* DictCache
    DictProcesses = {"p", "q", "r"}
    DictMaxFaults = 1
    \* AppStartup
    AppProcesses = {"p", "q"}
    AppDatabases = {"d1", "d2", "d3"}
    AppSupported = {"d1", "d2"}
    AppPorts = {"3000"}
    AppOrigins <- MCOrigins
    AppUnfit <- MCUnfit
    AppFlaws = {"name"}
    AppSections = {"jetstream"}
    AppHandlers = {"jetstream"}
    \* OAuthExchange
    ExLogins = {"l1", "l2"}
    ExCallbacks = {"c1", "c2"}
    ExPds = "pds"
    ExServers = {"pds", "as"}
    ExMaxMoves = 1
    \* RepoClient
    RepClients = {"a", "b"}
    RepClockIds = 2
    RepWidth = 16
    RepMaxMicros = 2
    RepMaxCalls = 2
    \* CarArchive
    CarBlocks <- MCBlocks
    CarMaxBlocks = 3
    CarHeaders <- MCHeaders
    CarV0 <- MCV0
    CarV0Length = 4
    CarUnsound = {7}
    \* Identifiers
    TxtTexts <- MCTexts
    TxtStamps = {"s"}
    TxtFeeds <- MCFeeds
    TxtLimits <- MCLimits
    TxtMaxLimit = 3
    \* CodeGen
    GenFiles = {"f", "g"}
    GenContents <- MCContents
    GenSnake <- MCSnake
    GenKeywords = {"type"}
    GenMaxEdits = 1
    GenMaxFaults = 1
    \* BlobStore
    BlobClients = {"a", "b"}
    BlobBlobs = {"x"}
    BlobMaxFaults = 1
    \* Migrations, on PostgreSQL
    MigProcesses = {"new", "old"}
    MigTables = {"app"}
    MigTop = 3
    MigPlan <- MCPlan
    MigStatements = 2
    MigBackends = {"postgres"}
    MigGuarded = {}
    MigFaults = 3
SPECIFICATION MCSpec
INVARIANTS
    WindowBound RetryAfterHolds
    CodesAreSpent CacheIsHonest LabelsArrive WithdrawnStaysOut DecisionsStand
    NoHandlerMissesSilently LoadsAreWhole WorkSeesTables CodeStaysHome
    RetriesAddUp RecordsAreTheirs ReadsBack GeneratedHangsTogether RollingReleases
CHECK_DEADLOCK FALSE
