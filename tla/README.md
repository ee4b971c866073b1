# A TLA+ model of at-rust-go

at-rust-go (`atrg`) is a Rust framework for AT Protocol applications: an Axum
server with OAuth login, a database with migrations, consumers of the network's
event streams, and helpers for feeds, labels, records, blobs and e-mail codes.
This directory holds TLA+ models of its parts, the TLC configurations that check
them on small instances, and TLAPS proofs of safety properties for every value of
the constants.

Paths below are relative to `src/`.

## 1. Inventory

| Component | State it keeps | Operations | What is hard | What makes it correct | Module |
|---|---|---|---|---|---|
| Jetstream consumer (`crates/atrg-stream`: `consumer`, `cursor`, `backoff`, `metrics`, `event`) | reader task, bounded channel, dispatcher task, atomic counters; one cursor row in the database | spawn with or without a cursor, reconnect, receive, drop, dispatch, save, drain | two tasks and a crash between any two steps; replays after a reconnection; a handler that panics; failing saves | the stored cursor never covers an event that vanished; events are counted once; a closed channel is drained | `JetstreamConsumer`, `ResumableFeed` |
| Event router (`atrg-stream/router`) | a table fixed when it is built | register, dispatch one event to the matching handlers | one handler of several fails | every matching handler sees the event, or the event counts as an error | `EventRouter` |
| zstd dictionary (`atrg-stream/zstd_dict`) | a file in the user's cache | load from a URL or a path | processes that download at once; a write that fails | a load returns the whole dictionary | `DictCache` |
| Firehose consumer (`crates/atrg-firehose`) | reader, channel, dispatcher, counters, `last_seq` | as the Jetstream consumer, without a stored cursor; decoding of frames and CAR archives | every connection starts again; `last_seq` moves on before the event is queued; archives cut anywhere | the handler gets an ordered feed; every frame ends in one place; an operation gets its own record | `FirehoseConsumer`, `OrderedFeed`, `CarArchive` |
| Migration runner (`crates/atrg-db`, used by `atrg-core/app.rs` and `atrg-cli`) | tracking tables and the schema itself | create table, read versions, execute, record | no transaction around execute and record, no lock between processes; crashes; SQLite executes a file statement by statement | recorded means executed; files run in order; a serving process has its schema | `Migrations` |
| Application and configuration (`crates/atrg-core`: `app`, `config`, `env_override`, `cors`, `state`) | what the builder was given; the pool and the tasks | build, load, migrate, assemble, spawn, bind | the order of start-up; what of it may fail; pools that are given | nothing works on tables that are not there | `AppStartup` |
| Rate limiter (`atrg-core/rate_limit.rs`, `app.rs`) | one token bucket per IP | check, cleanup | refill and cleanup against the clock; buckets forgotten before they are full; where the IP comes from | a client gets no more than burst + rate × time and what the forgetting adds; one that waits is let in | `RateLimiter`, `RateLimitedApp` |
| Pagination (`atrg-core/pagination`) | none | cursors, limits | separators inside record keys | a cursor is read as it was written | `Identifiers` |
| Login and sessions (`crates/atrg-auth`: `routes`, `session`, `extractor`) | `atrg_oauth_states`, `atrg_sessions` | login, callback, session lookup and touch, logout, cleanup task | every query is an await point; callbacks delivered twice; handlers dropped by their clients; the cleanup races with all of them | a session belongs to the DID its login resolved, there is one per login, logout is final, nothing live is swept | `OAuthSession` |
| OAuth exchange (`atrg-auth/oauth`) | the endpoint kept with the state | discovery, callback, exchange with a nonce retry | callbacks that overlap; the PDS delegates elsewhere meanwhile; lost answers | a code goes to its issuer only, and buys one set of tokens | `OAuthExchange` |
| API keys, bearer tokens (`atrg-auth`: `api_keys`, `jwt`, `extractor`) | `api_keys` | create, verify, revoke; the extractor's order of attempts | revocation between lookup and touch; expiry | what was withdrawn does not authenticate | `ApiKeys` |
| Roles, bans (`atrg-auth/rbac`) | `atrg_roles`, `atrg_bans` | grant, revoke, check; ban, lift; provisioning at start-up | NULLs in a unique constraint; a ban over a ban | a revoked role is gone; a ban lasts as long as it says | `Rbac` |
| One-time codes (`crates/atrg-email`) | `atrg_otp_codes` | send, verify | check and mark are two queries, whose answers may get lost | what is marked is not accepted by who comes later; a wrong guess uses nothing up | `OtpCodes` |
| Identity cache (`crates/atrg-identity`) | a TTL cache under DID and handle | resolve, invalidate | a resolution under way during an invalidation; two entries for one identity; documents that claim anything for their handle | what was read after an invalidation is what is cached, but for resolutions it overtook | `IdentityCache` |
| Label store (`crates/atrg-label`) | `atrg_labels` | create, negate, query by subject, page since a cursor | labels inserted between two pages | a subscriber that follows the cursor sees every label once, and in the end what a query answers | `LabelStore` |
| Feeds (`crates/atrg-feed`) | the registered algorithms | get a skeleton | which algorithm a URI names | the one that was registered under it | `Identifiers` |
| Records and TIDs (`crates/atrg-repo`) | none; the records are the PDS's | create, put, get, delete, upload; TIDs, AT-URIs | lost requests and answers; TIDs of one microsecond | what repeated calls leave behind; order of TIDs is order of time | `RepoClient`, `Identifiers` |
| Blobs (`crates/atrg-blob`) | files, or objects in S3 | put, get, exists, delete | puts of one blob truncate it; failed writes | what put promised is there | `BlobStore` |
| Code generation (`crates/atrg-codegen`, `atrg-cli/commands/generate`) | three generated files | read lexicons, generate, write | a failure between two writes; lexicons edited meanwhile | the files fit each other and the lexicons | `CodeGen` |
| Health, errors, request identifiers, security headers (`atrg-core`) | none | one request each | — | — | not modelled |
| Shutdown (`atrg-core/shutdown.rs`) | the pool | signal, close with a timeout | `run` does not call it | — | not modelled |
| `atrg-xrpc`, `atrg-testing`, `atrg-cli` (the rest), examples, site, tests, scripts | none | types, fixtures, scaffolding | — | — | not modelled |

How they interact. `App::run` (`atrg-core/app.rs`) opens the pool or takes the one
it was given, runs the internal and then the application's migrations, provisions
the administrators, assembles the router with its layers, spawns the rate
limiter's cleanup, the consumers and the session cleanup task, binds the port and
serves. Handlers and tasks share the pool and nothing else; a reader and its
dispatcher share an mpsc channel and atomic counters; the router of `atrg-stream`
is a handler given to the dispatcher. Every `.await` is a point at which another
handler or task runs, or at which a handler is dropped because its client has gone
away.

Everything in this code that is hard to test is listed, at its line, under
`hazards` in `PROJECT.json`, with the properties that cover it.

## 2. Plan

Done, in this order: the Jetstream consumer with its abstract feed; the migration
runner; login and sessions; the firehose consumer with its abstract feed; the
event router; the services (codes, rate limits, identities, labels, keys, roles,
the OAuth exchange, records, texts, archives, generated code, blobs, start-up). Every
safety property that a run checks is a theorem (section 6).

Left:

- the migration runner and start-up as one system: `AppStartup` takes a migration
  for one step, and `Migrations` takes a start-up for its migrations;
- `list_records`, the health check and the shutdown.

## 3. The modules

### JetstreamConsumer

One consumer of the Jetstream relay, through any number of incarnations of its
process. An event is identified with its timestamp; what it says is abstracted
away, except that it may not parse (`Malformed`) or bear no time (`Untimed`).

| Code (`crates/atrg-stream/src`) | Model |
|---|---|
| the reader task between two awaits: connecting, waiting for a message, sleeping; inside `handle_text_message`, before and after the capacity check | `reader` |
| the URL, built once per spawn | `urlCursor`, from `InitialCursor` |
| the mpsc channel | `channel`, closed when `reader = "aborted"` or the dispatcher is dead |
| the dispatcher task: receiving, in the handler, saving, returning | `dispatcher`, `inHand`, `last` (`last_time_us`), `eventCount` |
| `MetricsCounter` | `metrics`; `queue_depth` is `Len(channel)` |
| the row of `atrg_jetstream_cursors` | `savedCursor` |
| `spawn_consumer`, `spawn_consumer_with_cursor` | `Spawn`, in mode "off" and in the other modes |
| `connect_and_read`, the loop of `spawn_reader`, `Backoff` | `ConnectOk`, `ConnectFail`, `Disconnect`, `BackOff`, `BackoffElapsed` |
| `handle_text_message` | `Receive` up to the capacity check, then `Send` or `Shed`: the dispatcher runs in between on another thread |
| `spawn_dispatcher`, `spawn_cursor_dispatcher` | `Recv`, `HandlerReturns`, `HandlerPanics`, `ChannelClosed`, `SaveCursor`, `SaveCursorFails` |
| `abort` on the JoinHandle; the death of the process | `Abort`, `Crash` |

`handled`, `shed` and `skipped` are history: what became of each event. The relay
is external (`Emit`, `StartPos`): it serves a cursor inclusively, and from its
head if there is no cursor or it lies in the future.

`max_lag_events` is left out: it chooses between two log lines, both followed by
the same drop.

`ResumableFeed` is the promise of mode "auto": the checkpoint never covers an
event whose fate is unknown, a restart resumes exactly at the checkpoint, and a
resumed consumer misses nothing and never moves the checkpoint behind the point
of resumption. `JetstreamConsumer!FeedSpec` is that specification under the
mapping `seen <- handled \cup shed`, `missed <- skipped`,
`checkpoint <- savedCursor`, `running <- reader # "down"`,
`resumedAt <- urlCursor`.

### FirehoseConsumer

One firehose subscription. Frames are numbered in the relay's order; what is in
one is what `decode_frame` looks at: whether the header is a CBOR map, its `op`
and `t`, whether the body decodes, and whether it has a `seq`. All frames and
their kinds are given by the constant `Frames`.

| Code (`crates/atrg-firehose/src`) | Model |
|---|---|
| the reader task: connecting, reading, between the capacity check and `try_send`, sleeping, aborted | `reader`, `pos` |
| `Backoff` | `attempt`, with its delays in milliseconds and their cap |
| the mpsc channel; the dispatcher and what its handler works on | `channel`, `dispatcher`, `inHand` |
| `MetricsCounter`, `last_seq` among it | `metrics` |
| `connect_and_read`, the loop around it | `ConnectOk`, `ConnectFails`, `Disconnect`, `BackoffElapsed`, with `NextDelay` for the jittered delay |
| the handling of a binary frame with `decode_frame` | `Receive` up to the capacity check, then `Offer` |
| `spawn_dispatcher` | `Recv`, `HandlerReturns`, `HandlerPanics`, `ChannelClosed` |
| `abort` on the JoinHandle | `Abort` |
| the relay (external) | `Publish`, `StartPos` |

Channel items carry the number of their connection, since every connection
starts again from the configured cursor. `OrderedFeed` is what the application's
handler may rely on: gaps, but nothing unpublished, nothing twice from one
connection, nothing out of order, and nothing of an earlier connection after a
later one. `FirehoseConsumer!HandlerSpec` is that specification under
`published <- emitted`. `MCFirehose` gives the frames.

`CarArchive` is the decoder of the archives in commit frames, byte by byte:
`ReadHeader`, then `ReadSection` per block with `ReadVarint`, `CidLength` and
`Decoded`, and the record that each operation of a commit gets. Its machine words are scaled down: a byte has 3 bits, of which a
varint uses 2, and a varint has 5 bits, so that, as with 8, 7 and 64, the last byte
of the longest varint is not used up. The relay's encoder is external, and an
archive may be cut after any byte.

### Migrations

Several processes bring one database up to date, each through its `Plan`: the
entries `App::run` or `atrg migrate` goes through, one per tracking table.

| Code (`crates/atrg-db/src/lib.rs`) | Model |
|---|---|
| the pool's backend | `backend`, chosen at first from `Backends` |
| the tracking tables; the schema the files have built | `recorded`; `schema`, the number of statements executed of each file |
| where a start-up stands, its `applied` set and loop variables | `at`, `step`, `applied`, `version`, `stmt` |
| `run_migrator_sqlite`, `run_migrator_postgres` | `CreateTable`, `ReadApplied`, `ExecuteSqlite` / `ExecutePostgres`, `Rejected`, `Record`, and `Advance`, the head of the loop |
| an error of the driver; the death of the process | `DatabaseError`, `Crash` |
| `App::run` and `atrg migrate` | `Start` |

SQLite commits the statements of a file one at a time, PostgreSQL runs a file in
one implicit transaction. A file whose statements all say `IF NOT EXISTS`
(`Guarded`, as the internal files do) may run again; any other is rejected by the
database when its effect is already there. `MCMigrations` gives the plans.

### OAuthSession

| Code (`crates/atrg-auth/src`) | Model |
|---|---|
| `atrg_oauth_states`, `atrg_sessions` | `states`, `sessions` |
| a handler of `/auth/callback`, and of an authenticated request | `callback[h]`, `request[r]`: the query or call it is about to make, and what it holds |
| `login` | `Login`, one step: it writes once, after everything that may fail |
| `callback` | `Deliver`, `FindState`, `DeleteState`, `Exchange`, `CreateSession`, one step per query or call; `CallbackEnds` for an error or a client that goes away |
| `find_session` | `Ask`, `FindSession`, `Touch`, `RequestEnds` |
| `logout` | `Logout` |
| `spawn_cleanup_task` | `Wake`, `CleanSessions`, `CleanStates`, `CleanStatesFails` |

The clock is read where the code reads it, which is often a step before the query
that uses it. The PDS is external: it redeems a code once, for whichever user
approved. `started`, `issued`, `ended` and `accepted` are history. `MCOAuthSession`
adds the symmetry of users and of callback handlers.

### The services

Each is a module of its own; they share no state in the code.

| Module | Code | State | Actions |
|---|---|---|---|
| `RateLimiter` | `atrg-core/src/rate_limit.rs`, the cleanup task of `app.rs` | `tokens`, `last`, `known`: the buckets | `Allow`, `Refuse`, `Cleanup`, `Tick` |
| `RateLimitedApp` | the middleware in `atrg-core/src/app.rs` | as above; requests served and refused | `Request`, under the address the server attaches (`ConnectInfo`) or `Localhost` |
| `OtpCodes` | `atrg-email/src/otp.rs` | `rows`; `verify`, each request between its two queries | `SendOtp`, `BeginVerify`, `CountValid`, `MarkUsed` (the UPDATE takes effect), `Accept` (its answer arrives), `VerifyEnds` |
| `IdentityCache` | `atrg-identity/src` | `cache`; `task`, each resolution between its calls | `Resolve`, `AskOwner`, `FetchDocument`, `StoreUnderDid`, `StoreUnderHandle`, `ResolveEnds`, `Invalidate`, `Evict`; `NetworkChanges` is external |
| `LabelStore` | `atrg-label/src` | `table`; a subscriber's `cursor`; the last query by subject, `asked` | `Issue`, `FollowCursor`, `QueryLabels` |
| `ApiKeys` | `atrg-auth/src/api_keys.rs`, `jwt.rs`, `extractor.rs` | `rows`, `sessions`; `request`, each between its attempts | `CreateKey`, `RevokeKeys`, `EndSession`, `Begin`, `TryJwt`, `FindKey`, `TouchKey`, `TrySession` |
| `Rbac` | `atrg-auth/src/rbac.rs`, the provisioning of `app.rs` | `roles` by row id, `bans` by DID | `GrantRole`, `RevokeRole`, `Provision`, `Restart`, `BanDid`, `LiftBan`; `HasRole` and `IsBanned` only read |
| `EventRouter` | `atrg-stream/src/router.rs` under the dispatcher | `routes`; `at`, the next route of the event in hand | `Register`, `Dispatch`, `CallHandler`, `DispatchReturns` |
| `DictCache` | `atrg-stream/src/zstd_dict.rs` | `file`; `load`, what each process is about to do | `Begin`, `ReadCached`, `Download`, `Truncate`, `Write`, `WriteFails` |
| `OAuthExchange` | `atrg-auth/src/oauth.rs`, `routes.rs` | `stage`, `server` of each login; `states`; `callback`, each with its own exchange; `tokens` | `DiscoverServer`, `FetchMetadata`, `LoginEnds`; `FindState`, `DeleteState`, `Granted`, `WantsNonce`, `Refused`, `CallbackEnds`; `Delegate` and `Authorize` are external |
| `RepoClient` | `atrg-repo/src/repo.rs`, `tid.rs` | each client's `call`; the PDS's `records` | `BeginPut`, `BeginCreate`, `BeginUpload`, `BeginOther`, `CreateRecord`, `PutRecord`, `UploadBlob`, `DeleteRecord`, `GetRecord`, `NotDone` |
| `Identifiers` | `atrg-repo/src/tid.rs`, `at_uri.rs`; `atrg-core/src/pagination.rs`; `atrg-feed/src` | one text, what it was written from and read back as | `WriteTid`, `WriteUri`, `WriteCursor`, `WriteFeed`, with their parsers |
| `CodeGen` | `atrg-codegen/src`, `atrg-cli/src/commands/generate.rs` | the lexicons, the three files, the generation under way | `Begin`, `ReadFile`, `PassOver`, `ReadAll`, `WriteFile`, `WriteFails`; `Edit` is the user's |
| `BlobStore` | `atrg-blob/src` | what is stored of each blob; each client's `call` | file: `FindFile`, `Truncate`, `Write`, `WriteFails`, `ReadFile`, `LookUpFile`, `FindFileToRemove`, `RemoveFile`; S3: `PutObject`, `GetObject`, `HeadObject`, `DeleteObject`, `RequestFails` |
| `AppStartup` | `atrg-core/src/app.rs`, `config.rs`, `cors.rs` | `built`, `stage`, `config`, `pool`, `tasks` of each process; migrations applied per database | `WithDbPool`, `Register`, `LoadConfig`, `Connect`, `MigrateInternal`, `MigrateApplication`, `AssembleRouter`, `Spawn`, `Bind`, `Exit`, `Restart` |

What of them is abstracted:

- Tokens of a bucket, floating point in the code, are counted in units, so that
  rates below one request per tick can be expressed; rounding is left out. `since`
  and `OpenWindow` choose any window of time for the bound to speak of.
- Random values (states, verifiers, one-time codes, keys) are model values; a
  one-time code may be drawn twice, a key may not, but two keys may share a prefix.
- A JWT is its claims, and whether its issuer has signed them, which nothing in the code
  asks. An authorization server is its metadata and its endpoints.
- A rate below zero, which the configuration may give as well, is left out.
- A request for labels by URI or by source is answered with status 400 before it reaches
  the handler, and one without a cursor by the handler: neither is an action.
- TIDs are scaled down from 13 characters of 5 bits to 3 characters of 2 bits that
  hold 5 bits, whose first character is likewise never used up. A letter in a text
  stands for any run of characters that no parser looks at.
- A lexicon is its definitions with their properties; a generated file is its
  structs, routes or modules, and whether it is all there.
- Requests to a PDS, a directory or S3 may get lost, and so may their answers. The library
  repeats none of the calls to a PDS; that a client of `RepoClient` may call again is the
  application's doing.

Three modules compose them, each service an instance with variables of its own:
`AccessServices` (`OtpCodes`, `IdentityCache`, `ApiKeys`, `Rbac`, `OAuthExchange`),
`StorageServices` (`AppStartup`, `DictCache`, `RepoClient`, `LabelStore`, `CodeGen`)
and `DataServices` (`Identifiers`, `BlobStore`, `EventRouter`, `CarArchive`). A step of
the composition is a step of one service that leaves the others alone. These modules
hold the services' properties under the names that the runs and the theorems use, and
the assumptions on their constants. `StorageServices!RollingReleases` is about one more
instance of `Migrations`, an old and a new release that start side by side on
PostgreSQL.

`MCServices` extends the three and `RateLimiter`, on small constants. Since the services
share nothing, running all of them together would only multiply their states: in
each behaviour one service, `focus`, takes steps, and the others rest in an initial
state. `MCInit` implies, and `MCNext` is a special case of, the initial states and the
next-state relation of each of the modules it extends, so that its behaviours are
behaviours of `Spec`, `AccessSpec`, `StorageSpec` and `DataSpec`, which the theorems are
about. `MCFirehose`, `MCMigrations`, `MCOAuthSession` and `MCRbac` give constants that a
configuration file cannot express.

### Proof modules

`JetstreamConsumer_proofs`, `FirehoseConsumer_proofs`, `Migrations_proofs`,
`OAuthSession_proofs`, `RateLimiter_proofs`, `AccessServices_proofs`,
`StorageServices_proofs` and `DataServices_proofs` extend the module they are about; see
section 6. What is to be proved about is written with recursive functions where the
community modules have folds and `SelectSeq` (`LabelStore!Only`, `CarArchive!Encoded`
and `Joined`).

## 4. The runs

| Run | Checks | Shows |
|---|---|---|
| `Jetstream_auto` | `TypeOK`, `CheckpointCovered`, `CapacityCheckSuffices`, `CountersAddUp`, `FeedSpec`, `AbortDrains`, `QueuedIsHandled` | mode "auto" keeps its promise through crashes, reconnections, failed saves, drops and panics; the counters add up; a closed channel is drained and queued events are handled |
| `Firehose` | `TypeOK`, `FramesAddUp`, `HandlerSpec`, `QueuedIsDelivered`, `AbortDrains` | the handler gets an ordered feed over three connections; every frame ends in one place; an abort drains the channel |
| `Migrations_supervised` | `TypeOK`, `RecordedIsComplete`, `ExecutedInOrder`, `ReadyIsMigrated`, `EventuallyReady` | two replicas on either backend, one table with guarded files and one without: nothing unfinished is recorded, the order of files holds, and both become ready although a race makes one fail |
| `OAuth_sessions` | `TypeOK`, `SessionIsItsLogins`, `OneSessionPerLogin`, `LogoutIsFinal`, `SessionsLast` | two callback handlers, a request and the cleanup, over two logins of two users |
| `OAuth_cleanup` | `ExpiredStatesGo` | expired states go although the sweep of the sessions before them may fail in every round |
| `Services` | the sixteen properties below | every service on its own instance |

The properties of `Services`:

| Property | Says |
|---|---|
| `WindowBound`, `RetryAfterHolds` | no client gets more than burst + rate × time in any window, but for what it gains when its bucket is forgotten before it is full, at most once per cleanup age; who waits as told finds a token, whatever the rate, if the burst is a token at least |
| `CodesAreSpent` | a code that is marked is not accepted by a verification that begins later; what was answered true is marked; what is marked was found valid by a verification of that code and member, though its answer may have been lost |
| `CacheIsHonest` | an entry is stored under its DID or under what its document claims for its handle; after an invalidation of a key, only a resolution that had read the network by then brings an older answer back under it |
| `LabelsArrive` | who follows the cursor, with whatever limits, has every label once and in order, and is told of the end only there; the answer of a query by subject is the beginning of what it then has |
| `WithdrawnStaysOut` | a key or session that was withdrawn before a request began does not authenticate it, and one that does authenticates whom it was made for; nothing is said of JWTs |
| `DecisionsStand` | a role revoked as a whole is gone although it was granted repeatedly; a ban lasts as long as the last one says, and no check overlooks it however early it read the clock |
| `NoHandlerMissesSilently` | handlers are called once and in order, and an event that one of them missed counts as an error |
| `LoadsAreWhole` | concurrent downloads leave the dictionary whole, as long as no write fails |
| `WorkSeesTables` | no task and no server runs before the migrations of its very database |
| `CodeStaysHome` | a callback sends its code to the issuer only, at most twice, wherever the PDS delegates meanwhile; the callbacks of a login, however many overlap, get one set of tokens or lose it with its answer |
| `RetriesAddUp` | what repeated calls leave at the PDS: `put` one record, `create` one more per lost answer; TIDs of different microseconds are in order |
| `RecordsAreTheirs` | each operation of a commit gets the block of its CID or none, wherever the archive is cut |
| `ReadsBack` | TIDs, AT-URIs, cursors and feed ids are read as they were written; what a put of a blob promised is there |
| `GeneratedHangsTogether` | the generated files exist where `mod.rs` names them, are of one reading, and read what the lexicons allow |
| `RollingReleases` | order and completeness of migrations with two releases that start at once |

Six runs look for, and find, a violation of what the documentation says:

| Run | The text | What the code does |
|---|---|---|
| `Jetstream_graceful` | `atrg-stream/src/consumer.rs:198`: a graceful exit leaves at most one interval to replay | a reconnection replays from the URL of the start, `last_time_us` moves back with it, and the final save stores that |
| `Migrations_race` | `atrg-db/src/lib.rs:228`: the internal migrations are safe to run on every start-up | of two processes that start together one may fail on the primary key of the tracking table |
| `OAuth_once` | `atrg-auth/src/routes.rs:292`: the state is deleted at once, for one-time use | two deliveries may both find it before either deletes it; the code, redeemed once by the PDS, is what keeps `OneSessionPerLogin` true |
| `Rate_shared` | `atrg-core/src/rate_limit.rs:3`: the limit is one per IP | the server attaches no address to its requests, so that all clients share the bucket of `LOCALHOST` |
| `Rbac_idempotent` | `atrg-auth/src/rbac.rs:262`: granting a role again is a no-op | an unscoped role has NULLs in the unique constraint, which are distinct, and is inserted again, at every start for every administrator |
| `Firehose_seq` | `atrg-firehose/src/metrics.rs:24`, `:45`: `last_seq` is the last sequence number processed | it is stored before the capacity check, so that it names events that wait in the channel or were dropped |

More disagreements of this kind are visible in the models and have no run of their
own (paths under `crates/` unless they start with `docs` or `README`):

- Streams. `atrg-stream/src/router.rs:194` says that all matching handlers are
  invoked, but an error returns at once (line 225). `consumer.rs:284` and
  `backoff.rs:29` say that a connection resets the backoff; only the metric is.
  `docs/jetstream.md:45` says that a full channel pauses reads, and
  `atrg-stream/README.md:15` that the oldest events go; the reader reads on and
  drops the newest. Nothing outside `zstd_dict.rs` calls `load_dictionary`.
- Start-up. `atrg-core/src/app.rs:99` says that the cleanup task is spawned after
  the server starts; it is spawned before the port is bound, as are the consumers,
  so that a process that fails to bind has already run them. `README.md:231`
  describes a graceful shutdown that `run` never calls. A wildcard among other
  origins passes the validation (`config.rs:387`, "wildcard is fine") and panics in
  `cors.rs:34`. `README.md:227` lets environment variables override fields of
  `atrg.toml`; `run` loads the file (`app.rs:263`), and nothing but tests calls
  `apply_env_overrides`.
- `atrg-db/src/lib.rs:330` calls a second run a no-op for applied migrations; after
  a crash between execution and record the migration is executed again, and an
  unguarded file is then rejected at every start.
- Labels. `atrg-label/src/routes.rs:37` lets `uriPatterns` be repeated, and line 61 speaks
  of filtering by URI patterns and sources. Both are vectors in a struct for axum's
  `Query`, whose deserializer takes no sequence: a request that carries either is refused
  with status 400, so that the handler's lines 89 to 131 only ever see empty ones, and the
  labels of a subject cannot be had over HTTP.
- Authentication. `atrg-auth/src/jwt.rs:3` says that JWTs are verified with the issuer's
  signing key, and `extractor.rs:79` that a JWT is verified; the extractor (lines 110 to
  128) decodes the claims and checks `exp` and `aud` only. `ApiKeys!TryJwt` asks as little,
  and `WithdrawnStaysOut` claims nothing of whom a JWT authenticates.
- Identities. `atrg-identity/src/lib.rs:104` caches an identity under its DID and its handle
  "for fast lookup either way", but the handle is whatever its document has after `at://`
  (lines 162 to 171): a document that claims another DID takes over the other's entry until
  it expires. `invalidate` ("by DID or handle", line 115) removes one of an identity's two
  entries, and a resolution under way writes the old one back.
- Rate limits. With a burst of 0 nobody is ever let in, yet `Retry-After` names a time
  (`rate_limit.rs:83`). A burst that takes longer than ten minutes to refill is full again
  after ten minutes without a request.
- Texts. `Tid::parse` compares the low byte of each character (`atrg-repo/src/tid.rs:63`)
  and thus accepts some that are not ASCII. `AtUri::new` accepts slashes that make
  its text read back as something else.
- Generated code. Two handlers of one name, two files of one NSID and a field whose
  name is a keyword are written as they come, and do not compile.
- Blobs. A directory's blob that was cut by a failed write is served, and its put is
  never repeated, since the file exists. What S3's `get` answers for a missing object
  depends on how its client library is built.

Definitions introduced by a comment "Mutant:" are not part of any specification.
Each is a definition of the code changed the way a plausible bug would change it;
`PROJECT.json` pairs every property of a passing run with one that violates it.

### Bounds

- Jetstream: four events, a channel of one, a save every second event, one crash,
  three connection attempts. That is enough for a full channel with an event in
  the hands of both tasks, a malformed and an untimed event between two saves, a
  save, a crash, a resumption in the middle of the feed and a reconnection that
  replays. A channel of one is full most often; larger capacities, the other
  cursor modes and any number of events are covered by the theorems.
  `BackoffMax = 3` lets the delay reach its cap.
- Firehose: five frames (a commit, one without a sequence number, an error frame,
  an unknown type, an identity event), one whose handler fails and one on which it
  panics, a channel of two, three connections from cursor 1: each kind is received,
  dropped and replayed, two events wait behind one that is being handled, those of an old
  connection before those of a new one, and the delay of 500 ms reaches its cap of 1000.
- Migrations: two processes, two tables, files of two statements, two versions and
  two faults: a crash in the middle of a file, one between a file and its record,
  and a start-up that overtakes another. The rolling release has three versions
  against two, and three faults.
- OAuth: two logins, two sessions, two callbacks, one request, lifetimes of one
  second and a clock that ticks once (twice in `OAuth_cleanup`), so that a row may
  expire between the reading of the clock and the query that uses it, and between
  two queries of one handler. One second is the smallest lifetime for which a row
  is ever live.
- Rate limiter: a burst of eight units where a request costs three, two units flowing back
  per tick, and a cleanup after three ticks, one too early for an emptied bucket to be
  full; eight ticks, in which a bucket may be forgotten twice.
- The other services (constants in `MCServices`): two actors of each kind that can
  meet (three downloads of the dictionary, since the third may read what the other
  two write), two or three rows, and a clock of one or two ticks, which is one
  expiry. Labels: two URIs, four rows, limits of 0, 1 and 9 against pages of two, so
  that a limit is raised, kept and cut. Identities: two DIDs and a handle; at first one
  document claims the handle and one the other DID, and one change leads to the rest.
  The OAuth exchange: two logins and two callbacks, for one login or one each. Archives of up to three blocks with
  both kinds of CID, cut after every byte. Texts of up to two tokens. Two lexicon
  files with one edit and one fault.

The bounds `MaxAttempts`, `MaxCrashes`, `Faults`, `MaxFaults`, `MaxLogins`,
`MaxSessions`, `MaxTime`, `MaxEvents`, `MaxRoutes`, `MaxSends`, `MaxChanges`,
`MaxLabels`, `MaxRows`, `MaxMoves`, `MaxMicros`, `MaxCalls`, `MaxEdits` and the length
of `Frames` appear as guards of the environment's actions, or of the action that
draws a new identifier. Deadlock checking is off in every run: with the bounds used
up, and in the consumers after an abort and a drained channel, nothing is left to do.

## 5. Fairness

Nothing is assumed of networks, users, relays and owners of handles.

- `JetstreamConsumer!FairSpec`: weak fairness of the reader's and of the
  dispatcher's own steps. Tokio polls a task that is ready, and the handler is
  assumed to end, by returning or by a panic. `AbortDrains` and `QueuedIsHandled`
  need no more: saves may fail, and a failed save is not retried.
- `FirehoseConsumer!FairSpec`: the same, for the reader only of the steps between a
  frame's arrival and its place in the channel (`Receive`, `Offer`). Neither
  `QueuedIsDelivered` nor `AbortDrains` assumes that a connection ever succeeds.
- `Migrations!FairSpec`: a process that runs makes progress, and a supervisor
  starts it again when it is down or has failed. The supervisor is an assumption
  about the deployment, not about the code. `Faults` bounds crashes and errors, so
  `EventuallyReady` speaks of what happens once they have ceased, and makes the
  exception the code makes: when a file that is not guarded was executed and not
  recorded (`Torn`), every later start is rejected.
- `OAuthSession!FairSpec`: the cleanup task is polled (weak fairness), and the
  deletion of the states does not fail every time (strong fairness of
  `CleanStates`, since each failing round disables it for a while). Nothing is
  assumed of the deletion of the sessions, which runs first.

The services' properties are safety properties and assume no fairness.

## 6. What is proved

All theorems are `Spec => []Inv`, an action property, or the refinement of an abstract
specification, for every value of the constants that satisfies the named assumptions of
the module. Most of these give the constants their types; TLC evaluates them in every
run of their modules. Those that say more:

- `RolesAssumption` and `NoneAssumption`: what stands for a missing value is none of the
  values.
- `RepoAssumption`: the microseconds of a TID fit its 54 bits (`TidsFit`), which is so
  until the year 2540.
- `LabelsAssumption`: the largest page holds one label at least (250 in the code); of the
  limits that a subscriber sends it only says that they are integers.
- `TextsAssumption`: a timestamp has no `:` as a text of its own. A token stands for a
  run of characters, and the tokens of a model are strings.
- `GenAssumption`: the definitions of a lexicon are a map by name, as in the JSON.
- `CarAssumption`: what a relay stores are blocks with a CID and data whose lengths fit a
  varint, and the first byte of a CIDv0 is the code of its hash, neither 0 nor 1.
- `AppAssumption`: the sections and handlers are among those that `run` knows.
- `ImplementsFeed` assumes mode "auto", which is what it is about.

- `JetstreamConsumer_proofs`
  - `TypeCorrect`. The type invariant is not inductive alone: that the position of
    the reader is an event while it sends, and that of the handler while it
    handles, takes `Control`, which says what the tasks hold in each state.
  - `CursorIsHonest` (`CheckpointCovered`). The inductive invariant `Coverage`
    follows the pipeline backwards: everything up to the stored cursor is
    accounted for, up to `last`, up to the event in hand, up to each queued event
    except for those queued before it, and up to the reader's position except for
    what is in the pipeline. It holds in every cursor mode.
  - `ImplementsFeed` (`FeedSpec`): initial states map to initial states and every
    step to a step of `ResumableFeed` or a stutter. It needs `Resumed`: what is in
    the pipeline of a resumed consumer does not lie behind its point of resumption.
  - `CapacityCheckIsEnough` and `MetricsAddUp` (`Counters`, which also knows
    where each received event is).
- `FirehoseConsumer_proofs`: `FirehoseTypeCorrect`, `FramesAreAccounted`
  (`FramesAddUp`) and `HandlerGetsOrderedFeed` (`HandlerSpec`). The invariant has, beside types and `Control`, `Order`: what was
  delivered and what is queued follow one another in the order of connection and
  frame, all behind the reader's place. It holds for any capacity.
- `RateLimiter_proofs`: `BurstBoundsWindows` (`WindowBound`) and `WaitingIsEnough`
  (`RetryAfterHolds`), for any rate, burst and cleanup age. The argument of the first
  (`Saved`) is the usual potential: what a client was granted in the window and what its
  bucket would hold now are together at most the burst, what flowed back since, and
  `Gain` for each time its bucket may have been forgotten (`Gained`): a bucket that is
  known has not been since its last request, and a cleanup that forgets it comes `MaxAge`
  after that, so that it pays for one more (`ForgettingsGrow`). `Gain` is 0 where a
  bucket fills within the cleanup age. `Promised` is the same for a refused client's wait.
- `Migrations_proofs`: `MigrationsTypeCorrect`, `RecordsAreHonest`,
  `FilesRunInOrder` and `ReadyMeansMigrated` from one invariant, `Ledger`:
  what is recorded is complete, what is executed is in order, and every process
  has settled the entries of its plan that lie behind it, the versions behind the
  one it works on, and the statements behind the next. The argument is that schema
  and records only grow, so what one process settled stays settled under the
  others. They hold on both backends and for any releases, `RollingReleases` among
  their instances.
- `OAuthSession_proofs`: `OAuthTypeCorrect`, `SessionsBelongToTheirLogins` and
  `LoggedOutStaysOut` from `Flow`, which follows the DID from the login through
  the state and the callback into the session, and bounds the identifiers in use;
  `LoginYieldsOneSession` from `Unique` on top of it: as long as a code is not
  redeemed no handler creates and no session exists for its login, and afterwards
  one handler or one session at most. `LiveSessionsLast` (`SessionsLast`, an action
  property) from `CleanerIsBehind`: the time the cleanup compares with was read before.
- `AccessServices_proofs`, of `AccessSpec`
  - `CodesSpent` (`CodesAreSpent`). `OtpInv`: rows have numbers of their own;
    nothing that a verification holds for valid was used before it began, belongs to
    somebody else or had expired, and once its UPDATE has taken effect it is marked,
    whether or not the answer arrives (`VerifySound`); what is marked was found.
  - `DecisionsHold` (`DecisionsStand`). `RolesInv`: a role that was revoked as a whole has
    no row left in any scope (`NoneLeft`), and the expiry of a ban is as far away as the
    rest of the last sentence is long (`BanRuns`).
  - `RevocationHolds` (`WithdrawnStaysOut`). In `KeysInv`, `Stored`, `Live` and `Gone`
    relate the rows and the sessions to what was withdrawn, `Sound` what a request holds
    to what was withdrawn before it began, and whom it authenticates to its token
    (`AnswersAs`).
  - `CodesStayHome` (`CodeStaysHome`). In `ExchangeInv`, `Issued` says that an approved
    login keeps the endpoint of the server that issued its code, `Carries` what a callback
    holds of it at each stage and has sent (`HasSent`), `Spent` that a redeemed code left
    some callback with the tokens or without the answer, and `Alone` that it left one: who
    got them has used up the code (`Used`), and the server redeems it once.
  - `CacheHonest` (`CacheIsHonest`). `IdentityInv`: an entry names the key it is under and
    is as fresh as the last invalidation of the key, or was stored by a resolution that
    the invalidation overtook (`EntrySound`); a resolution under way is as fresh as every
    key asks for that was not invalidated since it read (`TaskSound`).
- `StorageServices_proofs`, of `StorageSpec`
  - `WorkHasTables` (`WorkSeesTables`). `AppInv`: what a process has settled at each
    stage of `run` (`ProcessSound`): its configuration is valid, the migrations of the
    databases of its very pool are applied, and just the tasks whose places it has
    passed are running.
  - `DictionaryIsWhole` (`LoadsAreWhole`). `DictInv`: a file that is cut is one that its
    last opener is still going to write (`CutIsWritten`), and every process that is to
    write holds all of the dictionary (`HoldsWhole`); both until the first fault.
  - `RecordsAddUp` (`RetriesAddUp`). `RepoInv`: what a program knows of its record from
    its last answer (`Known`), the number of records it created, which is that of the
    answers heard and unheard (`Created`), and that no TID has wrapped (`DrawnFit`).
  - `NoLabelIsMissed` (`LabelsArrive`). `LabelsInv`: what was received is the table up
    to the cursor, and what was answered for a subject is that of the table as it was. A
    page is what follows the cursor and is empty only at the end, since a limit is at
    least 1 (`Clamped`); what is kept of a prefix is a prefix of what is kept
    (`PrefixOfConcat`).
  - `GenerationsHangTogether` (`GeneratedHangsTogether`). `JobInv` and `GenInv` follow the
    reading of the lexicons into the three files, the finished ones and those that a
    failure left.
  - `ReleasesRoll` (`RollingReleases`): the theorems of `Migrations_proofs` for the
    instance in `StorageServices`.
- `DataServices_proofs`, of `DataSpec`
  - `WrittenIsReadBack` (`ReadsBack`). Lemmas for TIDs, AT-URIs, cursors and feeds: the
    separators lie where their parsers look for them, and the digits of a number
    determine it. `BlobInv` for blobs: a file is cut short only while the last client to
    truncate it writes it, and what a put has promised, or will, is not absent; both
    until a write into a directory fails.
  - `HandlersHear` (`NoHandlerMissesSilently`). `RouterInv`: the calls of an event are the
    matching routes up to the next one, in order, or an error was counted.
  - `RecordsAreFound` (`RecordsAreTheirs`). The lemmas show that a varint is read as it was
    written and a CID has its length, `CarInv` that the cursor always stands where a
    section begins and that the blocks read are those of the archive so far.

The theorems of the last three modules are about the definitions that `Services` checks
through `MCServices`.

What is left to TLC: the liveness properties `AbortDrains`, `QueuedIsHandled`,
`QueuedIsDelivered`, `EventuallyReady` and `ExpiredStatesGo`, since liveness under
fairness, and ENABLED, are out of the prover's reach. The library's induction theorems
take an operator as a parameter, which the installed provers cannot instantiate; where
a lemma about a recursive function needs induction, its proof takes the least
counterexample (`LeastElement`, from `NatLessThanWellFounded` and `WFMin` of
`WellFoundedInduction`). The modules use no RECURSIVE operators.

## 7. What is not modelled

- Contents: JSON, CBOR, compression, SQL text, cookies, redirects, the forms of
  requests and responses, cryptography and signatures. A query succeeds, fails, or
  finds nothing; CBOR is a library's, of which only what it makes of a frame or a
  block is left.
- In `atrg-db`: opening a pool, the deprecated `run_user_migrations`, and the checks
  of names and directories.
- `list_records`, whose order and pages are the PDS's, and `list_api_keys`, which only
  reads.
- Health, errors, request identifiers and security headers: one request each, with
  no state and no order.
- `atrg-core/src/shutdown.rs`, which `run` does not call. That the process, and with
  it every task, may end anywhere is in `AppStartup` and in the consumers.
- `atrg-xrpc` (types), `atrg-testing` (fixtures), the rest of `atrg-cli`
  (scaffolding, a development server), examples, site, scripts and documentation.
- The endpoint for labels beyond the cursor (`atrg-label/src/routes.rs:99` to `131`), which
  no request reaches with patterns, and the overrides of `atrg-core/src/env_override.rs`,
  which `run` does not apply.
- Weak memory: the counters are relaxed atomics that no decision of the code reads,
  so they are read and written as if sequentially consistent.
