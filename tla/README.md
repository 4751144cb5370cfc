# TLA+ models of naralabs-atlas

Atlas indexes the contract events of one Stellar network: a worker polls Soroban RPC endpoints
and writes ClickHouse tables and a Postgres cursor, a server answers queries and streams new
events to browsers, and two maintenance commands rewrite or fetch history.  This directory
holds TLA+ modules of the parts where the order of steps matters, the TLC configurations that
check them, and proofs for the TLA+ proof system.

## 1. The system

| Component | State it keeps | Operations |
| --- | --- | --- |
| Live ingest worker (`internal/module/ingest/service/ingest_worker_service.go`, `helpers.go`) | `lastReorg`, `pollInterval`, `cfg` in memory; everything else in the stores | `Run`, `ingestOnce`, `maybeRescanReorg`, `persist`, `publishIngest`, `SetConfig` (SIGHUP) |
| RPC client (`internal/client/stellar`, `lib/rpcchain`) | per endpoint: error count and `downUntil`; `active` | `LatestLedger`, `FetchEvents`, `Pool.Call`, `Retry.Do`, throttle |
| Cursor and event stores (`internal/module/ingest/repository`) | Postgres `ingest_state`; ClickHouse `events`, `event_addresses`, `token_events` (all `ReplacingMergeTree`) | cursor `Get`/`Upsert` (`GREATEST`), the three batch upserts, `ListByLedgerRange` |
| Replay (`replay_service.go`) | locals only | `Run` |
| Backfill (`backfill_service.go`) | Postgres `backfill_state`, a row per network | `Run`, `Start`, `UpdateProgress`, `Complete` |
| Realtime stream (`lib/realtime`, `explore/handler/ws_handler.go`) | `Hub.clients`, a channel, a pump and a ping loop per browser, a debounce timer per network | `Register`, `Unregister`, `Broadcast`, `SendTo`, `Close`, `ServeHTTP`, `HandleIngest`, `scheduleStatsRefresh`, `refreshDerived` |
| Schema registry (`internal/module/registry`) | `event_schemas`, `verify_challenges` | publish a version, verify a contract, mark verified, archive; bundles, profiles, publications |
| Projects (`project_service.go`, `publish_token_service.go`, `schema_handler.go`) | `schema_projects`, `publish_tokens` | create, rename, publish with a token, repair the published flag, revoke |
| Accounts and API keys (`internal/module/auth`) | users, verification and reset tokens, API keys | register, verify, login, reset and change the password, create, use and revoke keys |
| Event decoding (`lib/decoder`, `decode_service.go`, `lib/scval`) | none | choose a schema for an event, match it, extract its fields |
| Explore API (`internal/module/explore`) | none; reads ClickHouse without `FINAL` | lists with filters and pages, one event, one contract, totals |
| Process wiring (`cmd`, `config`) | the configuration, reloaded on SIGHUP | start-up, validation, reload, migrations, routing |

How they interact.  The worker writes the three tables chunk by chunk and, after each chunk,
publishes it on a Redis channel; at the end of a cycle it moves the cursor.  The server's Redis
subscriber hands a chunk to `HandleIngest`, which broadcasts it through the `Hub` and re-arms
the debounce timer of the network's statistics.  `atlas replay` and `atlas backfill` are
processes of their own that write the same tables while the worker runs.  Nothing but the stores
and the Redis channel is shared between processes, and no two of a worker's writes are in one
transaction.

What is hard in it:

* a cycle of the worker is some dozens of calls to three systems, any of which can fail, and the
  process can be killed between two of them; correctness rests on what the next cycle starts from;
* the endpoints follow the network at their own pace, and the pool changes endpoint in the middle
  of a fetch; a pagination cursor belongs to one endpoint;
* two workers of a network can run at once (a rolling restart), and two backfills likewise;
* pages, batches, chunks and `LIMIT`s cut at places that have nothing to do with ledgers;
* rows are written more than once and merged at an unknown time, and the readers use no `FINAL`;
* a browser's handler, pump, ping loop, the broadcaster and the shutdown share one channel, which
  two of them close;
* a timer that is stopped and set anew by every chunk, whose callback may already be running;
* a pool of endpoints that many requests fail and mark at once, and in which a request that was
  cancelled, or refused before it was sent, counts like an endpoint that is down;
* accounts, keys, tokens and projects are written in several statements without a transaction
  around them, and each may fail or meet another request in between;
* a replay decodes with the schemas of one moment and inserts at another, and what is shown is the
  copy with the latest stamp;
* Run and the SIGHUP handler both write the poll interval, from settings of different moments.

The properties that make each component correct are in section 4 with the runs that check them.
`PROJECT.json` lists the hazards, line by line, with the properties that cover each.

## 2. Modules

| Module | Models | Role |
| --- | --- | --- |
| `EventChain` | events, filter batches of 25 contracts, the order of ids, pages | pure operators shared by the ingest side |
| `LedgerIndex` | what the ingest side promises its readers | abstract specification |
| `IngestWorker` | `ingestOnce`, `maybeRescanReorg`, `FetchEvents`, `persist`, the cursor upsert, the endpoints and the network | detailed specification; implements `LedgerIndex` |
| `MCIngestWorker` | | symmetry for TLC |
| `IngestWorkerProofs` | | theorems about `IngestWorker` |
| `ReplayService`, `MCReplayService` | `atlas replay` on a table with unmerged copies | |
| `ReplayServiceProofs` | | theorems about `ReplayService` |
| `BackfillService`, `MCBackfillService` | `atlas backfill` and its row, with several runs | |
| `BackfillServiceProofs` | | theorems about `BackfillService` |
| `RealtimeHub`, `MCRealtimeHub` | the hub, the WebSocket handler, pumps and ping loops, shutdown | |
| `RealtimeHubProofs` | | theorems about `RealtimeHub` |
| `StatsRefresh` | the debounced refresh of the statistics | continues `RealtimeHub!HandleIngest` |
| `StatsRefreshProofs` | | a theorem about `StatsRefresh` |
| `SchemaRegistry`, `MCSchemaRegistry` | publishing, marking and verifying the schemas of one contract | |
| `SchemaRegistryProofs` | | theorems about `SchemaRegistry` |
| `Decoder` | `lib/decoder` and `validateSchemaBody` | pure operators |
| `Listings` | lists with an order, strict or with ties: `ORDER BY`, `sort.Slice` | pure operators shared by `SchemaReads` and `ExploreReads` |
| `SchemaReads` | bundles, profile, the button to verify, the choice of a schema | readers of what `SchemaRegistry` writes; uses `Decoder` |
| `SchemaSamples`, `MCSchemaReads` | | schemas and events for TLC |
| `Projects` | the projects and publish tokens of one user, with publications | |
| `ProjectsProofs` | | theorems about `Projects` |
| `Accounts` | one account, its mailed links and passwords | |
| `ApiKeys` | the API keys of one user and the requests that bring them | |
| `ExploreReads` | the events table as it is rewritten, decoded again and merged, and every query over it | reads what `IngestWorker` and `ReplayService` write |
| `EndpointPool` | `rpcchain.Do`, `Pool.Call`, `Pool.pick` | the endpoints that `IngestWorker` and `BackfillService` ask |
| `PollLoop` | the sleep of `Run`, the adaptive interval, the reload | around the cycles of `IngestWorker` |
| `Parts`, `MCParts` | | `Projects`, the five modules above and `SchemaReads`, side by side, with their properties |
| `PartsProofs` | | theorems about these modules and about `Parts` |

### IngestWorker

`pc[w]` says which call worker `w` makes next; `cycle[w]` holds the locals of `ingestOnce` (the
last and the latest ledger, the start, the next ledger so far, the filter batch, whether it is the
rescan that runs), `job[w]` those of `FetchEvents` (the ledger it starts from, the events so far,
the pagination cursor, the endpoint active when it began) and `todo[w]` the events `persist` has
still to write.  One action is one call to another system with the local computation up to the
next call:

| Action | Code |
| --- | --- |
| `GetCursor`, `AlreadyCaughtUp`, `StartFetching` | `ingestOnce` up to the first fetch, with `ResolveColdStart` and the decision of `maybeRescanReorg` |
| `Reanchor`, `FetchNextPage`, `FetchLastPage` | one page of `ResilientClient.FetchEvents`, on any endpoint the pool may get an answer from |
| `UpsertBatch`, `UpsertAddresses`, `UpsertTokenEvents`, `PublishIngest` | `persist`, for one chunk |
| `NextFilterBatch`, `RescanDone`, `BatchesDone` | the loops over the filter batches of the rescan and of the cycle |
| `UpsertCursor` | the fallback of `ingestOnce` and `CursorRepositoryImpl.Upsert` |
| `CycleFails`, `Restart` | an error of the pending call; the process is killed |
| `CloseLedger`, `EndpointAdvances`, `LateEvent`, `ReorgIntervalElapses` | the network, the endpoints and the clock |

`FetchLastPage` may end a fetch on any page, since the response decides whether it carries a
cursor; it must end it where the code's tests say so.  `flaws` is a history variable: it records
the four ways in which the code lets the cursor pass an event it has not written.

* *truncated*: a fetch stops at `PageLimit` events, and the cursor still takes the endpoint's tip;
* *skewed*: two filter batches were served at different tips, and the cursor takes the larger;
* *lagging*: nothing advanced, and the cursor is set to the latest ledger read before;
* *coldstart*: a second worker started later than the first and overtook its cursor.

`CursorCoverage` says that there is no fifth.  What is assumed of an RPC endpoint: it serves all
events up to its tip, in id order, at most `PageLimit` to a page; a request that starts after the
tip fails; its tip never goes back.  The scan limit and the retention of a real endpoint are not
modelled (a worker that was away for longer than the retention gets an error on each cycle).

### ReplayService, BackfillService

`copies[x]` is the number of rows the table holds of event `x`.  An insert adds one, a merge
removes some, and a listing with `LIMIT` counts rows, not events: this is what the windows of
`ReplayService.Run` have to cope with.  `from`, `to`, `cursor` and `chunk` are its arguments and
locals; `wanted`, `replayed`, `derived`, `truncated` and `stalled` are history.

In `BackfillService` `row` is `backfill_state`, `command[r]` the range of run `r`, and `last`,
`cursor`, `batch` and `chunk` the locals of its `Run`.  Any number of runs share the row.  Each
endpoint has a `tip[e]` of its own, and every call, the one for the latest ledger and the one for
each page, is answered by any endpoint that can answer it, since the pool may fail over between
any two.  `active[r]` is the pool's active endpoint of the run's process; `first[r]` and `pos[r]`
are the endpoint and the cursor of a fetch that pages on, which fails when the active endpoint is
another by then (`Reanchor`).  The end of a window is not part of the request: a page has the first
`PageLimit` events from the window's first ledger on, those after the window included.  A fetch
ends in any of the ways of `FetchEnds`, or without a cursor in the response.  It may end short: the
window has more events than the limit, or the endpoint that answered last is behind the one that
gave the latest ledger.  `Run` completes the window in both cases; `missed[r]` records the events
that were passed over so.

### RealtimeHub, StatsRefresh

`pc[c]` is the place of `ServeHTTP` of connection `c`; `pump[c]` and `ping[c]` are its two
goroutines, `queue[c]` its channel, a sequence of messages of which only the chunks they carry are
kept.  `stored` is the sequence of inserts, each a chunk with its one `ingested_at`; events may be
inserted and published again.  `GetHome` answers with the newest `RecentLimit` rows of the network
(eight in the code), copies of one event that are not merged included.  `before` is history: what
was broadcast when the connection registered.
`closed` is the set of connections whose channel is closed: a send there panics.  The
deferred calls run in the code's order, `Unregister` before `cancel`.  `Register`, `Unregister`,
`Broadcast` and `Close` hold the lock and are one step.

`StatsRefresh` starts where `HandleIngest` calls `scheduleStatsRefresh`: `timer` is the debounce
timer and each element of `Refreshes` a goroutine that runs `refreshDerived`.  Its query and its
broadcast are separate steps, so that refreshes overtake each other.

### SchemaRegistry

`status` is `event_schemas` for one contract and network: trust tier and status of a row in one
value.  `Publish` is two statements, `ReadVersion` and `Insert`.  A verification consumes its
challenge (`Consume`, one statement), is checked (`CheckFails` ends it; a success leaves no trace of
its own) and runs the transaction of `VerifyContractForPublisher`: `ListTargets`, then for each
event the archive statement and `Promote`, then `Commit`.  `SchemaService.Verify` is the single
statement `MarkVerified`.

The database runs at its default level, READ COMMITTED, and that is what is modelled.  What a
transaction has written is in `archived` and `promoted` until `Commit` puts it in `status`; the
others do not see it but wait for it.  An archive statement has two steps: `StartArchive` fixes the
rows it finds, `Archive` has waited for them and looks at them again; a row that became verified in
between is not among them.  `Promote` waits while another transaction has a row of the event in
the unique index of verified schemas, and then fails if another schema is verified.  `Rollback` is
any statement or commit that fails, the deadlock that PostgreSQL resolves included.  An expired
challenge is one that nothing consumes.

### Projects

A creation `c` is a request for a project or for a publish token alone; the token and the project
row it creates bear its name, since a row keeps one token.  `cpc[c]` walks through
`ProjectService.Create`: `TrySlug` is one round of `uniqueSlug`, `CountActive` and `InsertToken`
are `PublishTokenService.Create`, `InsertProject` is the insert with its unique constraint.  An
update reads the row (`ReadProject`), perhaps looks for a free slug (`RetrySlug`) and writes name
and slug back (`WriteProject`).  `HandlePublish` resolves the token, publishes, resolves it once
more and marks the project; the failures that the code ignores (`last_used_at` cannot be written,
the token cannot be resolved the second time, the project cannot be marked) are `Ignore`, with a
bound.  After the second of these the handler skips the mark and answers success, with the token
still active.  `SyncPublishedStatus` is the repair that
`Get` and `List` make.  A slug is a sequence of words, so that the `-2` that `uniqueSlug` appends to
one name can meet the slug of another.

### Accounts, ApiKeys

`Accounts` is one email address.  A request `r` that sends a link invalidates the tokens before
it, stores one and mails it, three steps; one that uses a link looks its token up (`OpenLink`) and
consumes it in a transaction.  A reset writes the password in another (`WriteResetPassword`), and
a change of password drops the reset links in another (`DropResetLinks`).  `Fail` ends any request
at any of its statements and leaves what is committed.  `crossed` are the tokens stored while
another request was about to store its own, `burned` the reset tokens whose request failed before
the password was written: they are the two exceptions that the properties name.  A token is consumed
by its id, whether or not it has been consumed since it was looked up, so that one link may serve two
requests at a time; the properties claim nothing against that.  `fresh` stands
for the cooldown between two mails; a token is taken as unexpired as long as it is active.  The
tokens of a kind are numbered in the order in which they are stored (`IsNext`), at most `MaxLinks`
of both kinds.

`ApiKeys` has the creation of keys in the two statements of `APIKeyService.Create`, revocation, and
requests that bring a key (`ResolveKey`) or none (`RefuseWithoutKey` where a key is required,
`AcceptWithoutKey` where it is optional).

### Decoder, Listings, SchemaReads, SchemaSamples

`Decoder` translates the match and the extraction of fields on tagged documents: prefix topics,
values as scalar, vector and map, `params` before `args`, and the integers that go through a JSON
number and so through a `float64`: `AsFloat64` rounds those of a magnitude beyond `MaxExact` (2^53,
scaled down for TLC) to the nearest representable one, ties to even, negative ones alike; `AsInt64`
is the conversion back, whose result beyond `Int64Limit` (2^63) Go leaves to the build
(`OutOfRange`).
`SchemaReads` holds the rows of one contract and network with the times they were created and
updated; the statements that change them are single actions here, because their interleaving is
the subject of `SchemaRegistry`.  On these rows it defines the bundles of `groupIntoBundles`
(`Batches` is its loop, `AddToBatches` one turn of it), the profile, the detail by version, the button of
`buildContractPublications` (`CanVerify`), and the two queries by which a decode picks a schema:
`GetEventSchema` with an event name, `ListByContract` without.  A decode that names an event or a
version without a row is an error (`Failed`); one whose schema does not match the event is raw.
`DecodeNamed` and `DecodeUnnamed` keep the two apart.  Where SQL's order leaves ties, the
operators return the set of rows that may come first; a sorted list is `InOrder`, which puts each
element at the place after those that come before it.  The clock gives no two schemas one time, so
that the tie-break by name in `groupIntoBundles` has nothing to decide.  `SchemaSamples` has four bodies and six
events in the shapes of `testdata/registry/samples` and `docs/sep-0048-naralabs-schema-format.md`.

### ExploreReads

`table` is the set of rows of `events`: a copy has its event, its stamp and what the decode made
of it.  `batches` is what the worker and a replay have decoded and not inserted.  A chunk of the
worker is decoded first and stamped as a whole on insert; a batch of a replay is stamped as a whole
before its rows are decoded again, and a row whose decode fails keeps its flag.  `ApplyBatch` leaves
open which events of a batch the versions chosen at that moment match: a version that is published
or verified takes the place of the one before it in the choice (`SchemaReads` has the queries), and
need not match what that one matched.  Then the event is raw, and nothing has failed.  `Merge`
drops a copy for a later one of the same partition.

The queries are operators over the table: `ListEvents`, `ListContractEvents`, `ListContracts`,
`ListActiveContracts`, `ListRecentEvents`, `GetEventByID`, `GetContractByID`'s status, `GetStats` and
`GetHome`.  Lists of events are ordered by stamp, ledger and id, so a copy has one place.  Lists of
contracts are ordered by `last_seen` and `event_count` alone, and contracts of one chunk may tie in
both: `ContractLists` is the set of lists that the query may have (`Orders`), and each page is of
any of them.

### EndpointPool, PollLoop

In `EndpointPool` `client[c]` is a call of `ResilientClient`: `Begin` and `NextPage` enter
`rpcchain.Do`, `Skip`, `Ask` and the outcomes of an endpoint are the loop of `Pool.Call`, `Retry` and
`GiveUp` its end.  Counting a failure and marking an endpoint down are two steps, as in the code.
`pool` says which process it is: the API server has many calls at a time, which may be cancelled;
a worker or a backfill has one, but fetches pages, and refuses the next page when another endpoint
has become active (`MustReanchor`).  One endpoint, `healthy`, answers whatever it is asked.
`IngestWorker` and `BackfillService` leave the choice of the endpoint free at each of their calls,
every endpoint with its own tip; this module is where it is made.

`PollLoop` has three actors: whoever edits the file and sends SIGHUP, `watchConfigReload` with its
channel of one signal and the two stores of `SetConfig`, and `Run`, which loads the interval,
sleeps, runs a cycle and stores the interval it has adapted.  `SettingsApply` is about the settings
of the worker.  The README of the repository (line 70) promises that SIGHUP reloads the RPC settings
too; the RPC client is built once, at `cmd/worker/worker.go:54`, and never sees them.  Nothing is
modelled of that.

### Parts

The parts above share no state, so `Parts` instantiates them side by side: `part` says which one
a behaviour is of, and the others stay as they were.  Its properties are those of the parts, each
for its own part.  `MCParts` adds the values of the constants for TLC.

## 3. Hazards

`PROJECT.json` has them all.  Those where the code does not do what one would expect:

* a range with more events than `INGEST_PAGE_LIMIT` loses the rest (run `ingest_page_limit`), and
  so does a window of a backfill (`missed` in `FinishedRunCoversRange`);
* a backfill's window is completed although the endpoint that answered its last fetch was behind the
  one that gave the latest ledger, and had only part of it (`missed` again);
* a browser's snapshot has eight rows: what was broadcast before it registered and has as many newer
  rows above it, unmerged copies included, it never gets (`Buried` in `NoGap`);
* a replay whose window reaches beyond the last ledger that has events never ends (run
  `replay_stalls`); with the default `--to-ledger 0` that is every replay;
* a replay's listing that is full in the last ledger of its window skips the rest of that ledger;
* a ping that fires between `Unregister` and `cancel` sends on a closed channel and ends the
  server; `RealtimeHub` reaches it, and `NothingLeaks` names it as an outcome;
* a refresh of the statistics that is overtaken leaves the older numbers on the screen until the
  next chunk;
* a contract that is verified again gets, for each event with a community version left, the latest
  of these, even if the verification before had promoted a newer one; the registry compares
  versions only for the button it shows (`canVerify`);
* a backfill that is started again begins at its first ledger: `Start` resets the progress that
  `Run` would resume from;
* `START_LEDGER=latest-0`, or no retention, makes a new worker find itself caught up for ever: no
  property covers it, since it is a configuration and not a step that goes wrong;
* three requests that the clients of the API cancel take a healthy endpoint from all others for 30
  seconds, and a page that is not asked for counts as a failure of the endpoint: a worker never
  loses the healthy endpoint to that if it is among the first four, and as the fifth it can
  (`WorkerIsServed`, which is part of `HealthyServes`);
* a creation of a project that loses the race for its slug leaves a token that nobody knows and
  that counts against the limit; two creations at once exceed the limit (`TokensAreLimited`);
* a password reset whose second statement fails has used its link (`burned`);
* an event that was shown decoded is shown raw again when a newer copy is inserted without fields:
  because its decode failed, because it was decoded before its schema was published, or because a
  version that is newer, or newly verified, does not match the event, which is no failure at all
  (`DecodingStays` names a newer copy as the exception);
* contracts of a chunk tie in the order of the contract lists, so that a contract may be on two pages
  or on none (`ShowsContracts`, part of `ExploreAgrees`, promises a place only to one without a tie);
* a publication is lost from sight by two statements that fail and are ignored: its token's use is
  not noted, and the token is then not resolved again (`PublicationShows` holds for one);
* a decode that names an unknown event or version is answered with a server error instead of the raw
  event (run `no_match`), and a batch fails as a whole;
* the RPC settings are not reloaded, against the README: no property covers it, since no step of
  the modelled settings goes wrong;
* a schema with `args` of several types, the documented example among them, decodes no event (run
  `positional_args`).

## 4. Runs

Each run answers one question.  All pass but the four marked *violation*.

| Run | Properties | What it shows |
| --- | --- | --- |
| `ingest_endpoints` | `TypeOK`, `CursorWithinNetwork`, `CursorCoverage`, `PublishedAreIndexed`, `EventuallyIndexed` | two endpoints, a late event, a failure anywhere: failover in a fetch, reanchoring and the fallback; messages follow rows; every event that is not skipped is indexed |
| `ingest_workers` | `CursorCoverage`, `DerivedRowsHaveEvents`, `CursorNeverRegresses`, `ImplementsLedgerIndex` | two workers with two filter batches and a cold start each, the rescan, a failure anywhere; every step is one of `LedgerIndex` |
| `ingest_page_limit` (*violation*) | `NothingSkipped` | one ledger with two events and pages of one: the cursor passes the second |
| `replay` | `OnlyTheRange`, `CompletedCoversRange`, `EndsUnlessStalled` | copies, merges and inserts under the listing, a failure and a second run |
| `replay_stalls` (*violation*) | `ReplayEnds` | a window whose last event is in its first ledger is listed for ever |
| `backfill` | `FinishedRunCoversRange`, `RowTellsProgress` | two runs, one after the other or overlapping, two endpoints of which one may be behind, two batches, pages of two, a failure, a rerun |
| `realtime_hub` | `TypeOK`, `AtMostMaxClients`, `BroadcastNeverPanics`, `NoGap`, `OwnNetworkOnly`, `NothingLeaks` | two browsers and room for one, a chunk of two events, snapshots of one row, a failure, a shutdown |
| `stats_refresh` | `RefreshIsDue`, `StatisticsSettle` | four chunks, three overlapping refreshes, a loss |
| `schema_registry` | `OneVerified`, `VersionsAreSound`, `ChallengeServesOnce`, `VerifiedStays`, `AllOrNothing`, `RequestsEnd` | two verifications of two publishers over two events, two publications of one version, one failure |
| `independent_parts` | `PartsTypesOK`, `SlugsAreSound`, `LimitsHold`, `PublicationShows` | two creations with slugs that meet, an update, two publications, a limit of one token, up to three ignored failures; four creations of keys under a limit of two |
| | `LinksAreSound` | two requests at a time over three links of an account, two of one kind and one of the other, with a fault anywhere |
| | `ReadsAreSound`, `DecodingIsSound` | two publishers, four bodies, verifications of both kinds, six events decoded with and without a name |
| | `ExploreAgrees`, `DecodingStays` | two events of two contracts, a worker and a replay with batches of up to two that share a stamp, three stamps in two months, a decode that fails |
| | `HealthyServes` | two clients of the API and two endpoints, with three requests cancelled, or a worker and five endpoints, with any of the first four the healthy one |
| | `SettingsApply` | three signals, and four files of which one is not accepted |
| `positional_args` (*violation*) | `PositionalArgsDecode` | the documented example of a schema decodes none of the sample events |
| `no_match` (*violation*) | `NoMatchStaysRaw` | a contract has a schema, and a decode that names another event or version is an error |

In `replay`, `backfill`, `stats_refresh` and `schema_registry` the types are the last conjunct of
`OnlyTheRange`, `FinishedRunCoversRange`, `RefreshIsDue` and `OneVerified`.

Bounds and why they are enough.  In the ingest runs a network of three ledgers with one event per
ledger and batch has a ledger before, at and after any cursor, which is what a skipped ledger, a
range end and a rescan need; 26 watched contracts are the smallest number with two batches; two
workers and two endpoints suffice for every pairwise race, and one failure or restart can come at
any step, so that what the *next* cycle makes of it is explored.  The page limit is 1 or 2, so
that pages end within and at the end of a range.  In `replay` a window of three ledgers holds up
to eight rows for a listing of three: a listing cuts between events, between copies and in the
last ledger.  In `backfill` the window of ledgers 1 to 3 overfills a page of two, the window of
ledger 4 has an empty first batch, and the window from ledger 2 fits a page; with two endpoints at
any two of four tips a fetch is cut short by a lagging one, refused by both, or paged on after the
active endpoint has changed.  In `realtime_hub` a
channel of one is full as soon as the snapshot or a message waits in it, so that every send may be
dropped, the client limit is one below the number of browsers, and a snapshot of one row cannot show
a chunk of two events.  The chunk is inserted once there, so that the liveness of the goroutines can
be checked in the same instance; several inserts, stamps and unmerged copies are left to the theorem
`StreamHasNoGap`.  In `stats_refresh` three refreshes are enough for two that are both
overtaken.  In `schema_registry` the second publisher has no schema of the second event, so that
the transactions overlap in one event and differ in the other, and an older verified row, a second
version and a row marked verified in the middle all occur.

In `independent_parts` each part has the smallest instance in which its race exists.  Two creations
race for one slug and for the last token, and names 1 and 3 have slugs of which one is the other's
second candidate, so that an update can take either.  Three cancelled requests are what marks an
endpoint down.  A publication ignores at most three failures, so three may happen; two of them
suffice to lose it from sight.  A worker refuses one page at each move of the
active endpoint; a worker is not capped, and with five endpoints TLC goes through all its states.  Links of one kind do
not touch those of the other, so that two of one and one of the other (`MaxLinks` is 3) are enough.  Four
keys under a limit of two allow an overlap and a creation after it.  Three
stamps with months of two put copies of an event into one partition and into different ones, and two
events in a batch make two contracts tie.  Four
files and three signals put a narrower, a wider and an invalid setting between any two stores.  A
window of one and a clock of four put schemas within the window, at its end and after it.  Every cap is
a constant marked *bound*.

Deadlock is checked in the ingest runs.  It is switched off where the system stops by itself: a
replay, a backfill or a stream of chunks that has ended, a server that has panicked, a
registry that has served all its requests (that none of them hangs is `RequestsEnd`), and a part of
`independent_parts` whose requests, stamps or signals are used up.

Every property of a passing run has a mutant in `PROJECT.json`: an operator of the same module,
marked `Mutant:`, that changes an action the way a slip in the code would, and under which TLC
finds the property violated.

### Fairness

* Worker: `WF(IngestOnce(w))`, since `Run` always starts the next cycle and each call returns or
  fails at its timeout, and `WF(EndpointAdvances(e))`, since an endpoint that is up follows the
  network.  Nothing is assumed of the network or of failures, whose number is bounded.
* Replay: `WF` of `Run`, a sequential loop.  Merges, inserts and failures are free.
* Hub: `WF` of a handler once the connection exists, of its pump and of the end of its ping loop;
  these are goroutines of a live process.  Browsers need not connect, read or leave.
* Statistics: the subscriber receives, the timer fires and the goroutines run.  In the code a
  chunk at least every `STATS_DEBOUNCE_MS` puts the timer off for ever; the number of chunks is
  bounded here, so `StatisticsSettle` speaks of a chain that has gone quiet.
* Registry: `WF` of each verification's next step; a statement that need not wait is executed.
  `Rollback` is not fair: that requests end does not rest on a timeout or on the deadlock detector.
* `backfill`, `independent_parts`, `positional_args` and `no_match`: none; their properties are safety
  properties.

## 5. Findings

Four disagreements between the code and its documents, with the run that shows each:

* the page limit (`ingest_page_limit`): `README.md` has the worker persist the events it polls; the
  cursor passes some that are never fetched;
* the replay that does not end (`replay_stalls`): `--to-ledger` promises an open end, the help text
  an idempotent upsert;
* positional arguments (`positional_args`): `docs/sep-0048-naralabs-schema-format.md` gives a transfer of
  three as its minimal example; the decoder reads each of them from the whole value;
* no matching schema (`no_match`): `README.md` says that the answer stays raw; where the request names
  an event or a version that has no row, `decode_service.go` tests for an error of the registry
  service while the adapter hands it the repository's, and the request fails.

The lines are quoted in `PROJECT.json`.

## 6. Proofs

`IngestWorkerProofs` proves seven theorems of `IngestWorker!Spec`, for every number of workers,
endpoints, contracts and ledgers and every setting that `ConfigAssumption` admits:

| Theorem | Property |
| --- | --- |
| `TypeCorrect` | `TypeOK` |
| `CursorIsWithinNetwork` | `CursorWithinNetwork` |
| `CursorIsMonotone` | `CursorNeverRegresses` |
| `PublishedEventsAreIndexed` | `PublishedAreIndexed` |
| `DerivedRowsAreBacked` | `DerivedRowsHaveEvents` |
| `CursorIsCovered` | `CursorCoverage` |
| `ImplementsIndex` | `ImplementsLedgerIndex` |

The assumptions are those the modules name: `WatchedAssumption`, `BoundsAssumption` (there is a
ledger and an event) and `ConfigAssumption` (what `config.validate` leaves: positive page and batch
sizes, a start of one of the three kinds).  TLC evaluates them in every ingest run.

The argument.  None of the properties is inductive by itself, because a cursor is written at the
end of a cycle from what was fetched and persisted many steps before.  The invariant has five parts:

* `WithinNetwork`: the chain, the tips and all ledgers a worker holds (`LocalsWithin`) are at most
  `head`, so a ledger that is closed later cannot be one that a cycle has already passed;
* `FetchedAreReal`: what a worker holds of events is part of the chain;
* `RowsInOrder`, from `ChunkWritten` of each worker: at each place in `persist` the current chunk
  has the rows of the inserts made so far, derived rows are backed by events and published events
  are indexed.  It gives `PublishedAreIndexed` and `DerivedRowsHaveEvents`;
* `Shapes`, from `CycleShape` of each worker: how the locals relate at each place (the job starts
  at the cycle's start, a position is an event already fetched, ...);
* `Coverage`, from `CycleCoverage` of each worker: until a flaw is recorded, every event on chain
  from the cycle's start to its next ledger, of the batches already done, is indexed; of the
  batch under way it is indexed, in `todo`, in what is fetched, or still to be served after the
  position; and between `origin` and the cursor all is indexed.

`PageCovers` and `BatchCovers` carry `CycleCoverage` over a page and over the change of batch;
`StillCoverage` over the steps of others, which only add rows and events of ledgers the worker has
not reached; `UpsertCovers` hands it to the cursor.  The refinement maps `indexed` to the events
on chain that have all their rows, and `skipped` to "a flaw is recorded"; the persist steps map to
`Index` or a stutter, `CloseLedger` and `LateEvent` to `Emit`, the steps that record a flaw to
`Skip`, and `UpsertCursor` to `Advance`, whose obligation is `UpsertCovers` again.

`RealtimeHubProofs` proves every safety property of the hub, for any numbers of connections,
networks and chunks, any limit and any size of the channel (`HubAssumption`):

| Theorem | Property |
| --- | --- |
| `HubTypeCorrect` | `TypeOK`, with the channels within their capacity |
| `BroadcastIsSafe` | `BroadcastNeverPanics` |
| `ClientsAreLimited` | `AtMostMaxClients` |
| `StreamHasNoGap` | `NoGap` |
| `NetworksAreApart` | `OwnNetworkOnly` |

* `ClosedAreGone`: no client has a closed channel, and neither a client nor a connection whose
  channel is closed is ever new again; without the second half a connection could be registered
  after its channel was closed.  A broadcast then never panics, and always reaches its listeners.
* `FewClients`: the clients are finitely many, so that adding one under the limit adds one.
* `Gapless` says of a registered client that has still to get or to send its snapshot what `NoGap`
  says of one that reads: until it is sent, the snapshot counts as held (`Pending`).  While the client
  waits for its snapshot it lacks only what was broadcast before it registered (`before`).  `GetHome` answers
  for that: what is `handled` is stored, and an event that none of the newest `RecentLimit` rows shows
  has that many rows above its own, merged or not (`SnapshotShowsTheRest`, with `MoreNewerRows`).
  Later inserts only add rows above (`BuriedStays`).  `OfferKeeps` and `QueuedTail` carry the rest over everything that writes
  to a channel or drains it.
* `ServedApart` adds the snapshot to `OwnNetworkOnly`, and that a connection without a network has
  nothing in its channel.

`StatsRefreshProofs` proves `NoRefreshIsLost`, that `RefreshIsDue` holds for any number of chunks, of
refreshes that overlap and of failures (`RefreshAssumption`).  The property with its types is
inductive, and the proof follows the witness: `HandleIngest` arms the timer, `Fire` turns it into a
refresh that has still to query, the query into one that has still to broadcast a count that is
new enough, and the broadcast into statistics, or it is `overtaken`.

`ProjectsProofs` proves four theorems of `Projects!Spec`, for any number of requests, any names and
slugs and any limits (`ProjectsAssumption`: the slugs are sequences, one try at least, `None` is no
name and no request):

| Theorem | Property |
| --- | --- |
| `SlugsStaySound` | `SlugsAreSound` |
| `TokensStayLimited` | `TokensAreLimited`, which `LimitsHold` has for part 1 |
| `PublicationsStayVisible` | `PublicationShows` |
| `ProjectsTypeCorrect` | `TypeOK`, which `PartsTypesOK` has for part 1 |

* That no two projects share a slug follows from the unique constraint, at which both writes look.
  That a slug belongs to its project's name does not: `WriteProject` writes what `ReadProject` and
  `RetrySlug` found steps before.  `Changing` says of an update under way that the slug it is going
  to write is one of the name it is going to write, `Wanting` and `Named` that neither is missing.
* `RoomIsLeft` says that a creation that has counted, and whose count no other insert has made
  stale, finds the tokens below the limit; an insert of another makes it stale, and no other step
  adds a token.
* `Seen` follows a publication: it uses its token twice and then marks the project.  Until it has
  answered, its token is used or a failure was ignored; when it has, the project can be seen or two
  failures were, since the resolution that fails, like the mark, is a second one.  `Kept` is the rest of the
  argument: what is used, published or ignored stays so, and a creation that has answered brings no
  token and no project any more.

`BackfillServiceProofs` proves three theorems of `BackfillService!Spec`, for any number of runs,
ranges, batches and events, any batch size and any page (`BackfillAssumption`):

| Theorem | Property |
| --- | --- |
| `FinishedRunsCoverTheirRange` | `FinishedRunCoversRange` |
| `RowsTellProgress` | `RowTellsProgress` |
| `BackfillInvariant` | both, with the invariant |

`Pending(r)` are the events that run `r` was started for, has not indexed and has not `missed`.
`Ahead(r, e)` says where such an event is: not before the run's cursor; within the window, in a batch
still to come; in the batch under way, in the chunk it holds, as far as a fetch under way has paged.
`RunProgress` says that every pending event is ahead, and that a run that is done has none.  A page is
an initial segment of what its endpoint serves (`PageIsFirst`), so that between two pages nothing is
left behind whichever endpoints answer them (`FetchNextPageProgress`), and what the last page leaves out
of the window is what `NoteMissed` records (`LastPageMisses`).  `ChunkIsStored` is what makes the derived rows complete an event.  For
the row, `RowFollows` says that as long as no two runs overlapped the one that works is the last
that was started, and that the row has its cursor.

`ReplayServiceProofs` proves three theorems of `ReplayService!Spec`, for any number of ledgers,
events and copies and any batch size (`ReplayAssumption`):

| Theorem | Property |
| --- | --- |
| `ReplaysKeepToTheirRange` | `OnlyTheRange` |
| `CompletedReplaysCoverTheirRange` | `CompletedCoversRange` |
| `ReplayInvariant` | both, with the invariant |

`Progress` says that nothing that is still to be rewritten lies behind the cursor, and `Listing` that
what a window has left out is not before what it has, and out of the window unless the listing was
full.  The difficulty is the listing, which takes the first rows by ledger and counts copies: the
lemmas on `RowsOf` say that a larger set of events has as many rows or more (`RowsOfMore`), that a
window with fewer rows than the limit is listed whole (`ListedAll`), that a listing has all of its
window before its last ledger (`ListedBefore`), and that it is empty only if the window is
(`ListedSome`).

`SchemaRegistryProofs` proves six theorems of `SchemaRegistry!Spec`, for any publishers, events,
versions, publications, challenges and verifications (`RegistryAssumption`):

| Theorem | Property |
| --- | --- |
| `EventsHaveOneVerifiedSchema` | `OneVerified` |
| `VersionsHaveNoGap` | `VersionsAreSound` |
| `ChallengesServeOnce` | `ChallengeServesOnce` |
| `EventsStayVerified` | `VerifiedStays` |
| `RequestsPromoteAll` | `AllOrNothing` |
| `RegistryInvariant` | the invariant |

* `Transaction` says what a verification has written and not committed: it has archived verified
  rows only, each to be replaced by one that it has promoted or is about to, and what it has
  promoted has no other verified row left but those it has archived.  The last conjunct holds only
  because nobody else can make a row of the event verified: `Apart` (no two transactions promote
  schemas of one event, which `Promote` waits for) and the locks of `OneVerified`'s types.  Commit
  then turns one verified row of an event into one.
* `NoGap` says that the versions of a publisher's event are an initial segment, which `Publication`
  keeps: the row to be inserted follows one that exists, and rows are never deleted.
* `Consumed` says that a challenge that a verification has is used, so that none gets it again.

`PartsProofs` proves theorems of `PartsSpec`, for all values of the constants that the assumptions
of the parts admit.  `PartsAssumption` has these assumptions, and TLC evaluates it:

| Theorem | Property | For |
| --- | --- | --- |
| `LimitsAreHeld` | `LimitsHold` | any limits, names, keys and requests |
| `LinksStaySound` | `LinksAreSound` | any tokens, passwords, requests and faults |
| `DecodingStaysSound` | `DecodingIsSound` | any schemas, events, publications and verifications |
| `ReadsStaySound` | `ReadsAreSound`: the bundles and the button | any schemas, publishers and window, and the same |
| `PagesAgree` | `ExploreAgrees` | any events, contracts, batches, stamps and page sizes |
| `DecodingIsKept` | `DecodingStays` | any events, batches, stamps, months and failures |
| `HealthyStillServes` | `HealthyServes` | any endpoints, requests, attempts and cancellations |
| `SettingsAreApplied` | `SettingsApply` | any settings, any number of signals |
| `PartsStayTyped` | `PartsTypesOK` | all of them |

Each rests on a theorem about the part alone, `Assumption => (Spec => ...)` of its instance:
`UserKeysStayLimited`, `AccountLinksStaySound`, `CopiesKeepDecoding`, `RequestsAreAnswered` and
`HealthyEndpointServes`, `LoopAppliesSettings`, and one about the types of each (`KeysAreTyped`,
`AccountsAreTyped`, `CopiesAreTyped`, `PoolsAreTyped`, `PollingIsTyped`, `RowsAreTyped`).
`PartsImplementEach` takes them to `PartsSpec`: a behaviour of `Parts` is a behaviour of every part,
since a step of `Parts` is a step of one of them and leaves the rest alone.

* Links.  Each request holds what it has read, so the invariant says what that still means: a token
  that a request is about to store is no one else's, and one it has in hand is used, or was active
  when it looked.  That one link works at a time follows with `crossed`, the tokens stored while
  another request was about to store; that a used link counted, with `burned`.
* Keys.  The argument is that of `RoomIsLeft`.
* Settings.  `AdaptedIsNearer` is the arithmetic of `nextAdaptivePoll` after `Validated`: half as much
  again or half, cut off at the bounds, brings an interval outside of them nearer.  It fails for an
  interval of one nanosecond, whose half is nothing; `SettingsApply` excepts it.
* Copies.  `CopiesAreStamped` says that no copy and no batch has a stamp of the future, that the
  copies of an event differ in their stamps, and that a batch has an event once and a replay's batch a stamp
  that no copy of the table has (`BatchIsStamped`, `CopiesStay`).  So an event is shown by one copy.  A
  merge drops a copy for a later one of its partition, and the latest stays; a replay that is inserted
  late is shown only if it is the latest; and where an insert changes the copy that is shown, the new one was not in the
  table before (`ShownStays`).
* Rows.  `RowsAreOrdered` is what the readers rest on: a row bears its body's event name, its times
  are in order and not in the future, no two were created at one time, and there are fewer rows than
  ticks of the clock, so that they are finitely many and a query with an order finds a first one (`SomeAreNewest`, `FirstRowsOfEvent`).
  With it the two ways to choose a schema are compared (`DecodingsAgreeThen`), and the button with the
  row that verifying would promote (`ButtonIsSound`).
* Lists.  `OrderedList` is about a finite set with a strict total order: the places that `InOrder`
  gives, one more than the number of elements before, are distinct and fill 1 to n, because an
  injection of a finite set into one of its size is onto.  So every sorted list of these modules has
  each element once, in order: schemas by creation, bundles by version and update, copies by stamp,
  ledger and id.  Contracts have no strict order; they are in some order of `Orders`.
* Bundles.  `Batches` is a function defined by recursion on the number of schemas.
  `LoopIsDefined` shows that there is such a function, and `BatchesAreSplit` that `SplitAt` holds
  after each round; both take the least round at which the statement fails, and contradict it.
  `SplitAt` is the invariant of the loop: the batches so far have the schemas so far, each within the
  window of its first and of its publisher, each before the next, and the first of the next batch is
  of another publisher or late.  It needs that no two schemas were created at one time
  (`RowsAreOrdered` says so: a row is created at the clock's time, which then moves on).  `Bundled`
  is what is left of it once the bundles are made, and partition, order and detail follow from that.
* Pages.  Page `p` has the places from `PlaceBefore` to `PlaceUpTo` (`PageHolds`), and the place of
  an element determines its page: the quotient by the page size (`PagesShowAll`).  A page size is
  at least one (`ReadsAssumption`; the repository replaces any other by its default).
* The explore API.  Stamps are at most `MaxStamp` and tell the copies of an event apart, so the
  table is finite (`TableOfStamps`); stamp, ledger and id order it (`CopiesAreListed`).  `ListCovers` then
  gives each list of `Covers`; with page size one it gives the page on which an event is shown
  (`CopyIsShown`), and `KeptContracts` compares the filters of the contracts with their status.
  Contracts have at least one order, since `Ahead` compares pairs of numbers (`ContractsHaveAnOrder`).
  In each of them a contract that ties with no other has the place after those ahead of it, whatever
  the order of the others (`ContractsAreListed`), hence the same page in all of them (`PagesAlike`);
  `ContractsAreShown` has that and what holds of every single page.  The home page and the first page of
  a list have the same set of possible answers (`HomeAgrees`).
* Fields.  A decoded field is a value of the type its schema names, read from a topic, from a member of
  the value or from the value itself; `FieldsAreShown` follows `Param` through these places, and
  `DocumentsOfEvent` says that each is part of the event.
* Endpoints, the API.  `OneRound` says that a call comes to each endpoint once in a round, so that a
  cancelled request fails at the healthy one at most once.  `Doomed` are the cancelled requests that
  still have it ahead; `Blamed` says that its failures and the doomed requests together are no more
  than the requests that were cancelled.  A request that nobody cancelled and that has not found the
  healthy endpoint marked has it ahead (`OneRequest`), and so cannot have come to its end.
* Endpoints, a worker.  The healthy endpoint fails it only by the refusal to go on paging after the
  active endpoint has moved.  The moves go in one direction, towards the healthy endpoint, at which
  they end (`CallsGoOn`).  Each makes one round refused, which costs an endpoint one failure at most
  (`FewFailures`), and an endpoint is marked at the third (`MarksAreCounted`); the endpoint at which
  a refused round ends is not marked (`LastRefuses`), so that its refusal is what the caller sees and
  answers by fetching anew.  When the healthy endpoint is among the first four, its failures stay
  below three.

Only model-checked: liveness, that is `EventuallyIndexed`, `NothingLeaks`, `StatisticsSettle`,
`EndsUnlessStalled` and `RequestsEnd` (the prover does not reason about fairness).  Every
safety property of the runs that pass is proved.  The library's induction theorems cannot be
used, since their parameter is an operator; where a proof is by induction, over the schemas of a
list or the fields of a payload, it is written with the least counterexample, which exists in any
non-empty set of naturals (`Least`).

## 7. Not modelled, and the plan

Left out:

* parsing XDR into tagged documents (`lib/scval`), previews, summaries and the rendering of events,
  text search and activity buckets of the explore API: conversions and presentation, no state;
* of the registry, search and listings over many contracts, and the look-up of a contract's
  deployer with its cache (`contract_authority_service.go`), which is part of a check that may fail;
* hashing, signing and the contents of tokens, and expiry by time: a token is active or it is not;
* the length of every delay: backoff, throttle, cooldown, poll interval in seconds, the 30 seconds of
  an endpoint that is down; each may end at any time;
* the scan limit and the retention of an RPC endpoint, and the Horizon look-up of the backfill, whose
  result is only logged;
* HTTP routing and CORS, migrations, start-up and shutdown of the processes other than
  the hub's: sequential code and I/O;
* ledger arithmetic at 32 bits: ledgers are far from 2^32, and the subtractions that could wrap are
  guarded (lemma `LedgerArithmetic`).

What is left, in this order:

1. `EndpointPool` as a refinement of the free choice of an endpoint in `IngestWorker`.
2. `Projects` composed with `SchemaRegistry` through the publish token.
