# AnyNote: a TLA+ verification project

AnyNote is an end-to-end encrypted note application: a Flutter client that works
offline against a local database, and a Go server that stores ciphertexts, relays
AI requests to language-model providers, publishes posts and takes payments. This
directory models the parts whose correctness depends on *order*: what happens when
devices, requests, retries, failures and crashes interleave.

Paths below are relative to `src/`; `backend/` stands for `src/backend/internal/` and
`core/` for `src/frontend/lib/core/` where that is shorter.

## 1. Inventory

| Component | State | Operations | Hard behaviour | What makes it correct |
|---|---|---|---|---|
| `sync_blobs` table (`repository/sync_blob_repository.go`) | one row per user, item type and item id: version, ciphertext | batch upsert guarded by `version < $4`, pages by `version > since`, latest version, batch delete | equal versions from two devices; ties at a page boundary; commits that only look failed | a stored row is replaced by a strictly higher version only |
| Sync server (`handler/sync_handler.go`, `service/sync_service.go`) | the table and the operation log | push, pull, batch delete, progress/health, log cleaning | a pull is three queries outside a transaction | paging loses no stable row and ends once pushes stop |
| Sync engine of the client (`core/sync/sync_engine.dart`) | a run in progress: page, decisions, batch, answer | `sync`, `pull`, `push` | awaits between read and write; lost answers; exceptions in the middle of a page; a killed app; overlapping runs of one device | one body per version; the cursor covers only what was applied; `isSynced` is true only of what the server took; changes reach the server |
| Notes DAO (`core/database/daos/notes_dao.dart`) | notes with version, `isSynced`, `updatedAt`, trash mark | create, update, trash, restore, delete, pin, mark synced | the user edits while a sync run holds a snapshot | the same as the engine's |
| Sync metadata (`daos/sync_meta_dao.dart`) | the pull cursor | read, write | written after the rows it speaks for | never above an unapplied blob |
| Conflict resolver (`core/sync/conflict_resolver.dart`) | none | `resolve` | compares times of different meaning | the later write wins |
| Offline queue (`core/sync/sync_queue_manager.dart`, `daos/sync_operations_dao.dart`, `offline_queue_service.dart`) | operations with status, retry count, next retry | enqueue, process, retry with backoff | none in practice: nothing in the application enqueues, the table stays empty | - |
| Sync lifecycle (`core/sync/sync_lifecycle.dart`, `background_sync_service.dart`) | two timers, in-progress flag, calls that wait for the key or the engine | start, stop, debounced request, periodic sync, sync button | timer callbacks and awaits against login, logout and saves | its runs do not overlap; nothing runs after a logout; a saved note is synced |
| LLM gateway and circuit breaker (`llm/gateway.go`, `llm/circuit_breaker.go`) | state, failure/success counters, probes in flight | `Chat`, `ChatStream`, record success/failure | results arrive in another state than the one that admitted the call | opens on consecutive failures only; bounded probing; recovers |
| AI proxy, model configuration, quota, rate limits (`service/ai_proxy_service.go`, `llm_config_resolver.go`, `llm_config_service.go`, `quota_service.go`, `rate_limiter.go`, `redis_rate_limiter.go`) | configurations of the user, a quota row, a window per limiter, a cached reset day per process | resolve the key, allow, reset, charge; create, update, delete a configuration | two processes with caches of their own; midnight between two statements; Redis that does not answer | the limits hold, resets are not lost, the user's own key is used |
| LLM provider clients, AI agent and jobs (`llm/openai_compat.go`, `anthropic_provider.go`, `handler/ai_handler.go`, `service/ai_agent_service.go`, `queue/ai_job_handler.go`) | a channel between the goroutine that reads the provider and the consumer; attempts; the stored result | `ChatStream`, `Chat`, receive, retry, store | each side may end first; silent providers; timeouts in the middle of a retry; redelivered jobs | every request and every goroutine ends; complete means whole; a job leaves its result |
| Publishing, platform connections and adapters (`service/publish_service.go`, `platform_service.go`, `queue/publish_job_handler.go`, `platform/*/adapter.go`) | one connection per user and platform, publish log, queued jobs | connect, verify, disconnect, publish, retry | rows written back after an await on a remote site; redelivery after the post was made | disconnected stays disconnected; every post is reported or has an explanation; requests are handled (they are not, see section 3) |
| Payments and plans (`service/payment_service.go`, `plan_service.go`, `repository/payment_repository.go`) | webhook ids, payments, plan | checkout, webhook, upgrade | repeated and reordered events; the event is recorded before it is handled | a paid plan is granted once, and granted; a refund takes it back |
| Accounts, devices, push tokens (`service/auth_service.go`, `device_service.go`, `push_service.go`) | users, refresh tokens, devices, push tokens | register, login, refresh, delete, register and sweep tokens | check, issue and revoke are separate statements whose errors are logged | one account per address; a rotated token is refused; a deleted account leaves nothing |
| Shares, reactions, comments (`service/share_service.go`, `comment_service.go`, `repository/shared_note_repository.go`) | view counter, reactions and their counters, comments with parents | read, react, comment, delete, sweep | read-then-write counters; cascades beside inserts | limits hold up to overlap, counters equal the rows, replies have parents |
| Notifications, profiles, note links, semantic search, middleware, client cryptography, backup/import/export, user interface | rows of their own, or none | CRUD, I/O, pure functions | little that relates two steps | - |

How they interact: the client calls `/api/v1/sync/push` and `/pull`; the handlers call the sync
service, which calls the repository. `SyncLifecycle` starts `SyncEngine.sync` (pull, then push) one
run at a time; `SyncStatusNotifier.sync` (`features/settings/data/settings_providers.dart`: pull to
refresh and the button in the settings) calls the engine directly, beside a running sync. User
actions reach the notes table at any await of every run. Server and worker are two processes over
one PostgreSQL and one Redis: each has its own `Gateway` (one breaker per provider), its own rate
limiter and its own cache of the last quota reset. The worker runs publish jobs, but the deployed
server is built without the queue and enqueues none (`cmd/server/main.go:233`); Stripe and the
publishing platforms are outside and reached over HTTP. Deleting a user cascades in the database to
tokens, shares, reactions and comments.

## 2. Modules

| Module | Models | Notes |
|---|---|---|
| `SyncBlobs` | the table's SQL statements as operators on a function `Item -> Row` | extended by both specifications below |
| `VersionedStore` | what the table promises: rows change only to a strictly higher version, or disappear by a delete | abstract specification |
| `SyncServer` | handlers, service and operation log of one user, several paging API clients | implements `VersionedStore` |
| `SyncSystem` | devices with their note tables, cursors and running `pull`/`push`, composed with the server's table | |
| `LLMGateway` | calls of the gateway and one provider's breaker | |
| `Entitlement` | what payments promise: a plan is granted for a paid checkout, once, and what was taken back stays so | abstract specification |
| `Payment` | checkouts, webhook requests, payments and plans, Stripe's sessions and deliveries | implements `Entitlement` |
| `PlatformAdapters` | the six adapters as sequences of remote steps, and which of them may fail | operators only, extended by `Publish` |
| `Publish` | connect, verify, disconnect and publish jobs of one user on one platform | server and worker composed over the adapters |
| `Accounts` | registration, login, refresh, deletion, devices and push tokens | |
| `Share` | one shared note: views, reactions, comments | |
| `LLMStream` | one answer between provider, channel and consumer; `Chat`'s retries; the job's result | |
| `AIProxy` | the choice of the key, rate limiters and quota of one user in two processes | |
| `MCSyncSystem`, `MCShare` | bodies and symmetry sets for TLC | the other specifications run directly |
| `SyncBlobsProofs` | lemmas on batches, pages and the latest version | |
| `SyncServerProofs`, `SyncSystemProofs`, `ShareProofs`, `PaymentProofs`, `LLMGatewayProofs` | theorems about the module of that name, see section 5 | |
| `AIProxyProofs` | theorems about `AIProxy` and `LLMStream` | |
| `AccountsProofs` | theorems about `Accounts` and `Publish` | |

The last two extend two specifications each, so `LLMStream` and `Publish` carry their own names in
their framework definitions (`StreamInit`, `PublishNext`, `PublishTypeOK`, ...).

**SyncBlobs.** One user's rows; every statement filters on the user. An item stands for
(type, id), a row keeps version and ciphertext. `ORDER BY version` has no tie-breaker,
so `PullSincePaginated` yields *every* page the database may return. An unbounded page
(limit 0) is `Newer`.

**SyncServer.** `Push` is `BatchUpsert` in one transaction and the logging of its results in a
second statement that may fail on its own; `PushUnconfirmed` is a commit whose confirmation is lost
(the rows stay, nothing is logged, each result carries an error). A failed transaction changes
nothing and is a stuttering step. `PullPage`, `PullLatest` and `PullHasMore` are the three queries
of `syncService.Pull`, each with its own error path, and any request may come between them.
`PullBegin` and `PullReply` are the API client of `doc/api.md`, which repeats a pull with
`next_cursor` while `has_more` holds. The log keeps counts per age and kind; `conflict` and
`accepted0` are the same row for the code (`version = 0`) and are kept apart because its progress
report mixes them up. The session fields `got`, `cursors`, `stable`, `failed` are history variables.

**SyncSystem.** A body is the number of the edit that made it (edits are numbered in
real-time order) and the number of envelopes still around it. Of the two times the
code compares, only the outcome is kept: `newer` says that the local row was written
after the server stored its row; device and server clocks are assumed to agree.
`ServerPush` clears `newer` on every device, a local write sets it, also in the pages a
running pull already holds. Actions and code:

- `CreateNote`, `UpdateNoteReads` and `UpdateNote`, `SoftDeleteNote`, `BulkSoftDelete`,
  `RestoreNotes`, `BulkPin`, `PermanentlyDeleteNotes`: the DAO operations, at any time.
  `updateNote` reads the row and writes its version + 1 without a transaction, so it is two
  steps (`editing` holds what was read), and anything may happen between them. The bulk
  operations leave `updatedAt` alone and none but `updateNote` bumps the version.
- `PullStart`: `sync()` begins, reads the cursor (`from`) and sends the request.
- `PullPage`, `PullLatest`, `PullLatestError`: the request as the server serves it.
- `ApplyRead`, `ApplyReread`, `ApplyWrite`, `ApplyError`: one blob of the page: read the row
  and decide, then, after the awaits, write, for an existing row through `updateNote` with its
  own read; or stop the loop by an exception. `createNote` throws when
  another run inserted the row meanwhile; a search index that cannot be updated
  (`indexed = FALSE`) throws after the row was written.
- `PullDone`: write the cursor. `PullError`: no answer, an unparsable blob or a failing
  cursor write; `sync()` rethrows and does not push.
- `Gather`, `ServerPush`, `ServerPushError`, `MarkSynced`, `PushLost`, `PushNothing`:
  the run's `push()`.
- `Crash`: the app is killed; the database survives. `SetUnlocked`: the key is locked
  or unlocked.

Every action of a run has the run as a parameter: `Run` is the set of runs a device may
have at the same time. They share nothing but the database, the key and the server.

`Uploaded` is what the server may hold when the devices join: nothing, or notes pushed by a device
that is gone, which a new device pulls as one page.

`accepted` (what the server ever took) and `raced` (rows rewritten or removed after a
running push had read them) are history variables.

**LLMGateway.** The breaker's methods hold a mutex and are functions of its record; a
call passes `Allow`, waits, and records its result in the state the breaker has by then.
Time is one bit, `elapsed`: `openTimeout` has passed since the last failure. `streak`,
`probes` and `released` are history variables.

**Payment.** A webhook request takes an event in hand and then executes one statement per
step: `HandleWebhook` (signature and `RecordWebhookEvent`), `LookupPayment`, then
`CompletePaymentTx` (one transaction, whose commit may take effect and still return an error),
`ExpirePayment`, or `RefundPayment` and
`DowngradePlan`. Any statement may fail (`Fails`) and the server may die (`Crash`). Stripe is
external: `CustomerPays`, `SessionExpires`, `ChargeRefunded`, `SubscriptionEnds` change a
session and send an event, which is repeated until it is acknowledged and may also arrive
again after that. `UpgradePlan`/`UpgradeSetPlan` are the read and the write of the plan
endpoint. `Entitlement` is implemented with `paid`, `granted` and `holder` read off the
sessions and the history variables `granted` and `source`.

**Publish and PlatformAdapters.** An adapter is a sequence of named remote steps, with the
index of the step that makes the post visible (`SubmitIndex`), the steps whose failure is
tolerated, and how the answer is judged; every adapter has its own, taken from its
`StartAuth`, `PollAuth` and `Publish`. A publish job runs through
`HandleTask`, `LoadConnection`, `AdapterPrepares`, `AdapterSubmits`, `AdapterFinishes`, then
`UpdateStatusWithPostID`, `Published` and `JobReturns`, or `PublishFailed` and `FailureTold`;
`Retry` and `WorkerDies` are asynq's part. `Queue` says whether the server has a queue: the
deployed one has not, and the worker's handler is explored with one. `UpdateStatus` changes
nothing: its SQL leaves the parameter `$2` unused, which Postgres refuses, and every caller logs
the error and goes on. `PollAuth` of the HTTP platforms stays pending: they wait for credentials
in the session that nothing puts there. `Verify`/`VerifyWrites`,
`Disconnect`/`DisconnectDeletes`, `Connect`/`StoreAuth` keep the row they read.

**Accounts.** A request is at one statement of `Register`, `Login`, `RefreshToken` or
`DeleteAccount`; between any two, others run. Access tokens are not state: whoever got one
(`known`) may act until it expires, also after the account was deleted. Failing statements
whose error the code logs are steps that change nothing and go on. `SendPush` reads the
tokens, and later deletes the one the push service refused.

**Share.** `GetShare` and `IncrementViewCount`/`ViewNotCounted` are the two statements of a
view; `React` and `InsertReaction`/`IncrementCounter` or `DeleteReaction`/`DecrementCounter`
those of a toggle; `CreateComment`, `notifyNoteOwner`, `DeleteComment` those of comments.
`Cascade` and `RemovedWith` are the foreign keys of the migrations.

**LLMStream.** The goroutine of `ChatStream` holds the chunks of the line it read (`reader`),
the channel is a sequence bounded by `Buffer`, the consumer is a request, the agent or a job.
Lines are classes: text, a last text with the provider's mark, the mark, an error, anything
else; `OpenAIChunks` and `AnthropicChunks` say what each client sends for them. `Attempt` is
one round of `Chat`'s loop. `storeResult` writes the result of a job.

**AIProxy.** A request goes through `GetDefaultByUser`, `ListByUser`, `Allow`,
`ResetIfNeeded`/`ResetFails` and `TryIncrementUsage`; requests of the server and jobs of the
worker use the limiter and the cached day of their process. `window` is the set of
calls a limiter has recorded, each with its number and its tick: a timestamp of the slice, a
member of the sorted set (two calls in one nanosecond are taken to be two members).
`evictLocked` is the sweep of the in-memory one. A day is `DayLength` ticks, as is a window.
`calls`, `admitted`, `waved` and `charged` are history variables.

## 3. Runs

Passing:

| Run | Instance | Shows |
|---|---|---|
| `SyncServer` | 2 items, 1 body, versions 0..2, one paging client, pages of 1, a log of 1 row, failures | `PagingComplete`, `LatestCoversPage`, `PagingTerminates`, `ImplementsVersionedStore`, `TypeOK` |
| `SyncSystemTwoDevices` | 2 devices, one of them lockable, joining a server with 1 note, 2 further edits, versions 1..3, one extra envelope | `VersionNamesContent` |
| `SyncSystemRuns` | 1 device with 2 runs, 2 notes, a new user or a joining device, trash, crashes, 2 edits | `SyncedMeansAccepted`, `CursorWithinServer`, `CursorBelowUnapplied`, `TypeOK` |
| `SyncSystemLive` | 1 device, 1 note, trash, crashes, 3 edits, versions 0..3 | `PushProgress` |
| `LLMGateway` | 4 callers, thresholds 3, 2 probes, calls and streams | `TripsOnConsecutive`, `ProbesBounded`, `Recovers`, `TypeOK` |
| `Payment` | 1 user, 1 checkout, 2 webhook requests, all failures, crashes | `ImplementsEntitlement`, `RefundRevokes`, `CompletedMeansGranted`, `PaidIsGranted` |
| `Publish` | all 6 platforms, 2 connects, 1 verify, 1 disconnect, 1 publish request, with and without a queue, 3 retries | `DisconnectedStays`, `PostsExplained`, `PostsReported` |
| `Accounts` | 2 registrations of one address, 2 concurrent requests, 3 refresh tokens, 1 push token, 1 device | `OneAccountPerEmail`, `RotatedIsRefused`, `DeletedIsGone` |
| `Share` | 2 users, 2 readers, 2 togglers, 2 comments, 1 view allowed | `ViewsBounded`, `ReactionsCounted`, `RepliesHaveParents`, `TypeOK` |
| `LLMStream` | a channel of 2, 5 lines, 2 retries of `Chat`, 1 retry of the job | `DoneMeansWhole`, `RetriesUsedUp`, `RequestEnds`, `ReaderEnds`, `JobStored` |
| `AIProxy` | 1 request and 1 job at a time, 3 in all, 1 configuration, 2 days of 2 ticks, limits of 1, 1 fault | `WindowBounded`, `OwnKeyIsUsed`, `ResetWithinTwoDays`, `ChargesPerDay` |

`TypeOK` of the modules not listed with it documents the state's shape; it holds on the same
instances and is not part of the recorded runs.

*Bounds.* `MaxVersion`, `MaxEdits`, `MaxWraps` and `MaxLog` cap counters that grow without end; each
is the least value at which the case it guards happens: a version tie needs two edits from one
version, a re-pull of one's own blob needs a version beyond that, a tie within a page needs two
items, as does a page that is applied in part (`SyncSystemRuns`, whose joining device has such a
page to pull before any edit), a cursor that runs ahead needs a commit between two queries.
`Trashable`, `Lockable`, `Crashes` and `Failures` switch a group of actions on where a run is about
it, which keeps each run below three minutes. `MaxEditors` bounds the devices on which the user is
inside `updateNote` at once; it is one in every run, while a sync run of any device may be between
its own read and write. In `Payment` two requests are the least that handle two events, or two
copies of one, beside each other; a second checkout multiplies the states by thousands and adds only
the case of one user with two plans, which is among the facts below. `Share`'s `MaxLost` and
`MaxCount` bound the view increments that fail and the reaction count above which no toggle starts.
In `LLMStream` a channel of two fills up, and empties, within five lines. In `AIProxy` a limit of
one is reached by the second request and two days hold the midnight between a reset and a charge;
the server's limiter is the one in Redis and the worker's the one in memory, so both are explored.

`CHECK_DEADLOCK FALSE` stands where the system really comes to rest: in the SyncSystem
configurations once the edits and versions of the bound are used up, in the others once every
request was served. `SyncSystemRuns` (runs) and `Share` (readers,
togglers, comments) use symmetry and check no liveness.

*Fairness.* `SyncServer`: a request that is being served is answered, and the client continues.
`SyncSystem`: a run that was started goes on, and the failures it may meet do not hit *every*
attempt (strong fairness of the request, the parsing, the encryption, the local writes and the
commit). Nothing starts a sync for sure, so `PullStart` has no fairness and `PushProgress` is
conditional: *as long as* syncs of the device are started. `PagingTerminates` is conditional too:
versions have no bound in the code, so pushes between two pages can keep a paging client going, and
it is stated for a table that comes to rest. `LLMGateway`: requests keep coming, a call ends because
its context has a deadline, time passes. `Payment`: a handler that runs comes to its end, and Stripe
repeats an event until it is acknowledged, for days in practice. `LLMStream`: goroutines run,
timeouts pass, and reading a body ends once its context has ended; the provider may stay silent for
ever. `Accounts`, `Share` and `AIProxy` have no liveness properties, each of their requests is a
short sequence of statements; nor has `Publish`, whose requests stay pending (below).

One run, `SyncSystemSyncedMeansSent`, shows a statement of the repository that the code does not
keep (quoted in `PROJECT.json`, "findings"): an edit made while its note is being pushed is marked
synced and never sent.

Facts the passing properties are worded around:

- rows that share a version are not ordered, so a page boundary inside a tie loses the
  rest of it although `has_more` is false (`PagingComplete` excepts ties with a cursor), and a
  failed blob with the version of the last applied one is not delivered again
  (`CursorBelowUnapplied` says "not above", not "below");
- a result that arrives while the breaker is half-open frees a probe's place whoever it
  comes from, so more probes than the limit may wait (`ProbesBounded` adds `released`);
- the retry of a push whose answer was lost has the version that is already stored and is
  reported as a conflict with itself;
- a locked device stores the envelope as the body, moves the cursor on, and later pushes
  it (`wraps`); versions are per-note counters of the clients, not of the server;
- a save whose read came before another write of the row writes the version it read plus one, so
  a note's version may stand still or go *down*; the server refuses what is not higher
  (`VersionNamesContent` holds, the edit waits for the next one);
- overlapping runs may move the cursor *back*: a run stores the version of the last blob
  it applied, whatever the cursor is by then. That only repeats deliveries.

Sync, statements of the repository that the code does not keep and no run states:

- the progress report divides conflicts of any age, and first pushes of new notes (both are
  logged with version 0), by the operations of one day (`sync_service.go:274`: "based on
  recent conflict ratio");
- a pull decides on the row it read; a body the user saves while the blob is decrypted is
  overwritten by the older blob (`conflict_resolver.dart:4`: "the later write wins");
- the periodic timer is re-armed only when it is armed, which it never is, so a device left alone
  syncs once (`sync_lifecycle.dart:15`: "Starts a 5-minute sync timer"), and the debounced request
  of a save is dropped when its timer fires during a sync;
- the settings and pull to refresh call the engine beside a sync of the lifecycle
  (`sync_lifecycle.dart:86`: "the engine is not safe for concurrent runs");
- a commit between the page query and the latest-version query is skipped by an empty pull
  (`sync_engine.dart:186`: "there is nothing to re-deliver");
- the time compared is the one at which the server stored the blob, so an old edit pushed late
  replaces a newer one (`conflict_resolver.dart:4`: "the later write wins");
- a device pulls its own blob, bumps the version and pushes again
  (`doc/development-plan.md:332`: "Sync is idempotent");
- `updateTag`, `updateCollection` and `updateContent` never bump the version, so those items
  stay at version 0, are not returned by a pull (`version > 0`) and their later changes are
  refused; trashing a synced note keeps its version, so its deletion is refused too; a blob
  that fails to decrypt stops every later pull at the same place; the client never calls
  batch delete; nothing fills the offline queue; resuming the app and coming back online start
  no sync.

Payments: the event is recorded before it is handled, so a failure drops it (the exception in
`PaidIsGranted`); a refund handled before the completion leaves the plan granted (`late`); a
refund or an ended subscription sets the plan to free even when another session pays for it;
`UpgradePlan` may overwrite a plan bought between its read and its write; a refund's
failing `SetPlan` is only logged.

Publishing: the deployed server has no queue, so a stored request is handled by nobody
(`doc/api.md:882`: "handled by a background worker"); the owner of a handled one is told "Publish
Complete" and the log stays pending, since the status write is refused; a browser adapter clicks,
sleeps and reports success, with or without a post (`xiaohongshu/adapter.go:310`); nothing in the
repository fills the session credentials of the HTTP platforms (`wordpress/adapter.go:93` says what
is expected), so they never connect; no status write succeeds, so every log stays pending, and
`doc/api.md:931` names statuses (`processing`, `completed`) the code does not use; a database error
in `GetByPlatform` ends the job without a retry; a worker that dies after submitting posts again
(the exception in `PostsExplained`); `Verify` writes back the whole row it read; two concurrent
connects keep the credentials of one; jobs carry no images.

Accounts: a failing lookup of a refresh token counts as not revoked, two concurrent refreshes
fork a token, and a token whose row was not stored can never be revoked; `device_tokens` has no
foreign key, so push tokens registered during a deletion stay; access tokens are valid until
they expire; push tokens are deleted by value, whoever owns them.

Shares: a view is used up before the password is checked; comments are accepted on expired
shares, and with parents from other shares; a soft-deleted parent keeps visible replies;
concurrent toggles of one user, a failed lookup and the deletion of a user let the reaction
counter drift for good (`disturbed`).

AI: a client that leaves while the channel is full leaks the goroutine and its connection
(`Abandoned`); a stream cut by a timeout is given as complete (`cut`); the text of Anthropic's
stream is decoded one level too deep, so streamed answers are empty; error objects in an OpenAI stream
are ignored; the breaker's streaming probe never records its success and keeps its place
(`circuit_breaker.go:17`: "probing for recovery"); nobody calls `EnqueueAIJob` and nobody reads
its result; two of the agent's three actions have different names in handler and service.
Nothing creates a row of `user_quotas`, so every request on the server's key is refused as
exceeding its quota (`AIProxy` starts with and without the row); a charge stays when the
provider fails, and a repeated job is charged again; the Redis limiter counts refused
requests too; server and worker limit separately; the update of a configuration without
`user_id` in the body matches no row and answers 200; a key that cannot be decrypted falls back
silently to the server's key.

Maintenance: the worker's scheduler enqueues in the queue "default", which it does not serve;
expired shares are swept by the server instead, the statistics of posts by nobody.

## 4. Mutants

Each property of a passing run has a mutant of the code in `PROJECT.json`: an upsert that
accepts equal versions, a page query without its order, a cursor that ignores the
early stop, a mark for everything that was sent, a breaker that does not reset its
failures, an event that is always new, a status write that returns its error after the post,
a limiter that sweeps a window early, a goroutine that goes on after the mark, and so on. The
mutated forms stand before the definitions they change.

## 5. Theorems

All hold for every number of items, devices, runs, clients and callers and every bound.

- `SyncBlobsProofs` has the lemmas: what `BatchUpsert` does to one row, that accepted
  items are sent, that a page is a set of the smallest candidates, that
  `GetLatestVersion` bounds every row.
- `SyncServerProofs!TypeCorrect`, `LatestCovers`, `PagingIsComplete`. Paging is not
  inductive as stated: while the session runs, everything stable and below the cursor in
  use must already have been received or be tied with a cursor, and the page in hand
  must reach from that cursor to `next` (`PageInv`). `StoreImplemented` maps each step to a
  step of `VersionedStore` or a stutter.
- `SyncSystemProofs!TypeCorrect`, `VersionNamesOneContent`
  (strengthened by `AcceptedBelowRow`: whatever was accepted is below the row, or is the
  row), `SyncedIsAccepted` (strengthened by what a batch in flight and its answer say of the
  local row as long as it is not raced, `BatchInv` and `AnswerInv`; `BornInv` keeps new
  ids apart from old ones).
- `SyncSystemProofs!CursorStaysWithinServer`, `CursorStaysBelowUnapplied`: nothing a pull
  holds is above the server's latest version, which no step lowers, and the page is
  applied in version order, so the last applied version is at most that of every blob left
  (`CursorInv`, with `Sound` for one pull). A page need not lie above the stored cursor:
  another run may have moved it.
- `LLMGatewayProofs!TypeCorrect`, `ProbesAreBounded`, `TripsOnlyOnConsecutive`: the breaker's
  failure counter never exceeds the streak, and the waiting probes never exceed
  the counted places plus the released ones (`CountersInv`).
- `AIProxyProofs!DoneIsWhole`, `RetriesAreUsedUp`, about `LLMStream`. The goroutine is in one of
  seven states, since what it still has to send ends with the chunk it returns after; a chunk that
  is no text is therefore the last of the channel and the goroutine is over (`ChannelInv`). So the
  texts in the channel can be counted by its length, and received, waiting and in-hand texts add up
  to those read until the stream is cut (`TextInv`). For `Chat`: an attempt is made only while one
  is left (`AskInv`).
- `AccountsProofs!AccountTypeCorrect`, `OneAccount`, `RotatedRefused`, `DeletedAreGone`. A
  registration in progress has its id for itself (`CreateInv`), and every other request is about
  an account that exists or existed and tokens of that account (`RequestInv`, `NewInv`). A
  rotation that was written down stays so until the account is gone (`SpentInv`), hence who
  comes with a spent token and has looked comes for a deleted account (`LateInv`). Once
  `DeleteAccount` is past the push tokens, those left are stray (`SweptInv`).
- `AccountsProofs!DisconnectedForGood`, `PostsAreExplained`, `PostsAreReported`, about `Publish`.
  The id of the stored row is that of a request that is over, and no other row is ever written under
  it (`ConnInv`): a deleted id cannot come back. A job before its submit has posted at most as often
  as tries ended without a result, and one more after it; both are bounded by the retries
  (`PostOf`). A job at its end has told its owner of the post or has no more posts than tries
  without a result (`ReportInv`).
- `AIProxyProofs!ProxyTypeCorrect`, `LimitKept`, `OwnKeyUsed`, `ResetInTime`, `ChargesBounded`.
  Calls are numbered, so a new call is never one of those recorded (`Past`), and what a limiter
  let through with Redis' answer is in the window it counts (`LimitInv`). The charges of a day
  split into those since the last reset, at most `used`, and older ones, at most a day's limit;
  a second reset cannot come while one of the older ones is still in the window (`ChargeInv`).
  A cached day is at most one ahead of the last reset (`CacheInv`), which bounds the delay of a
  reset. A configuration that a request saw stays in the table until it is deleted (`KeyInv`).
- `ShareProofs!TypeCorrect`, `ViewsAreBounded`, `RepliesKeepParents`, `ReactionsAreCounted`.
  Views: until the note is gone, every view let through was counted, is about to be, or was
  lost (`ViewInv`). Replies: a cascade takes a comment's
  replies with it (`RemovedWithReplies`). Reactions: as long as nothing disturbed the counter,
  a user has one toggle in flight, it agrees with the user's row, and rows and counter differ
  by the toggles between their two statements (`CountInv`); `IncrementsBelowReactions` shows that
  the difference never makes the counter negative.
- `PaymentProofs!TypeCorrect`, `CompletedIsGranted`, `RefundsRevoke`, `EntitlementImplemented`.
  Their inductive invariant `PayInv` says that the record of events lets one request handle
  an event (`OneHandler`), that a grant is the end of its event's handling (`GrantInv`), so a
  repetition cannot grant again, that a plan comes from a checkout of the same user
  (`SourceInv`), and that a refund past its first statement is noted on the payment or the
  completion came later (`RefundNoted`). The refinement maps `CustomerPays` to `Pay`, the
  completion's transaction to `Grant`, every other change of a plan to `Release`.

The assumptions are the named ones of the modules: finite sets of items, callers and users, positive
page sizes, limits and thresholds, well-typed rows of the first edit in `Uploaded`, `NoRow`,
`NoNote`, `Nobody`, `NoEvent` and `None` distinct from rows, notes, checkouts, events, accounts,
tokens and the quota's row. The theorems about `Publish` need none. `AccountInv`, `ProxyInv`,
`PublishInv`, `StreamInv` and `AskInv` were checked by TLC on the instances of the runs before they
were proved.

Every invariant, action property and refinement of the passing runs is a theorem. Only
model-checked, since the prover does not reach them, are the liveness properties
(`PagingTerminates`, `PushProgress`, `Recovers`, `PaidIsGranted`, `RequestEnds`, `ReaderEnds`,
`JobStored`), and the violation.

## 6. Not modelled, and why

Cryptography, parsing and full-text search are pure functions or I/O; the user
interface only triggers DAO operations; notifications, profiles and note links are single
statements on rows of their own, and nothing creates notifications. A push request that names one
item twice is taken as one of its blobs: the statements run in order in one transaction, and the
table they leave is one that two pushes leave too. Stripe's charge and subscription objects do not
all carry the session the code looks a payment up by; an event without it ends like one whose
lookup fails (`Fails`). Several passing properties except a known flaw by a history variable
(`raced`, `Leaked`, `late`, `dropped`, `unsure`, `stray`, `disturbed`, `cut`, `Abandoned`, `lost`):
they say that nothing *else* goes wrong. Clock skew between devices and server is
not modelled. The offline queue is left out because nothing fills it. The payment service's
test mode, plan limits, histories, feeds and statistics only read or copy. Configuration,
routing and process start-up are wiring.

## 7. Plan

1. What the liveness properties rest on, as safety theorems: `SyncServer`'s cursor moves forward
   with every page of a session, an acknowledged payment event was handled or dropped by a
   failure, a job's retries only grow.
2. A module for `sync_lifecycle.dart`: the two timers, the debounced request and the flag, to say
   which syncs are started and that those of the lifecycle do not overlap.
3. Extend `SyncSystem`: items without versions (tags, collections, contents, images), a blob
   that cannot be decrypted.
