# Verification of SurfGen

SurfGen turns a script into an avatar video. An API (NestJS) keeps the rows in
Postgres, a replicated worker process runs the pipeline of each video: a
stateless orchestrator reacts to domain events on RabbitMQ and hands stages to
BullMQ queues, stage workers call AI providers and store artifacts, and a
webhook dispatcher forwards the events to customers. A web application and a
command line use the API. This directory holds TLA+ modules of the parts where
several actors share rows, files, queues or caches, or one actor must keep an
order under failures, the TLC configurations that check them on small instances,
and theorems about them that TLAPS has checked for every value of the constants.

## Inventory

| part | source | state it keeps | operations | hard because |
|---|---|---|---|---|
| orchestrator | `apps/workers/pipeline/src/orchestrator.ts` | none: rows `PipelineRun`, `Job`, `Video` | onVideoQueued, onStageCompleted, onStageFailed, enqueueReady, completeRun, failRun | replicas and message slots interleave at every await; at-least-once events; deaths between writes |
| pipeline definition | `packages/core/src/domain/pipeline.ts`, `pipelines/default-video.ts` | none | readyStages, validatePipeline | pure |
| stage workers | `stages/handlers.ts`, `runtime.ts` | `PipelineRun.artifacts` (one JSON column), `UsageRecord` | stage(), saveArtifact, bodies, finalize | read-modify-write by parallel stages; retry after a partial attempt |
| job queue adapter | `packages/queue/src` | BullMQ jobs in Redis, cancellation flags | enqueue, cancel, createStageWorker | stalled and retried jobs, dedup by job id |
| video service | `apps/api/src/videos/videos.service.ts` | `Video.status`, runs | create, enqueueGeneration, cancel, softDelete | writes its rows while the pipeline writes them; deletes a video under its run; publishes after its commit |
| webhook dispatcher | `apps/workers/pipeline/src/webhooks.ts` | `WebhookDelivery` rows | handleEvent, deliverToHook | redelivery to other replicas, hooks deleted meanwhile, deaths, failing updates |
| provider registry | `packages/ai-sdk/src/registry.ts` | entries, pins, health cache of one process | register, unregister, setEnabled, pins, resolve, execute | concurrent calls share a cache they read and write across awaits |
| RabbitMQ bus | `packages/events/src/rabbitmq-bus.ts` | connection, channel, subscriptions | connect, reconnect, publish, subscribe, close | reconnect races |
| in-memory bus | `packages/events/src/in-memory-bus.ts` | subscriptions | publish, matchTopic | pattern matching |
| outbox | `packages/events/src/outbox.ts`, `packages/db/src/outbox-store.ts` | `OutboxEvent` rows | start, tick, stop, save, markPublished | at least once, bounded attempts, several relays; no program starts a relay |
| stage job | `packages/queue/src/worker.ts`, `ai-sdk/src/runners`, `plugins`, `ffmpeg.ts` | child processes, temporary files, cancellation flags | attempt, cancel, poll, run, request | timeout, abort and exit race; files and processes must not outlive an attempt |
| worker process | `apps/workers/pipeline/src/main.ts`, `plugin-sdk/src/loader.ts` | what is open | start, shutdown | signals at any moment, an order of closing |
| storage | `packages/storage/src`, `apps/api/src/media` | objects and their metadata | put, stat, get, delete | objects are replaced while they are read, and between their stat and their get |
| authentication | `apps/api/src/auth` | users, refresh and verification tokens | register, login, Google, verifyEmail, refresh, logout | check-then-write of single-use tokens; two windows and two providers, one address |
| organizations | `apps/api/src/orgs` | memberships | create, invite, remove, softDelete | the last-owner rule |
| workspace | `apps/api/src/projects`, `workspace`, `common/list-query.ts` | projects, avatars, voices, brand kits, workflows | create, delete, paged lists | rows change between two pages |
| editor | `apps/api/src/videos/editor.controller.ts`, the editor page | scenes; the page's index and draft | add, update, remove, type, save | merged writes of what was read; a draft under a list that moves |
| billing | `apps/api/src/billing` | invoices, subscriptions, plans | checkout, verifyCheckout, handleWebhook | two paths settle one invoice; partial failure; order of webhooks |
| web client | `apps/web/lib/api/client.ts` | access token, refresh in flight | api, refreshSession, logout | concurrent 401 answers |
| studio pages | `apps/web/lib/api/hooks.ts`, `apps/web/app/(studio)` | the cache of the tab | queries, mutations, invalidation | fetches in flight while something is invalidated; rows that several queries read |
| live channel | `apps/web/lib/api/live.tsx`, `apps/api/src/ws/progress.gateway.ts` | sockets, retry timers | auth, broadcast, reconnect | closes, retries and sign-outs in any order |
| command line | `apps/cli/src` | one file of session, key and defaults | login, logout, use, requests | shells that run at the same time write the file whole |
| configuration | `packages/config/src` | the settings in force | load, watch | torn, wrong and missed edits |
| the rest | core types, schema and seed, safe-net, telemetry, API wiring, desktop window, marketing pages | none shared | | I/O and presentation |

How they interact: the API commits rows and publishes `video.queued`. An
orchestrator slot takes it, starts the run and, stage by stage, creates a `Job`
row and adds a BullMQ job. A worker takes the job, saves the artifact in the
run's row and publishes `pipeline.stage_completed` or `pipeline.stage_failed`,
which an orchestrator slot takes. The API cancels by writing the same rows. The
dispatcher has a durable queue of its own on the same exchange. Workers reach
providers through the registry; the attempts of a stage job run child processes
and requests and put objects into the storage, which the API serves. The gateway
forwards the events to tabs, whose caches refetch what the events name.

What makes each part correct:

- a run's stages start in the order of the definition; a run is completed only
  when every stage left an artifact and it was billed; it fails only when a
  mandatory stage used up its attempts; it ends; it is billed once;
- a delivery is made at most `MAX_ATTEMPTS` times whatever is redelivered, its
  row tells the truth and is settled once;
- a provider call uses the best provider left, never splices two providers'
  outputs, and gives up only when every candidate failed it;
- an invoice is paid by exactly its amount and is what subscriptions come from;
- a browser's session is not ended by its own refreshes, and nobody gets one for
  an address that was not confirmed;
- one render of a video at a time, and no bus, live channel or video that was
  not deleted is left waiting for something that will not come;
- an attempt leaves no process and no file behind; nothing is worked on without
  what it needs; what is served is one whole object;
- what a user wrote, typed or was told of is what a page shows and a list gives.

`PROJECT.json` lists every component with its status, and under `hazards` each
place where a test would hardly reach, with the properties that watch it.

## Modules

| module | stands for |
|---|---|
| `PipelineDefinition` | a definition (stages, dependencies, optional stages, attempts, inputs the bodies insist on), `readyStages`, and what three theorems suppose of its shape |
| `DefaultVideoPipeline` | the built-in definition, with or without translation |
| `RunProtocol` | the abstract machine of a run: what it promises whatever fails |
| `PipelineRun` | orchestrator, stage workers, BullMQ jobs, event queues, rows of one run, the cancel request, and faults; implements `RunProtocol` |
| `PipelineRunProofs` | theorems about `PipelineRun` |
| `DeliveryProtocol` | the abstract machine of a delivery: what the dispatcher promises whatever fails |
| `WebhookDispatcher` | the dispatcher's slots and delivery tasks, its rows and queue, the API that creates and deletes hooks, and faults; implements `DeliveryProtocol` |
| `WebhookDispatcherProofs` | theorems about `WebhookDispatcher` |
| `ProviderRegistry` | entries, pins and health cache of one capability, and the concurrent calls |
| `Billing` | the rows of the billing service, the calls of its API split at their awaits, and Paystack as an environment |
| `BillingProofs` | theorems about `Billing` |
| `Sessions` | the web client's session in one browser and the rotation of refresh tokens by the API |
| `SessionsProofs` | theorems about `Sessions` |
| `Accounts` | how one address gets an account and a session: the pages of several windows, the requests they make, mailed links, Google |
| `Organizations` | memberships and the last-owner rule |
| `AccountsProofs` | theorems about `Accounts`, `Organizations` and `CommandLine` |
| `Videos` | one video with all its runs: the requests that create, queue, cancel and delete it, the orchestrator seen from its row |
| `Editor` | the scenes of a video, the editor page with its draft, another client |
| `Workspace` | rows of an organization and a reader that pages through them |
| `Studio` | the cache of a tab: every query, mutation and page of the studio |
| `LiveEvents` | the WebSocket effect of a tab and the gateway |
| `StudioProofs` | theorems about `Videos`, `Editor`, `Workspace`, `Studio` and `LiveEvents` |
| `EventBus` | connections, channels and consumers of one process |
| `Outbox` | records, relays, the in-memory bus and its patterns |
| `EventBusProofs` | theorems about `EventBus` and `Outbox` |
| `StageWork` | one job: its attempts, its provider's or body's steps, its child process, request and files, its cancellation |
| `WorkerProcess` | a worker from its start to its end |
| `WorkerProofs` | theorems about `WorkerProcess`, `StageWork`, `Storage`, `ProviderRegistry` and `Configuration` |
| `Storage` | one key of the media store, both drivers, and the serving of it |
| `CommandLine` | shells that share one configuration file |
| `Configuration` | the layers of the configuration and the watcher of a file |
| `MCPipelineRun`, `MCWebhookDispatcher` | small instances for TLC |
| `MCApi`, `MCParts` | instances of parts that share no variable, checked in one run, each on its own (`Parts`) |

Names of the source are kept where TLA+ allows it. `EXTENDS` in `MCApi` and
`MCParts` puts the parts side by side, hence some prefixes (`busVars`,
`OrgGoto`). `PROJECT.json` maps every definition to its lines.

### PipelineRun

State. `runStatus`, `videoStatus`, `artifacts`, `jobs` and `usage` are the
columns and rows of one run. An artifact is `absent`, an `output` or `skipped`:
the code distinguishes no more (`Object.keys(artifacts)`, `artifact?.skipped`).
`bull` and `attemptsMade` are BullMQ's job `runId:stage`. `inbox` is the bag of
events in the orchestrator's queues. Each handler slot `h` has a program counter
`hpc`, the event `held`, whether the broker still holds it (`unacked`), and what
the handler read or computed before an await: `hsnap` (the artifacts), `htodo`
(the ready stages left), `hcur` (the stage whose row was just created). The
worker of a stage's job has `wpc` and `wsnap`. `cpc` is the cancel request.
`recorded` and `faults` are history and bound.

Actions. One action per stretch of code between two awaits, so every read of a
row and the write based on it are separate steps with everybody else in between:

| code | actions |
|---|---|
| `startConsumer`: deliver, ack, nack | `Deliver`, `Ack`, `HandlerThrow` |
| `onVideoQueued` | `ReadQueued`, `StartRun`, then `FindJobs` |
| `onStageCompleted` | `ReadCompleted`, then `CompleteRun` or `FindJobs` |
| `onStageFailed` | `ReadFailed`, then `SkipStage` (and `onStageCompleted`) or `FailRun` |
| `enqueueReady` | `FindJobs`, then `CreateJob` and `AddJob` per ready stage |
| `createStageWorker` | `TakeJob`, `FinishJob`, `Rethrow` |
| `stage()`: try | `LoadArtifacts`, `BodySucceeds`/`FinalizeVideo`/`BodyFails`, `SaveRead`, `SaveWrite`, `MarkCompleted`, `PublishCompleted` |
| `stage()`: catch | `CatchError`, `MarkFailed`, `PublishFailed` |
| `VideosService.cancel` | `CancelRead`, `CancelVideo`, `CancelRuns` |
| faults | `HandlerCrash`, `ConnectionLost`, `WorkerCrash`, `WorkerIoError` |

`saveArtifact` runs in a Prisma transaction without locking; under READ
COMMITTED, the default of Postgres, its read and its write interleave with other
transactions, hence `SaveRead` and `SaveWrite`. `finalize`'s body is one
transaction of writes and one step.

Assumptions. `KvAnswers` says whether the store of cancellation flags answers
when `createStageWorker` asks it before each job. `createStageWorker` expects a
Redis client there; the worker's `main` passes plain connection options, with
which every job fails before its handler (`run_no_kv`, below). All other runs
set it to TRUE, the behaviour the queue package intends and tests; the theorems
cover both values.

Left out: the events nobody in the repository reacts to by writing
(`run_started`, `stage_started`, progress messages; a rejected publish of one of
them is a `HandlerThrow`); BullMQ's limit on how often a job may stall, the
parallel second execution of a job whose worker is only slow, and the removal of
old jobs; the order in which a handler enqueues several ready stages (any order
here, the definition's in the code); a publish whose confirmation is lost
although the broker has the message; the deletion of the run's video, after
which the handlers no longer find it (`orchestrator.ts:72-74`). `Videos` has that;
what the runs of this module say, `RunTerminates` included, is about a video that is
not deleted.

### RunProtocol

Three variables: the status, the stages begun, the stages whose artifact was
recorded. It says that stages begin after their dependencies were recorded, that
only begun stages record, that completion needs all artifacts and failure a
mandatory stage that began. It also says what the code does not promise, because
the handlers write the status without looking at it again: a handler in flight
may revive a cancelled run, and may change one terminal status into another.
The refinement maps `status`, `begun` and `produced` to `runStatus`, the stages
with a `Job` row, and `recorded`.

### DeliveryProtocol

Six variables: what became of each hook; the status and the attempts the rows
show; the deliveries that are open; how often each was sent and whether its
endpoint took it. It says that a delivery is opened once, for a hook that is
registered and an event never sent to it; that it is sent only while it is open,
and at most `MaxSends` times; that it is settled once, as delivered only if the
endpoint took it and as failed only if it was sent to the end or could not be
signed; and that its row then counts what was sent. It also says what the code
does not promise: a delivery may be abandoned with its row pending, and one whose
hook was deleted may go on being sent. The refinement maps `hook`, `status`,
`count`, `sent` and `taken` to `hooks`, `row`, `attempts`, `posts` and
`accepted`, and `open` to the tasks at work (`underWay`).

### WebhookDispatcher

State. `row` and `attempts` are the `WebhookDelivery` rows by hook and event
(the unique key), `queue` the durable queue, `msg`, `unacked` and `spc` the
slots of all replicas, `task` and `tries` the `deliverToHook` each slot runs per
hook, `hooks` the `Webhook` rows. `posts` and `accepted` are history: what the
endpoint saw.

Actions. `Deliver`, `FindHooks` and `Ack` are `handleEvent`, whose `Promise.all`
runs the tasks side by side; `CreateDelivery`, `RecordNoSecret`, `Post`,
`RecordDelivered` and `GiveUp` are `deliverToHook` split at its awaits. An
endpoint may take an event and answer too late. An update of a row whose hook
was deleted throws; inside the `try` of the POST that counts as a failed attempt
(`RecordDelivered`), as does a failing query there (`TaskIoError`). Delays
between attempts only order steps and are left out, as are signing and the body.

### ProviderRegistry

One process, one capability. `list` is the sorted array of entries (`insert` says
what a stable sort after a `push` gives), `enabled`
and `override` its switches and the organization's pin; `candidates` is the chain,
of which `goesBefore` says what the filters and the sort leave in which order; `health` and `fresh` the
health cache: the clock is abstracted to `Expire`, which may let any cached
result lapse at any time. A call copies its chain when it begins (`Begin`), then
looks at one candidate after the other: `Look` reads the cache, `Probed` is the
answer of `health()` after an await, `Output`, `End` and `Fail` are the stream of
`generate()`. `Reliable` providers never fail by themselves, an assumption about
the world that lets a property say whose fault a refusal was. `shutdown()`,
`list()` and the announcements of `onHealthChange` are left out.

### Billing

State. `gateway`, `plans`, `invoices`, `customer` and `subs` are the columns and
rows of `PaymentGatewaySetting`, `Plan`, `Invoice`, `BillingAccount` and
`Subscription`; the code of a plan at Paystack is represented by the price its
copy was made with, since `updatePlan` changes the row and never the copy. A
call `c` stands `at[c]`, was asked `req[c]`, and carries what it read in
`plan[c]` and `found[c]`. Paystack is external: `charges` is what it asks of a
customer and gets, `hooks` the webhooks it sends until they are answered.

Actions. `updateGatewaySettings`; `WritePlan`, `SyncPlan`, `CreatePlan`,
`StorePlanCode` (`createPlan`, `updatePlan`); `BeginCheckout`, `FindPlan`, the
synchronization again, `CreateInvoice`, `Initialize` (`checkout`); `BeginVerify`
and `VerifyTransaction`, `BeginWebhook` and `FindInvoice`, which both go on with
`settleInvoice` as `settle`, `MarkPaid`, `StoreCustomer`, `FindSubscription`,
`Activate`; `FindAccount`, `FindUncoded`, `StoreCode`; `Disable`. `CallFails` is
any query or call to Paystack that rejects, or an answer that is lost. Paystack
is told an amount and a plan with a price of its own; which of them it asks of
the customer is left open. Currencies, signatures and periods are left out.

### Sessions

Each tab has its own copy of `client.ts`: `signedIn` (has an access token) and
`inFlight`, the request that began `refreshInFlight`. All tabs share the
`cookie`. `token` is the state of each `RefreshToken` row, `rotatedBy` the tab
whose refresh revoked it (history). A request of a page is sent, may be answered
401, then waits for the refresh and is sent once more (`Send`, `Served`,
`Rejected`, `RejectedAgain`); a refresh is `FindToken`, `RevokeToken`,
`IssueToken` at the API and `RefreshArrives` or `RefreshRefused` in the tab.
`Login` and `Logout` have the same two ends. Expiry may strike at any time.
Numbers of tokens that nobody holds any longer are used again.

### Accounts

One address. `account`, `workspaces`, `linked` and `link` are its rows, `mailbox`
the links its owner received. Each of the `Windows` shows a page (`screen`) and has
one request `req[w]` in flight, whose label says which query comes next; `oauthState`
is the cookie the windows share. `SignupPage`, `LoginPage`, `resend`, `OpenLink`,
`OpenLogin` and `GoogleStart` are what a page sends; `FindRegistered`,
`CreateUser`, `createPersonalWorkspace`, `SendVerification` and `Registered` are
`register`, and so on, one action per query. `RequestFails` is a failing query or
mail; what was committed stays. Passwords are right or wrong; mail arrives.

### Organizations

`role` is the `Membership` rows; a request of `ocall` passes the guard
(`enforceOrgRole`), reads the membership, and, if it is about an owner, checks the
caller (`AssertCaller`) and counts (`CountOwners`) before it writes (`WriteRole`).
An invitation never gives the role of an owner, so the founder stays the only one:
the branch for "another owner" is modelled and never taken, and that is what the
proof of `OwnerStays` rests on.

### Videos

`video` and `run[r]` are the statuses, `announced` the `video.queued` events,
`flow[r]` where the pipeline stands with a run (the orchestrator as `PipelineRun`
has it, seen from the two rows), `vcall` the requests, split at their queries.
`EnqueueGeneration` is one transaction; `PublishQueued` follows the commit, and
`RequestDies` may come between. Runs overlap when two requests check before
either writes, when a cancelled run is followed by another, or when one breaks
after `finalize` declared the video ready; `raced` is that history.

`SoftDelete` marks the row, in any status. The client of the workers hides marked
rows (`withSoftDelete`), from reads and updates alike: `OnVideoQueued` drops the event
of a deleted video, and the transactions of `StartRun`, `Finalize` and `FailRun` reject
(`writesBoth`). So a video that is deleted while it is queued or generating leaves its
run pending or running for ever, and nothing in the repository cleans up after it.
`NothingIsLeftWaiting` says that this is the only deletion that does, and that without
one nothing is left; the API's client hides nothing, and a request that found the video
before still writes it.

### Editor and Workspace

`scene` is the rows with their order and content; `shown`, `active` and `draft`
are the page's copy of the list, `activeScene` and the inspector's text, which
`resync` replaces when the scene or its script changed. `Ask` sends one of the
mutations; a success invalidates the video, which starts its fetch again
(`GetVideo`, `ShowVideo`). `FindScene` and `UpdateScene` are the read and the
merged write of `updateScene`, with another client in between.

`Workspace` numbers the rows of one list in the order of their creation and lets a
reader walk it (`BeginList`, one action per list endpoint); `findMany` is
Prisma's cursor with `skip: 1`, and `pageResult` the page and the next cursor.

### Studio

One behaviour follows one query of a tab. Queries (`useStats` ...), mutations
(`useCreateAvatar` ...) and pages (`DashboardPage` ...) are records: what they
need, poll, retry, write, invalidate, mount and offer. What a mutation writes
(`writes`) is read off the controllers, as the queries that read the rows, and is not
what its hook invalidates (`keys`): the row of a video is counted by the statistics and
joined by the monitor, the settings of the gateway are part of the answers about plans
and subscriptions, the plans have a public list and one for administrators. The cache
of TanStack Query is external: `fetchOnMount`, `invalidate`, `GetRows`, `ShowRows`,
`FetchFails`, `BecomeStale`, `ForgetQuery`, `PollRows`. Rows are reduced to a
`version`. `joined` marks the one way in which the cache may miss news it was given: an
invalidation that meets the very first fetch of a query joins it.

News that does not invalidate the query goes into `unnoticed`, with who told of it. Such
a query is behind the user's own write, and the property says which and how long:
`stats` and `monitor` after `createVideo` and `generateVideo` until the event of the
write arrives or, when it is lost, until they poll; and, until they are mounted again
and stale, the pairs of `LeftBehind`: `billing-plans` after a plan or the gateway
was changed, `billing-subscription` after the gateway was, the administrators' plans
after a checkout gave one its code, and `video-output`, which is fresh for ten minutes,
after a new rendering. TLC finds a violation when any pair is taken out of that list.

### LiveEvents

`effectAt` is each run of the effect with its `closed` flag and retry timer,
`wire` and `owner` the sockets, `mail` and `auth` the gateway's side of them
(`VerifySocket`, `RegisterClient`, `HandleDisconnect`).

### EventBus and Outbox

`EventBus`: `socket` and `consumers` per connection, `connection` and
`publishChannel` as the fields of the class, and `tasks`, the calls of `connect`
and `subscribe` that wait, of which any number may be under way: a `close`
handler and a failed attempt each begin one.

`Outbox`: `Tick`, `Publish`, `MarkPublished` and `IncrementAttempts` are the
awaits of `tick`; `StopRelay` waits for the pass, `RelayDies` does not.
`fetchUnpublished` and `findMany` of `Workspace` are stated by what they return, the
oldest or newest rows up to a limit, in order. `matchTopic`, a recursive function over pairs of
positions, is compared with `covers`, a definition of what a pattern stands
for. No program of the repository starts a relay.

### StageWork and WorkerProcess

`StageWork` runs a recipe, the steps of one of the six providers or of `render` or
`thumbnail`. A step settles the promise `call` once: by its process (`ChildCloses`)
or reply, by the time-out or by the signal if it `listens`; what follows is the
`finally` of the recipe and the wrapper of `createStageWorker` (`CheckCancelled`,
`PollCancelled`, `EndAttempt`). `CancelReads` and `CancelActs` are `cancel`.
A health check takes no signal, nor do the calls of the stages script and translate
("ask"), so an abort does not end them.

`WorkerProcess` follows `main` step by step. `ShutdownSteps` is the order of what
each shutdown closes; two signals run two of them at once.

### Storage

`driver` is chosen once. A local `put` writes a temporary file and renames it, then
the metadata; an S3 one is one request. There are two readers, the media route of the
API (`ServeMedia`, for local storage only: links into a bucket lead past the API) and a
stage that fetches its inputs (`Materialize`). Both are told about the object by
`StatGet` before they open what is there by then (`OpenObject`). The route announces the
size of that stat as the length of its response, so a put in between makes the two
differ, and the response is cut off or never ends (`media.controller.ts:37-43`). That
happens in the code and in the model; `ServedIsWhole` says that nothing else makes them
differ. `Sizes` are the sizes of objects, of which two suffice to differ.

### CommandLine

`file` is `config.json`; a `command` works on the copy it loaded when it began,
and every save writes that copy whole (`SaveSession`, `SaveLogin`, `Forget`,
`UseDefault`). The API rotates a session in two steps, as in `Sessions`.

### Configuration

A YAML mapping is a function from its keys, a value an opaque string. `Documents` are
what a file may say, `Environments` the variables a process may have, a function from
the paths they name to their values: each sets a key of its own, so their order is of
no account. `deepMerge`, `setDeep`, `resolveKey` and `applyEnvOverrides` are translated
for mappings of two levels, which is how deep the scope "video" goes, and so without
recursion; `VideoConfigSchema` is there for five settings. `settings` is what the
program was given last. `ShownConfigIsLayered` compares it with a reference, setting
by setting (`layered`). What the reference had to say: a deleted file raises no event
that is heard, nor does a write before the watcher is ready (`unheard`), and a
variable for a key in camel case that neither the file nor the defaults have is
dropped. `ConfigurationAssumption` says that documents do not spell a setting in
another case, which the reference would have to choose between, and that variables
have been lower-cased. No program watches a file.

## Runs

Each run takes less than four minutes with two workers.

| run | instance | shows |
|---|---|---|
| `run_pipeline` | tts, then avatar and subtitles (optional) in parallel, then finalize; avatar has two attempts; two slots; a cancel request; no faults | `TypeOK`; `FailedRunIsUnbilled`: finalize never bills a run that fails; `RunningStageSeesInputs`: a body finds its inputs and an entry for every dependency although parallel stages overwrite the column; `BilledAtMostOnce`: finalize bills once while no worker dies |
| `run_faults` | thumbnail (optional), then finalize; two attempts each; two slots; a cancel request; one fault of any kind | `EnqueuedAfterDependencies`, `CompletedRunIsComplete`, `NoPrematureGiveUp`, `ImplementsProtocol` |
| `run_liveness` | script, tts, finalize, none optional; a worker may die once | `NoArtifactLost`: in a chain of mandatory stages none is lost, whatever dies; `RunTerminates`, `EventuallyQuiet` |
| `run_webhooks` | one event, two hooks, two slots, three attempts, two faults of different kinds | `RowIsTruthful`; `ImplementsDelivery`, which implies it as well as the bound on the POSTs and that a settled row is final; `DeliverySettles` |
| `run_parts`, registry | a cloud and a local provider, either of which may not be registered, one `execute` that may abort, one `resolve`, one administrative step | `NoSplicing`, `UnavailableIsJustified`, `BetterProvidersFirst` |
| `run_parts`, bus | two subscriptions, three connections, one refusal | `BusIsWhole`: at rest the bus publishes and consumes everything, however it reconnected |
| `run_parts`, live | two sign-ins, three sockets | `OneChannel` |
| `run_parts`, videos | two requests at once, two runs, one death, one cancel | `NothingIsLeftWaiting`, deletions included; `RendersAlone`; `StatusMovesLegally`: every change of the status follows `VIDEO_TRANSITIONS`, but for generating to ready, while requests do not overlap and no run is cancelled or breaks after it declared the video ready |
| `run_parts`, editor | two scenes, four requests, another client | `DraftIsOfTheScene`, `OtherFieldsSurvive` |
| `run_parts`, workspace | four rows, pages of one or two | `PagesAreWhole` |
| `run_parts`, accounts | two windows, two links, one failure, verification on | `SessionsAreConfirmed`, `OneWorkspaceEach` |
| `run_parts`, organizations | three users, a super admin among them, two requests at once | `OwnerStays` |
| `run_parts`, studio | each query in turn, two writes or failed requests in all, one mutation at a time | `OwnWritesAreShown` |
| `run_parts`, work and process | each recipe, three attempts, a cancellation; one plugin, two queues, two signals | `NothingLeftBehind`; `JobsHaveTheirServices` |
| `run_parts`, storage and outbox | two puts of two sizes, two readers, one deletion; two relays, two records, batches of two, two attempts, one stop | `ServedIsWhole`; `PublishedReachesAll` |
| `run_parts`, cli | two shells, three sessions, four commands | `SavedSessionIsLive` |
| `run_parts`, configuration | ten files, a missing and a torn one and three the schema refuses among them, six environments, three edits | `ShownConfigIsLayered` |
| `run_api`, billing | one checkout of one plan at one of two prices, two calls at once, three changes by administrators (enable, offer, reprice), one failing call | `PaidExactly`: what is marked paid was paid to the cent, whatever happened to the plan meanwhile; `SubscriptionIsPaidFor`; `PaidIsActivated`, unless a call failed |
| `run_api`, sessions | one tab, two requests, sign-ins and sign-outs, one loss | `OwnRotationIsKept`: a tab does not present a token it rotated away; `RequestsSettle` |

Runs that are expected to fail, each against a sentence of the repository:

| run | property | the sentence |
|---|---|---|
| `run_lost_artifact` | `NoArtifactLost` | `runtime.ts:39` says artifacts are persisted atomically when two stages complete simultaneously; in the built-in pipeline avatar and subtitles overwrite each other |
| `run_double_bill` | `BilledAtMostOnce` | `erd.md:73` promises exactly-once effects; finalize bills before its artifact is saved |
| `run_crash_stuck` | `RunTerminates` | ADR-007 says any orchestrator can die at any point; a death after `onVideoQueued`'s transaction, or between a `Job` row and its BullMQ job, leaves the run running |
| `run_no_kv` | `ExhaustedStageEndsRun` | `high-level-architecture.md:99` says an exhausted stage fails its run; with the connection `main.ts` passes, jobs are rejected outside `stage()`, which alone reports |
| `run_webhook_lost` | `DeliverySurvivesRestart` | `webhooks.ts:8` says deliveries survive restarts; a death after the row is created leaves it pending, and the redelivered event meets the unique key |
| `run_code_twice` | `CodeOnOneRow` | the billing design says webhooks are handled idempotently by external id; a `subscription.create` that is sent again stores its code on the account's next row that has none |

Deadlock is not checked where the system comes to rest: a finished run, a
delivered event.

Bounds and why they suffice. Two slots are two handlers at once, the least that
can race; the handlers of one run are symmetric and any number of redeliveries
goes through the same slots. The definitions are the parts of the built-in one
that differ in kind: a parallel pair with an optional member before a join, an
optional stage before the last, a strict chain; `run_lost_artifact` uses the
whole definition. One fault can strike at each of the steps, between any two
others; the theorems below cover every number of faults. `MAX_ATTEMPTS` is the
code's 3. Two providers are the least that fail over, and two calls the least
that race on the cache; an administrative step can remove, switch off or pin a
provider in the middle of a call. Two calls of the API are
the verification and the webhook of one invoice, or a webhook and its repetition;
three administrative changes are the least after which a price changed. Two
requests share a refresh, or one comes after it; two tabs have more states than a
run of some minutes reaches, and the theorem below covers any number of them.
Of the other parts, each has the least that can get into each other's way: two
requests, windows, shells, relays, puts or runs, and one failure that may strike
between any two steps. A third connection or socket is one that comes after a
reconnection; four rows are two pages of two or four of one, so rows are created and deleted
on either side of a cursor; four commands are a renewal in each shell and a
login after it. Parts share no variable, so checking them side by side in one run
loses nothing; the number of its states is the sum of theirs.

Fairness. `WF_vars(Orchestrator(h))` and `WF_vars(Slot(s))`: the broker keeps
delivering to a connected consumer with a free slot, and Node runs the
continuation of a promise that settled. `WF_vars(Worker(s))`: BullMQ hands a
waiting job to a worker, and provider calls end (the handlers set timeouts).
`WF_vars(Task(s, h))`: `Promise.all` starts every delivery, and the 10 s timeout
ends each POST. `WF_billingVars(Continue(c))` and `WF_sessionVars(Proceed(k))`:
Node and the browser run continuations, and requests are answered. Nothing is
assumed of faults, users, administrators or Paystack, nor of any part of
`run_parts`, whose properties are invariants; those that speak of a system at rest
say what it must have reached when nothing is on its way.

## Theorems

`PipelineRunProofs`, for every definition that satisfies `DefinitionAssumption`,
any number of slots, any set and number of faults, with or without cancellation:

- `TypeOKHolds`; `TypeCorrect` adds which event a slot holds at which step;
- `EnqueuedAfterDependenciesHolds`, `CompletedRunIsCompleteHolds`,
  `NoPrematureGiveUpHolds`;
- `ProtocolImplemented`: `Spec => ImplementsProtocol`;
- `FailedRunIsUnbilledHolds`, if workers do not die and their calls are not
  rejected (`SafeWorkers`; handlers may die, connections be lost and calls of
  handlers rejected) and every stage that can fail the run comes before finalize
  (`FinalizeIsLast`);
- `RunningStageSeesInputsHolds`, without faults (`NoFaults`), if branches run side
  by side only between a fork and a join (`BranchesJoin`) and the inputs of a body
  come before its stage (`InputsComeBefore`).

- `BilledAtMostOnceHolds`, for safe workers, whatever handlers do;
- `NoArtifactLostHolds`, if at most one stage can be under way at a time
  (`OneAtATime`) and either no stage is optional or no fault strikes.

The hypotheses are what the code needs, and runs show what happens without them:
`run_double_bill` bills twice when a worker dies, and the built-in pipeline, where
avatar and subtitles are under way at once, loses one's artifact
(`run_lost_artifact`). A run of mandatory stages without branches is safe whatever
dies. `ShapeAssumption` in `MCPipelineRun` has TLC check `FinalizeIsLast`,
`BranchesJoin` and `InputsComeBefore` for the definition of every run, the built-in
one included, and `ChainAssumption` `OneAtATime` for the chain of `run_liveness`.

The argument. None of these is inductive by itself: a handler acts on a snapshot
and on an event, so the invariant has to say what snapshots and events mean.
Whatever a row holds or a process has read was recorded (`RecordedInv`); a stage
in a handler's list, or with a `Job` row, has its dependencies recorded, and a
BullMQ job has a row (`OrderInv`); finalize has billed before its artifact is
written, and a handler closes a run only if it saw all artifacts (`CompleteInv`);
`stage_failed` of a stage, in the queue or in a slot, means the stage was handed
out and has no attempt left (`GiveUpInv`, `SkippedInv`). `recorded` and
`attemptsMade` only grow, so what these say of stale snapshots and old events
stays true, and this is why the theorems hold although `NoArtifactLost` does not.
For the refinement, `TokenInv` and `FreshInv` say that `video.queued` is in one
place only, unless a connection may be lost, and that nothing was handed out
before the run started. `Invariance` proves the conjunction, one lemma per
conjunct and one step per action; the refinement follows from it action by
action.

For the bill, `BillInv`: where workers are safe, a mandatory stage whose artifact was
recorded has succeeded for good, and a stage whose failure is reported has failed for
good. Finalize starts only after all the others were recorded, so none of them
can still fail the run. For the inputs, `KeptInv`: artifacts do get lost, but all that
comes before a stage that was handed out is in the row and in every copy of the row
that will be written back, because whatever is still to be written then comes
later, and its writer read the row later too (`BranchesJoin`). That needs that an
artifact is written once (`OnceInv`) and a failure is reported by one event
(`ReportInv`), which is where faults would break it.

For what is lost, `LossInv`: the row, and every copy of it that a worker will write
back, holds all that was recorded (`WholeInv`). A stage whose artifact is about to be
written, by its worker or by a handler that gives it up, was handed out and is not
recorded yet; of two such stages one would wait for the other, so there is one writer at
a time. That a stage is not written twice is clear without faults; with faults it needs
that nothing is optional, for then whoever runs a body again found no artifact in a row
that has every artifact (`BodyOnceInv`). For the number of bills: an attempt that has
billed goes on to its end when workers are safe, so no second one begins.

`WebhookDispatcherProofs`, for any hooks, events, subscriptions, slots and
faults: `TypeOKHolds`, `PostsBoundedHolds`, `RowIsTruthfulHolds`,
`SettledRowIsFinalHolds`, and `DeliveryImplemented`: `Spec => ImplementsDelivery`.
The invariant: at most one task works on a delivery
(`UniqueInv`), because a task gets to work only by creating the row, and while it
works the row is pending or its hook deleted; all POSTs there were are its own
(`OwnsDelivery`), so counting its own bounds them all; a row that was never
made was never sent (`FreshInv`). `TaskEffect` sums up the six ways a task's step
changes its entries, and the other lemmas rest on it. The refinement adds what the
protocol says of openings: who is about to create a row has sent nothing yet, and
whoever creates it is the only one at work on it; every other step opens nothing,
sends nothing and at most abandons.

`BillingProofs`, for any organizations, plans, prices, checkouts, number of calls
at once, administrative changes and failing calls: `BillingTypeOKHolds`,
`PaidExactlyHolds`, `SubscriptionIsPaidForHolds`. The verification and the
webhook of an invoice may both settle it, each on what it read before an await.
That is safe because what they compared can no longer change: a reference belongs
to one checkout, which writes the invoice and asks for the charge before anybody
can pay (`CheckoutInv`), so an invoice that exists keeps its amount
(`InvoicesStay`) and a charge that succeeded keeps its own (`ChargesStay`).
`SettleInv` says what a settling call knows at each of its steps, and `StageInv`
which step a call of each kind can stand at. That a reference is used once is an
assumption: `checkout` draws it with `randomUUID`.

`SessionsProofs`, for any number of tabs, requests and tokens:
`SessionsTypeOKHolds`, which includes that a refresh is under way exactly while
it is its tab's `refreshInFlight`, and `OwnRotationIsKeptHolds`. A token that a
tab rotated is in the cookie only while the refresh that rotated it is on its way
back (`RotationInv`), and a tab has one refresh at a time; every other token that
reaches the cookie is one nobody has presented (`FreshInv`). The property speaks
of behaviours without a lost request or reply: after a lost reply the cookie does
hold a token already revoked. It does not say that two tabs cannot sign each
other out; they can, when both present one token.

`AccountsProofs`, for any number of windows, links and failures:
`SessionsAreConfirmedHolds`, `OneWorkspaceEachHolds`. What a request saw before an
await is still true when it goes on: an account is never removed and never loses
its confirmation (`ConfirmedInv`), and the address is unique, so that of all the
requests that found no account one creates it, and that one makes its workspace
(`WorkspaceInv`).

The same module, for any users, any super admins and any number of requests
at once: `OwnerStaysHolds`. Requests act on roles they read long before. The
founder is the only owner there ever is (`FounderOwns`), because no invitation
gives that role, and a request about the founder ends before it writes
(`FounderIsSpared`): whoever asks, one owner is counted.

For any number of shells, commands and sessions: `SavedSessionIsLiveHolds`. A
session the API has just given out is known to one command only, so it stays accepted
until that command has saved it (`NewSessionInv`); and the session in the file is
accepted, or a command that holds a new one, or forgets the old one, has still to write,
or one was interrupted (`FileInv`).

`EventBusProofs`, for any subscriptions, connections, refusals and attempts:
`BusIsWholeHolds`. A close and a failed attempt each begin a call of `connect`, so
several overwrite one another's connection and channel. The invariant does not
count them: a connection that is not open has a call at its beginning
(`ConnectionInv`), a missing channel one that has not come to its consumers
(`ChannelInv`), and a subscription that is not consumed a call that has not come by
it yet (`ConsumerInv`). A subscribe that fails leaves its subscription to the call
that the lost connection began (`ReconnectKeeps`).

The same module, for any number of relays, records, batches, attempts and
deaths: `PublishedReachesAllHolds`, because what was sent of a batch has reached
everybody it is for whether or not it was marked (`SentReachesAll`), and a pass marks
its batch only when all of it was sent. It rests on `MatchMeansCovers`: for patterns and names of any length
`matchTopic` holds exactly if the name can be cut as the pattern
says. That is a recursion over data without the library's induction: both sides solve
the equation of the recursive function, and two solutions that differed would
differ at a pair of positions closest to the end (`LeastNumber`), where the equation
makes them equal.

`WorkerProofs`: `JobsHaveTheirServicesHolds`, because every shutdown, a second one
too, goes past its first step only when no worker is open and none works
(`DrainedInv`), and workers do not open again; `NothingLeftBehindHolds`, because a
process runs only under a promise that is not settled (`AttemptInv`);
`ServedIsWholeHolds`, because a name is only ever given to a whole file, what is
there grows older than nothing that was answered for, and a write that was there at
the stat has the length that was announced (`ObjectInv`).

The same module, for any documents, variables and edits: `ShownConfigIsLayeredHolds`.
`Merged` and `Applied` say setting by setting what `deepMerge` and `applyEnvOverrides`
return, and `Layers` that together they give the reference wherever the schema accepts
it; a variable finds the key it means because keys that differ in case only do not
stand side by side (`ResolveBlock`, `ResolveSetting`). The watcher's part is
`ConfigInv`: the settings of a running program were loaded once, hence valid, and are
those of the file unless an event is under way or was missed.

The same module, for any providers, priorities, calls and administrative steps:
`NoSplicingHolds`, `UnavailableIsJustifiedHolds`, `BetterProvidersFirstHolds`. A call
works on the candidates it copied: each was given up, is looked at, or is still
ahead (`PlannedInv`); those ahead are in the order of the list, except for the pinned one
(`ChainInv`), because `insert` keeps the list sorted (`InsertSorted`) and nothing
else changes the order; output comes from the provider in use only (`SpliceInv`). The
cache is shared, and so is what can be said of it: a provider that never fails is
taken for unhealthy only after some call was aborted on it (`ReliableInv`).

`StudioProofs`:

- `NothingIsLeftWaitingHolds` and `RendersAloneHolds`, for any number of requests and
  runs of one video. Whoever writes "queued" or "generating" leaves somebody behind
  who will write again (`WaitingInv`), a run that is not decided is announced, about to
  be or under way (`UndecidedInv`), and where nobody cancels the row of a run says
  where its pipeline stands (`FlowInv`), all of that until the video is deleted; as long
  as requests do not overlap one run at most is on its way and the video's status says
  so, and a run that a deletion left undecided keeps the status it had (`AloneInv`).
- `StatusMovesLegallyHolds`, an action property: between the look at the status and the
  write, nobody else has moved it to where the write would be illegal (`MoveInv`).
- `DraftIsOfTheSceneHolds`, inductive by itself (`RerenderKeepsDraft`), and
  `OtherFieldsSurviveHolds` (`EditorInv`), for any scenes, requests and other clients.
- `PagesAreWholeHolds`, for any number of rows, any limits and any writes between two
  pages: the cursor is the last row that was given, and what is expected and not yet
  given is older (`ReaderIsAtCursor`).
- `OwnWritesAreShownHolds`, for every query, page and mutation of the studio, any
  number of writes, mutations at once and failures: a fetch that no news met since it
  read the rows brings all that the tab was told of, and data that is behind is being
  fetched, is not shown, failed, or was joined by the news (`ShownInv`); a write whose
  news does not invalidate the query has an event on its way that does, or the tab was
  told of it since, or `LeftBehind` lists it (`NewsInv`, from `HooksTell`).
- `OneChannelHolds`, for any number of sign-ins and sockets: while the tab is signed in
  exactly one thing keeps its channel, a socket of the effect's last run or that
  run's retry timer (`LastRunInv`, `KeeperInv`).

Only model-checked: liveness (`RunTerminates`, `EventuallyQuiet`, `DeliverySettles`,
`PaidIsActivated`, `RequestsSettle`), because fairness and `ENABLED` are out of TLAPS'
reach. Every other property of the passing runs is stated by a theorem, and every
refinement is proved. `BillingTypeOK`, `SessionsTypeOK`, the `TypeOK` of `WebhookDispatcher`,
`PostsBounded` and `SettledRowIsFinal` are proved for every value of the constants and no
run lists them.

Some definitions are written as sets of sequences (`insert`, `candidates`,
`fetchUnpublished`, `newest`) rather than with folds or filters over sequences: they
say what the code's sort, filter and slice return, each set has one element, and the
provers can reason about membership but not expand a fold. The recursion of
`matchTopic` is over one pair, because they know functions of one argument only, and
that of `deepMerge` is written out to the depth the scope has. No module declares a
`RECURSIVE` operator, which would leave the prover without its SMT backend.

## Not modelled, and the plan

Left out for good: core types, the seed, telemetry, the wiring and validation of
the API, the window of the desktop shell, marketing pages and layout: I/O and
presentation without state shared by several actors. So are computations on one
value, where a unit test says as much: `safe-net`'s classification of addresses,
signed links, the extraction of colours, subtitles, `validatePipeline`, which runs
once on a definition that is given; the schemas of the configuration's other
scopes; the Python client, which mirrors the other. `JOB_TRANSITIONS` is used by
nothing but tests. A queued workflow run is executed by nothing in the repository.

Behaviours the models have and no run of its own is about: the API dies, or the
bus rejects, after `enqueueGeneration` committed and before it published, and
the video stays queued (ADR-006 names the outbox for it, which is not used
there; `NothingIsLeftWaiting` supposes that no request was broken off); a record
of the outbox is given up after `maxAttempts`, though `outbox.ts:6` says at
least once; two tabs that refresh with one token sign one another out; the cache
of a tab stays behind an event that met its first fetch, and queries stay behind
writes that nothing tells them of (`LeftBehind`); a second client's write
between the read and the write of `updateScene` is lost, which `OtherFieldsSurvive`
exempts; a row is missed by a
reader whose cursor row was deleted; a cancellation that meets the start of a
run leaves the video generating; a deletion of a queued or generating video leaves its
run undecided; an invoice is marked paid and the call fails before the subscription is
activated, which `PaidIsActivated` exempts; a response of the media route has the length
of an object that was replaced.

Open, in the order of what it would say about the system:

1. `Videos` as what `PipelineRun` looks like from one video: a refinement of several
   runs to one row. Until then the two are related by reading only.
2. Action properties that follow from the invariants above: what a step of a command,
   a provider call or a fetch may never undo.
3. Liveness of the bus and the live channel under a broker that answers again.
