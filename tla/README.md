# cf-manager: specifications, model checks and proofs

cf-manager is a self-hosted panel that manages many Cloudflare accounts. It has
two builds with one frontend: a Node server (`backend/`, Express and SQLite) and
a port to Cloudflare Workers (`worker/`, Hono with D1 and KV). This directory
holds TLA+ models of the parts of it that carry state between requests, the TLC
configurations that check them, and theorems about them that TLAPS checks.

Paths below are relative to the repository.

- [1. The system](#1-the-system)
- [2. What is modelled, module by module](#2-what-is-modelled-module-by-module)
- [3. The runs](#3-the-runs)
- [4. Fairness](#4-fairness)
- [5. What is proved, and how](#5-what-is-proved-and-how)
- [6. Where the code differs from what it says](#6-where-the-code-differs-from-what-it-says)
- [7. What is not modelled](#7-what-is-not-modelled)
- [8. Plan](#8-plan)
- [9. Reading and running](#9-reading-and-running)

## 1. The system

### Components

| component | state it keeps | operations | status |
|---|---|---|---|
| **Inference gateway, server** (`backend/src/routes/openai.ts`, `services/accountRouter.ts`, `models/quotaUsage.ts`) | quota rows per account and day (count, exhausted), a cached snapshot of the routable accounts, the last account used, the set of paid models | chat, streamed chat, images, speech, transcription, translation, embeddings; `GET /models` | modelled, except for formats |
| **Quota synchronisation, server** (`services/quotaTracker.ts`) | one synchronisation in flight, shared by its callers | fetch every account's usage, overwrite the counts | modelled for `ai_neurons` |
| **Inference gateway and quota, Worker** (`worker/src/routes/openai.ts`, `services/quotaTracker.ts`, `db/models.ts`) | D1 rows, a snapshot in KV (60 s), optimistic estimates | the same seven endpoints, with an await at every read and write | modelled, except for formats and `GET /models` |
| **Accounts administration, both builds** (`routes/accounts.ts`, `models/account.ts`, `db/models.ts`) | table `accounts`, audit log | create, edit, features, delete, test one or many, import, clear-exhausted, plan probe | modelled, except for columns no property reads |
| **Store deployments, server** (`services/deploy/*`, `routes/store.ts`) | nothing of its own but a record at the end; the state is Cloudflare's (KV, D1, R2, scripts, Pages projects) and locals | resolve bindings, init script, upload a Worker, publish Pages, roll back | modelled |
| **Catalog sources, server** (`routes/store.ts`, `models/catalogSource.ts`, the cron of `index.ts`) | table `catalog_sources` with etags, catalogs in memory | add, edit, switch, delete, load, refresh, six-hourly cron | modelled |
| **Browser rendering, both builds** (`browserRateLimiter.ts`, `browserRenderHandler.ts`) | token buckets in memory, KV or a D1 row; quota rows; a daily timer | acquire, render, retry, mark, status, daily reset | modelled |
| **Redeployment of configurations, both builds** (`services/workerConfig.ts`, `workerService.ts`, `bindings.ts`, `assetsDeploy.ts`, `routes/workers.ts`, with `DeployDialog.vue` and `WorkerSettingsDrawer.vue`) | Cloudflare's: a script's live and latest configuration; the dialog's form | read, diff, purge, upload, publish, secrets, patch; open, prefill, edit, send, retry | modelled, except for code and assets |
| **Console pages** (`StorageView`, `DnsView`, `TunnelsView`, `AccountsView`, `WorkersView` and their stores and drawers) | selection, lists, contents, forms, spinners, requests in flight | select, load, open, edit, send, answer | modelled: selections, requests and answers |
| **Scheduled tasks** (`services/taskScheduler.ts`) | cron jobs, table of tasks | create, update, delete, run | planned, small |
| **Tunnels and the origin wizard** (`routes/tunnels.ts`) | Cloudflare's | tunnel, CNAME, ingress, rollback | planned |
| **Store deployments and catalogs, Worker** | D1 rows, catalogs in KV | as on the server | planned |
| **Other Workers, Pages, storage, DNS and rules routes** | none | one request forwarded, one answer | not modelled |
| **Proxies, authentication, encryption, envelopes, price lists, catalog validation, schema** | none between requests, or pure data | | not modelled |
| **Other pages of the frontend, build scripts** | | | not modelled |

### How they interact

The gateway reads the accounts table and the quota rows through a *snapshot* in
`quotaCache` (node-cache, ten minutes). The administrator's routes change the
table and drop the snapshot; a failed call marks an account exhausted and edits
the snapshot; the synchronisation overwrites counts while calls are in flight.
Quota and audit rows refer to the account by foreign key, so that deleting an
account takes its quota rows away and makes a late insert throw. The browser
limiter shares the accounts table and the quota rows, but keeps its own buckets.
Deployments meet each other on the Cloudflare account: a batch
(`Promise.allSettled` in `routes/store.ts`) runs them at the same time, and two
of them may name the same database, bucket or script. Catalog sources are
refreshed by page loads, by the administrator and by a cron loop, all through
`refreshSource`, which works on a row read before its fetch.

The console asks these routes from several places of a page at once and writes
whatever comes back into the page. A deployment's form is filled from one read
of a script's configuration, sent whole, and compared by the server with another
read; the dialog, the drawer and the synchronisation of secrets may all be under
way on one script.

### What is hard here

- **Atomicity.** In the Node build SQLite is synchronous: everything between
  two awaits is one step. Every network call is a point where other requests,
  edits, timers and deletions run. In the Worker build every read and write of
  the store is such a point.
- **Stale values.** Rows, snapshots and etags read before a call are used after it.
- **Partial failure.** Every call to Cloudflare may be refused, fail before it
  took effect, or take effect and lose its reply; rollbacks and audit inserts
  may fail too.
- **Two copies of one fact.** Exhaustion is in a row and in a bucket or a
  snapshot; a catalog's version is in a row (etag) and in memory.
- **Answers out of order.** A page does not compare an answer with what is
  selected by then; a dialog keeps what an earlier row left in it.
- **What cannot be read back.** A secret has no value in any answer, so that a
  form can only keep it, and every path has to know which names are kept.
- **Time.** Midnight and the daily reset, KV's expiry, the interval between two
  renderings, a late answer that marks the wrong day.

`PROJECT.json` lists these hazards one by one, at the line where each bites, with
the properties that cover it or the reason why none does.

### What makes each component correct

- *Gateway*: a request is answered, once; it asks no account twice and none but
  a pinned one; a final error is not retried; the verdict "quota exceeded" has
  its reason; each completion is counted once, for the account that served it; a
  mark of exhaustion lasts for the day.
- *Deployments*: rollback deletes what this deployment created and nothing that
  was there; what is left behind is explained; success means that the resources
  exist; a deployment ends.
- *Catalogs*: a source shows catalogs from its own addresses; an etag vouches
  for what is cached; outages take nothing away; a source recovers.
- *Browser limiter*: an interval between two calls; a marked account is passed
  over; "all exhausted" is true; exhaustion ends.
- *Accounts*: an account in use has credentials that have been verified, and an
  `account_id` that they open; an import tells the truth; a deleted account
  stays deleted; in a batch, one account's failure is not the batch's.
- *Redeployment*: kept secrets survive; each name moves only from what it was to
  what the form says; success means that the form is in place; an unedited form
  changes nothing that serves.
- *Console*: a page shows what is selected, writes back where it read, and takes
  its spinners down.

## 2. What is modelled, module by module

Every component has the same files: the module itself (state and actions),
`...Props` (what must hold of it), `MC...` (the instances TLC checks) and
`..._proofs`, where something is proved. There are two abstract specifications
besides: `Failover`, which both gateways implement, and `Saga`. Some modules hold a *faulty variant* of an operation next to it:
such an operator is used by no specification; it says what a plausible mistake
would look like, and each property has one (or an operation) that breaks it.

### AiGateway: inference requests, router, quotas

| in the model | in the code |
|---|---|
| `acct` | a row of `accounts`: exists, active with feature `ai`, plan |
| `usage`, `exhausted` | today's rows of `quota_usage` for `ai_neurons` |
| `snapshot`, `lastUsed` | the `ai_neuron_snapshot` entry of `quotaCache`; `lastUsedAiAccount` |
| `paidNames` | the set that the first model list fills; empty before |
| `editing` | where `POST` or `PUT /accounts` is between its row write and its probe |
| `syncing` | the accounts whose figure the running synchronisation awaits |
| `req[r]` | the locals of one handler: `spec` (pinned account), `skipped`, `tried`, `quotaHits`, `cur`; `reply` remembers what each account answered |

An action is what one handler does from the reply it awaited to its next await.
`Arrive` is the validation, the choice of the first account and the first call;
`NetworkError`, `UpstreamBusy`, `NeuronLimit`, `UpstreamFatal`, `BrokenBody`,
`EmptyResult`, `Success` and `StreamStart` are the replies, with all that
follows each: accounting, the mark, the audit insert that may throw, the choice
of the next account and its call, or the end of the rotation. Streams go on with
`StreamEnd`, `ClientGone` and `StreamStall`. Where the endpoints differ (which
of them audit a failure, which mark a pinned account, which sleep a second
before the next account, how the verdict is computed) the operator is named for
the difference (`AuditsFailures`, `MarksSpecified`, `QuotaVerdict`, ...).

The node-cache clone is modelled as it is: `RemoveAccountFromAiCache` leaves the
snapshot alone, but for a snapshot of one account, which it drops.

Neurons are counted in units of the router's estimate (1000 neurons) and a
completion costs one unit. The day is a counter; a new day starts with no rows.
Left out: `GET /api/ai/usage`, which runs the loop of the synchronisation
without its de-duplication; two edits of one account at a time; formats,
messages and the conversion of images and audio.

**Failover** is the promise to one request: it asks accounts one after another,
none twice, only the pinned one if there is one, and is closed once, with
success or exhaustion only after asking somebody. The mapping is `Jobs` in
`AiGatewayProps`: a request's phase, the accounts that have a reply, its count
of calls and its answer.

### StoreDeploy: one-click deployments

| in the model | in the code |
|---|---|
| `holder[t]` | who created the resource titled `t` that exists on the Cloudflare account: nobody, the account's owner, or a deployment. A title with its creator stands for the resource's id |
| `script`, `projects` | the Workers scripts (by whom the active version is), the Pages projects |
| `dep[d]` | the locals of `deployTemplate`: `resolved` is `resolvedBindings` with `created`, `deployed` is `workerDeployed`, `errors` is `rollbackErrors`, `pending` a database created whose script has not run |

The order is the code's: bindings one by one (`Declare`, `UseExisting`, `List`,
`Create`, `InitSql`), then the Worker (`Download`, `CheckScript`, `PutScript` or
`UploadVersion` and `Release`), then Pages (`FetchPages`, `CreateProject`,
`Publish`), then the record (`Finish`). Each may throw; each call that changes
the account may also take effect and lose its reply. `Undo` is one delete of the
rollback, `Close` its end and the record of failure, which throws when the
account's row was deleted. A bucket is deleted by name, and listing buckets
falls through to creation when it fails, as in the code. A binding that asks for
an existing resource by its id is taken at its word (`UseExisting`): whether the
id exists is looked up only where it is a database with a script, which then
fails. A restart loses the locals (`Crash`).

One Cloudflare account; a KV namespace behaves as a database without script.
Left out: the report of preflight (its `canProceed` is always true,
`preflight.ts:150`), triggers and observability (soft failures that change
nothing a deployment reads), the retries inside one call, and the owner's own
changes to the account while a deployment runs.

**Saga** is the promise about named resources: a deployment takes names nobody
holds, gives up only what it took, and only after it has decided to abort; one
that has committed keeps everything. `ImplementsSaga` maps the phases and hides
everything but `holder`.

### CatalogStore: catalog sources

| in the model | in the code |
|---|---|
| `rows` | `catalog_sources`: url, `is_default`, `enabled`, `etag` |
| `cache` | `catalogCache`, the `Map` of `routes/store.ts` |
| `calls[j]` | one request, or one iteration of the cron loop, for one source: the addresses it has left (with the etag it sends to each), the status and body of the last answer |
| `pending` | the rows that the cron loop has read and not yet refreshed |
| `nextId` | `AUTOINCREMENT`: an id is never handed out twice |

`StartCreate`/`FinishCreate`, `StartEdit`/`FinishEdit`, `SetEnabled`, `Delete`,
`LoadCached`/`LoadFetching`, `Refresh` are the routes; `CronTick`/`CronNext` the
loop; `Fetch` an answer; `Unchanged`, `Fresh` and `Failed` what `refreshSource`
does with it. A catalog is the pair of an address and a version; an etag is that
pair, for the addresses whose server sends one. `FinishEdit` caches before it
updates, so that a taken address leaves the catalog and loses the update.
`EnsureDefault` is `GET /init`, which inserts the official source unless it is
there or another row has its address.

A page load is one call per source (the code runs them in `Promise.all` and then
merges; the merge is left out). `last_status`, `last_error` and the exact time
of the last synchronisation are left out: how old a row is, is left open. The
order of the cron loop is left open too. A body is a valid catalog or a failure:
validation is a pure function.

### BrowserRender: the limiter of both builds

`store` chooses the build, in `Init`: `memory` is the server, `kv` and `d1` the
Worker with and without KV. `bucket` is the Map, the KV entries or D1's map of
last uses; `marked` is the day's rows of `quota_usage`. A bucket has a `cool`
time (what is left of `TOKEN_INTERVAL_MS`), the flag `exhausted`, and `life`,
what is left of KV's TTL. The handler (`Arrive`, `ArriveDirect`, then an
`Answer`) retries once after a daily limit. In the server `Acquire` is one
synchronous step over all accounts; in the Worker it is `StartScan`, `Scan` per
account, `Claim` and `ScanEnds`, and the answer's mark is two writes (`Mark`,
`MarkRow`). `Midnight` and `DailyReset` are apart, since a timer fires after the
date has changed. `Status` is the status request, whose `EnsureBuckets` drops
the buckets of inactive accounts.

`gap`, `held` and `refused` are history: what is left of the interval since the
last call the limiter handed out, the accounts marked today whose mark the
limiter was not made to forget, the accounts that themselves refused. Left out:
the rendering itself; the order in which accounts are tried (any account that
qualifies); usage seconds, which no decision reads. A tick is longer than a
scan, and KV is read as it was last written.

### WorkerGateway: the same requests in the Worker

| in the model | in the code |
|---|---|
| `store` | whether the KV binding exists, chosen in `Init` |
| `acct`, `usage`, `exhausted` | the rows of D1 |
| `kvSnap` | the KV entry `ai_neuron_snapshot`, or nothing |
| `syncing` | the replies that synchronisations wait for, per account: nothing joins two of them here |
| `req[r]` | the locals of one handler; `rows` is the list it carries between two awaits, `skipped`, `hits`, `tried`, `cur` as on the server |

The seven endpoints are one machine with seven rows of a table
(`ChatEndpoint`, `ImageEndpoint`, ...): which failures exclude an account from
the rest of the rotation, what becomes of an empty result, when exhaustion is
the verdict. A selection is up to seven steps (`ReadSnapshot`, `JoinAccounts` or
`RecheckSnapshot`, `ReadAccounts`, `ReadUsage`, `PutSnapshot`, `Claim`), and a
reply up to three more (`MarkExhausted`, `Count`, `Deliver`), with the
administrator, the clock and other requests between any two. Usage and the
optimistic estimates only order the candidates, so any candidate may be chosen
and they are left out. A client that goes away cancels the invocation (`Cancel`).
The location that serves KV is taken to be one, so that a read returns what was
last written there.

`Jobs` maps every endpoint but the chat to `Failover`; a chat request does ask
an account twice (section 6).

### Accounts: the administration of accounts, both builds

| in the model | in the code |
|---|---|
| `rows`, `nextId` | table `accounts`: type, token, key, `account_id`, `is_active`; `AUTOINCREMENT` |
| `task[r][n]` | one account's work within a request: the statement or call it is at, its credential (and the `account_id` that the client of `POST` gave), the row as it was read |
| `mode[r]` | whether the tasks of a request run one after the other or together (`Promise.all`) |
| `cpu` | on the server, the task that runs until its next call; always free in the Worker |
| `verified`, `astray` | history: credentials a call has succeeded with; accounts whose `account_id` came from other credentials |

`Arrive` starts a request of any kind, `Step` is one statement on the database
or one call, `Answer` the response. What distinguishes the handlers (where a
failed list of Cloudflare accounts leads, in which order row, probe and audit
record are written, what a failed audit record does) is a record per handler:
`PostAccount`, `PutAccount`, `TestAccount`, `TestOne`, `ImportLine`,
`DeleteAccount`, `DeleteOne`. An audit record refers to its account, so that its
insert fails once the account is gone.

Left out: requests refused before they read an account, the guards of the demo,
reads (list, export), the columns for names, features, proxy and plan, the
parsing of CSV; batches are of at most five tasks, which is how many run at a
time. Nothing but the constraints of the model's columns makes a statement fail.

### Redeploy and RedeployForms: changing a configuration that is in use

`Redeploy` is the servers' part. `live[s]` is the configuration that serves,
`latest[s]` that of the version uploaded last; a configuration gives each name
nothing, a plain value, a secret, a binding the form has a row for, one of Workers
AI, or one it has none for. `preview[s]` is what the previews of a project have. `sort[s]` tells how a script is deployed (in place, by versions, a
Pages project, not there yet). A request goes through `Resolve`,
`ReadNode`/`ReadWorker`, `Purge` (secrets whose row is gone), `Decide` (is an
upload needed), `FetchNode`/`FetchWorker` (the code that is there), `UploadNode`/
`UploadWorker`, `Observe`, `Publish` (of the version its reply named, `Replies`, or
else of the first in the list, `Chosen`), `Reread`, `Secret` (one by one), or, for
Pages, `Patch`, of production and previews; every call may fail, and the failures
that the code swallows are remembered in `swallowed`. Where a request is alone on its
script (`alone`), `start` is what it found.

`RedeployForms` is who asks: the dialog (`OpenRow`, `ReadAnswered`, `Edit`,
`ChooseCode`, `HandleDeploy`, `RetryAccount`, ...), whose rows outlive its closing, the
drawer's form for one variable, and the synchronisation of secrets between
scripts. `Prefill` is what the dialog makes of a configuration: a binding of Workers
AI, under whatever name, becomes a switch and comes back under the name `AI`
(`AiName`). A retry goes to the failed row's account under the name the dialog has by
then (`Account`, `Title`), and without a code URL; a call that is lost or refused as a
whole leaves no result to retry (`ConnectionLost`). The drawer reads the
configuration (`SaveVar`), may be opened on another row (`DrawerMoves`) and then
sends (`VarRead`).

What Cloudflare makes of a call is external and stated once: an upload replaces
plain variables and bindings and leaves secrets, a patch of a project merges (but
has one binding of Workers AI, which takes the place of the one before), a `PUT` on a
versioned script stores a version whose bindings may be ignored. Names are valid,
and the name `AI` is given to Workers AI only; the answer to a read is taken as it
arrives. The content of code, assets, observability and subdomains are left out,
beyond that they may fail; so is a retry that names a script outside `Scripts`.

### Console: what the pages show and send

`Console` puts six modules side by side, one per page or tab (`StorageView`,
`DnsView`, `TunnelsView`, `OriginRules`, `AccountsView`, `WorkersView`), of
which one is open. Each has the page's selection, what it shows (as the
container, domain, target, query or script it was read from, which is all that
the properties tell apart), its forms (with where they were read from), its
spinners, and the requests in flight, which are answered in any order, or fail.
An action is a click or an answer, with every store call and watcher it sets
off. A click needs what the page asks for: no dialog over it, no spinner over
the button where the template has one.

The code never compares an answer with what is selected by then. So `...astray`
(history) marks what an older answer, or a form sent while it was read, has
filled: the properties are about everything else. On the storage page every
request also says from which containers the row or form it sends was read
(`from`), through the KV editor and the dialog of a D1 table (`editor`,
`schema`), which keep what is in them when they close and when the selection
changes; `doubt` (history) marks what is sent from rows that an answer overtook,
from the tables of the previous database while those of the new one are asked
for, and from a dialog that the "create" button or an answer opened over what an
earlier use left in it. `WritesWhereRead` holds but for these, and but for the
cache tab of the DNS page; section 6 lists them as defects. The rows of the workers page
are of one kind at a time, Workers or Pages; what forms contain, previews and
downloads are left out.

## 3. The runs

Passing runs explore their whole state space. Deadlock is not checked in any of
them: clients, administrators and clock may stop, and the bounds stop them.

| run | checks | distinct states |
|---|---|---|
| `ai_endpoints` | one request of any of the seven kinds, pinned or not; an account that exists, one that may be added; edits and a new day meanwhile: `QuotaVerdictJustified`, `FinalReplyIsLast`, `CompletionsAccounted`, `ImplementsFailover`, `EveryRequestAnswered` | 477,824 |
| `ai_concurrent` | two image requests, a synchronisation and an edit interleave: `CompletionsAccounted`, `MarkSurvives` | 2,716,884 |
| `worker_endpoints` | one request of any kind in the Worker, with KV or D1: `QuotaVerdictJustified`, `ImplementsFailover`, `EveryRequestAnswered` | 528,460 |
| `worker_concurrent` | two requests of the Worker, step by step: `CompletionsAccounted`, `MarkedOnlyFades` | 3,443,724 |
| `store_deploy` | two deployments at a time, a restart, the account deleted: `LeftoversExplained`, `SuccessHoldsResources`, `DeployedWorkerKept`, `UserResourcesKept`, `ImplementsSaga`, `EveryDeployEnds` | 976,728 |
| `catalog` | one request beside the cron loop, three edits, a restart: `OwnAddressesOnly`, `EtagVouchesUnlessClash`, `CatalogKept`, `SourceRecovers` | 1,693,986 |
| `browser` | two requests in each build: `RateKept`, `MarkedSkipped`, `VerdictHonest`, `ExhaustionEnds` | 983,611 |
| `accounts` | two requests of any kind, up to three accounts, both builds: `CredentialsPresent`, `ActiveVerified`, `AccountIdOwn`, `ImportTruth`, `FaultsExplained`, `GoneStaysGone` | 3,145,394 |
| `redeploy` | two requests from dialog, drawer and synchronisation, both builds: `NameByName`, `AppliedWhole`, `RoundTrip`, `KeepKept` | 2,625,013 |
| `console` | each page with two selections of every kind and two requests in flight: `TypeOK`, `ShowsSelection`, `WritesWhereRead`, `SpinnersFly` | 3,207,102 |

The other two, `ai_stream_hung` and `redeploy_others`, show disagreements between
the code and what it says, and are in section 6.

The type invariants (`TypeOK`) are theorems; the console's is checked by its run
as well.

### Bounds, and why they are enough

- **Gateway.** Two accounts: one that fails and one to rotate to; a verdict that
  mixes two reasons needs no third. `ai_endpoints` has one request because its
  properties are about one request and whatever else may change (`MaxEdits` 2,
  `MaxDays` 1): an edit and a deletion, or a creation and its probe. The model
  is a paid one, so that the router has to meet it as a free one before
  `GET /models` (`paidNames`). With `Affinity` 0 the last account
  used is kept on a tie and left once it has been used more than another. `ai_concurrent` has two
  requests and a synchronisation, since its properties are about counting and
  marking by several; of one kind, as the accounting is the same for all.
- **Deployments.** Two: what goes wrong between deployments is between a pair.
  `Hybrid` (database with a script, bucket, Worker, Pages) takes every step of
  `deployTemplate`; `Site` (a required variable, the same bucket, no Worker)
  fails in its bindings and meets the first in the bucket and in the name. The
  owner may have had either resource, the script and the project.
- **Catalogs.** One caller beside the cron loop: two calls of one source at the
  same time, which is what a stale row needs. Two ids and two addresses: a clash
  needs two sources, and a deleted id followed by a new one shows that ids are
  not reused. The primary address may fail and sends no etag; the fallback
  always answers and sends one. Version 0 is a catalog without templates.
- **Browser.** Two accounts, two requests: one spends or marks while the other
  scans. `Interval` 1 and `KvTtl` 2 keep their order (10 s and 20 s), which is
  what the code relies on. Edits: two for the server, where they drop buckets,
  one for KV, none for D1, where they would only change which accounts a scan
  begins with and which rows it reads. They are bounded by build to keep the run
  small; the theorems hold for any number of them.

- **Worker gateway.** Two accounts for the same reason as above. One request of
  any kind with one edit, one synchronisation and one midnight between any two of
  its awaits; or a chat or image request beside a speech request, as the
  accounting after the reply differs between these (a stream, a count, a result
  that may be empty), with two edits or expiries and no other writer of the
  counts; there one account exists at first, and the other is created while the
  requests run, before or after they have listed the candidates.
- **Accounts.** Two requests: every hazard listed is one handler against another.
  Three ids: one account in use, one imported and not verified, and one to be
  created. Two tokens of different Cloudflare accounts and a key that opens the
  first: enough for a switch of type, a change of owner, and one without. A file
  that names one credential twice, and one of a single key.
- **Redeployment.** Two requests, interchangeable (symmetry). Two scripts and three
  names, one of them `AI`; four `Starts`, two for each build, which between them
  have every sort of script and every kind of entry, Workers AI bound as `AI` and
  under another name, and a project whose previews differ from its production. Users
  enter one value or none (`Typed`), while what is there has another. `MaxWork` 3
  bounds what users do and the calls that are lost: open, edit, send; or send twice;
  or open two rows and send. Nothing the servers do is bounded.
- **Console.** Two of everything that can be selected: one that is, one that was.
  Two requests in flight: a late answer and a fresh one. One pane of a drawer is
  followed at a time, and on the storage page the contents of the first tab, with
  its editor, of the second, or of the first and the third, since panes do not read
  each other; but a drawer of Pages is followed with two,
  its domains and its bindings, as the form of one may open over the zones that
  the other has asked for. A rule starts with a host and something the form
  has no field for, so that taking it apart and putting it together again makes
  a second expression.

The modules name what they assume of their constants (`AccountsAssumption`,
`TemplatesAssumption`, `BrowserAssumption`, ...); TLC evaluates these assumptions
in every run, and the proofs use nothing else.

## 4. Fairness

Only the passing runs with a liveness property, and `ai_stream_hung`, run under `FairSpec`.

- *Gateway*: weak fairness of each request's handler. `proxyFetch` has a
  timeout, so a call ends; timers fire; SQLite does not block. Nothing obliges a
  client, the administrator, the synchronisation or the clock. The client of a
  stream may go away at any time, and a handler that then waits for `drain`
  waits for ever: this is why `EveryRequestAnswered` leaves streams out.
- *Deployments*: weak fairness of each deployment's next step, for the same
  reason. `EveryDeployEnds` holds with any failures, also of the rollback.
- *Catalogs*: weak fairness of the cron's tick, of its next source and of the
  call it makes; node-cron fires and undici's timeouts end a fetch. None for
  requests: the cron alone must bring a source back.
- *Browser*: weak fairness of midnight and of the daily timer, none for requests.
- *Worker gateway*: weak fairness of each request's handler: a promise of D1, KV
  or `fetchCf` settles. `EveryRequestAnswered` excepts a chat request that is told
  for ever that accounts are busy, as the loop has no other end.

`accounts`, `redeploy` and `console` check safety only: what ends there ends
because a call does.

## 5. What is proved, and how

TLAPS checks every theorem for all values of the constants that satisfy the
assumptions: any number of accounts, requests, models, deployments, titles,
templates, addresses, versions, and any bounds.

| theorem | establishes |
|---|---|
| `AiGateway_proofs!Invariance`, `TypeCorrect` | `IInv`, `TypeOK` |
| `QuotaVerdictCorrect`, `FinalReplyCorrect` | `QuotaVerdictJustified`, `FinalReplyIsLast` |
| `MarkSurvivesCorrect` | `MarkSurvives` |
| `LedgerBalances`, `CompletionsCorrect` | `LedgerInv`, `CompletionsAccounted` |
| `FailoverImplemented` | `ImplementsFailover` |
| `StoreDeploy_proofs!Invariance`, `TypeCorrect` | `IInv`, `TypeOK` |
| `UserResourcesSafe` | `UserResourcesKept` |
| `SagaImplemented` | `ImplementsSaga` |
| `DeployedWorkerSafe` | `DeployedWorkerKept` |
| `LeftoversKnown`, `SuccessHolds` | `LeftoversExplained`, `SuccessHoldsResources` |
| `CatalogStore_proofs!Invariance`, `TypeCorrect` | `IInv`, `TypeOK` |
| `OwnAddressesCorrect`, `EtagCorrect`, `CatalogKeptCorrect` | `OwnAddressesOnly`, `EtagVouchesUnlessClash`, `CatalogKept` |
| `BrowserRender_proofs!Invariance`, `TypeCorrect` | `IInv`, `TypeOK` |
| `RateKeptCorrect`, `MarkedSkippedCorrect`, `VerdictHonestCorrect` | `RateKept`, `MarkedSkipped`, `VerdictHonest` |
| `WorkerGateway_proofs!Invariance`, `TypeCorrect` | `IInv`, `TypeOK` |
| `QuotaVerdictCorrect`, `MarkedOnlyFadesCorrect` | `QuotaVerdictJustified`, `MarkedOnlyFades` |
| `FailoverImplemented` | `ImplementsFailover` |
| `LedgerBalances`, `CompletionsCorrect` | `LedgerInv`, `CompletionsAccounted` |
| `Redeploy_proofs!TypeCorrect`, `KeptSecretsStay` | `TypeOK`, `KeepKept` |
| `MovesNameByName`, `SuccessApplied`, `UneditedChangesNothing` | `NameByName`, `AppliedWhole`, `RoundTrip` |
| `Accounts_proofs!CredentialKept` | `CredentialsPresent` |
| `ActiveKnown`, `AccountIdKept`, `ImportHonest` | `ActiveVerified`, `AccountIdOwn`, `ImportTruth` |
| `FaultsKnown`, `DeletedForGood` | `FaultsExplained`, `GoneStaysGone` |
| `Console_proofs!ConsoleTypes`, `SelectionShown` | `TypeOK`, `ShowsSelection` |
| `WrittenWhereRead`, `SpinnersEnd` | `WritesWhereRead`, `SpinnersFly` |

None of the properties is inductive; each `IInv` says why it holds.

- **Gateway.** The properties speak of what every account answered; the code
  knows two counters and the set it skips. `IInv` ties them together: `Counted`
  (the counters are the cardinalities of the sets), `Between` (about to attempt:
  the accounts asked are the ones skipped, all with a reply that may be
  retried), `InFlight` (one account more than those skipped), `Settled` (a
  final reply is that of the current account, a verdict of exhaustion was
  computed from the counters). The refinement then follows, since an account
  that is not skipped has not been asked.
  `LedgerInv` keeps the books of usage: until a synchronisation or a new day, the
  usage of an account that exists is the cardinality of `Served`, the requests it
  has completed. One more served raises both, and a new row starts at zero: as
  requests and the cached snapshot name only accounts that were added (`Born`),
  none can have been served by a row that is still to come.
- **Deployments.** An entry marked as created names a resource that its
  deployment holds until the rollback deletes it; each entry comes from a
  binding already passed, and titles are distinct, so one delete does not stand
  for two entries. That is what makes deletion by title (buckets) safe for the
  owner's resources, and every deletion a `Release` of the saga.
  What is left when a deployment is over needs more.
  `ScriptInv`: from the check that finds a script to its release a deployment
  relies on it, as a refused release counts as deployed; so the excuse must hold
  from there on. `OutcomeInv`: a resource held is in an entry the rollback has yet
  to reach, in its errors, or the binding in hand (`AccountsFor`), and what an entry
  names is there or was given up by a creator that cannot succeed any more
  (`Possesses`), which is stable as a rollback never turns into a success.
- **Catalogs.** An address in a row, in the cron's list, in a call or in the
  cache was given for that source (`RowsOwn`, `PendingOwn`, `CallsOwn`,
  `CacheOwn`), and no source that has no row yet is mentioned anywhere: so a
  late answer for a deleted or edited source cannot reach another one. Rows and
  cache change together in `Fresh`, which is why the etag vouches.
- **Browser.** In the server, bucket and history agree (`BucketsTell`): the
  gap of an account is never longer than its bucket has left to cool, a held
  account's bucket is exhausted, and the account of an exhausted bucket refused. In the Worker (`RowsTell`) a held account is marked
  in the rows, what a scan knew as it began is still marked, and with D1
  a scan never claims an account it knew of.
- **Worker gateway.** As on the server, but from one await to the next: in every
  phase of a selection (`Between`) each account whose failure excludes it is in
  `skipped`, and in every phase of a reply (`InFlight`) all but the current one
  are. Nothing is assumed of the snapshot, so that no state of KV can make the
  rotation ask an account twice. That a mark only fades rests on the order of two
  statements: usage rows are read after the accounts, and what is written to KV
  was filtered by them. The ledger is the server's, between two sets: the requests
  certainly counted (`CertainOf`) and those that may have been (`PossibleOf`), since
  an invocation may have been cancelled before its count or after it.
- **Redeployment.** A secret that a form keeps could be touched by an upload or a
  published version, by the purge, by the secrets API or by a patch. `VersionOwn`
  says that a version a request is to publish by its reply holds what its own form
  sends, in which a kept secret is absent, unless its bindings were ignored; `TodoSpares` that the names to be purged have no secret in the form and
  those to be stored are not kept. A step on another script, or one that only
  moves a request along, leaves the configuration alone; the remaining calls then
  leave the name as it is, and only a patch touches the previews (`KeepKept`).
  Excepted is a version that may not be the request's own and holds the name, since
  to publish it is to replace the secret (`OthersVersion`).
  The other three are about a request that has its script to itself. `Sound` says
  what the configuration holds at each point of its way: each name is as it was
  found, as it was sent, or gone where it may go (`AllMay`); where no call failed in
  silence, the stages are complete one by one (`Whole`); and where the form is what
  the dialog was filled with, no name that it can show has changed (`Same`, `Shown`);
  for the previews, `Copied` says that a patch with that form, which sends what
  production has, left them equal to it: a later patch by another request either
  changes production, and the first is no longer alone, or does to the previews what
  it does to production, which is nothing. Bindings name their
  resource (`Named`): a request finds or creates one where the form leaves it open
  (`Resolve`), and `RedeployAssumption` says it of the configurations at the start,
  as a binding without a resource could not have been made.
- **Accounts.** `Fits` ties what a task keeps to the place where it is. From the
  read of its row on, its id is below the counter (`Placed`), so that an INSERT
  never gives it to another account; hence a row found missing stays missing, and
  a server error that is not a failed test of one account has that reason for good. `Renames`: on the server an edit that
  gives no credential holds the processor from the read to the write, so the type
  it compared is still the row's, and no switch can drop the credential in use.
  The proof stops being one in the Worker at exactly that point, where the
  `await` lets another edit in. `AdvancePreserves` reduces all eighteen steps to
  two questions, what becomes of the table (`TableKept`) and of the task (`Moves`).
  Whose credentials an account holds is a second invariant, `Grounded`: what a task
  has verified by the time it writes (`Proven`), and that the row it saw still holds
  the credentials it saw or others that have served (`Current`), which every step
  keeps since it changes a row only to such credentials (`Betters`). A row whose
  `account_id` is not of its credentials is marked or has a refresh under way
  (`Own`), the row that `POST` has just inserted with its client's `account_id` too. For `ImportTruth`, of the lines of a file with one credential only the
  first goes ahead (`Apart`), and the line that made an account stays its witness
  (`Origin`). The table may start with any accounts but imported ones; those whose
  `account_id` is already another's are `astray` from the start.
- **Console.** One invariant for each page, and their conjunction for the whole,
  since only one page moves at a time. Three ideas recur. A pane shows what is
  selected, was overtaken, or waits for a request *about the selection* that is in
  flight: when that request is the one answered, its answer is what is shown, and
  when another is, it is still there to wait for (`Answered`). A flag is tied to
  the requests that will take it down (`StorageSpin` and the like): with two in
  flight and one of them answered, a page that shares one flag between them takes
  it down early, never late. And a form knows where its values came from before it
  is sent. What each page needs beyond this tells where it could go wrong. Storage:
  a list that is not empty was asked for by this account (`ListsAsked`), nothing is
  asked before the accounts are known (`NothingYet`), and a request about a container
  names one, with its owner (`Sound`); rows of another container are under the
  spinner, or astray, or, of a database, followed by a request (`RowsHere`), and an
  open dialog that is not in doubt holds what came from the selected container, as
  the page under it takes no click (`DialogsHere`; the selection may still go when
  its deletion is answered, and D1 then selects another by itself). Workers: a pane that does not load shows the
  row that is open (`PanesShown`), every request fits the drawer it came from
  (`Fit`), and a form opened over a pane has that pane's row (`FormShown`).
  The proof corrected `DrawerOwn`. It had said that a Pages drawer keeps the zones
  of an earlier row only while no form is open; no step could be shown to keep
  that, as the form of bindings opens over them too (it does not offer them). The run had followed
  one pane at a time and could not see it; with both panes it refutes the
  old form, and the property now names the one form that reads them.

Only model-checked: the liveness properties (`EveryRequestAnswered`,
`EveryDeployEnds`, `SourceRecovers`, `ExhaustionEnds`), as fairness and `ENABLED`
are beyond the prover. Every other property of the passing runs, invariant or
action property, is a theorem.
No module has a recursive operator, and nothing is proved by induction over data.

## 6. Where the code differs from what it says

Two have a run that must find the violation, and an entry with the quotation in
`PROJECT.json`.

| run | property | what the run shows |
|---|---|---|
| `ai_stream_hung` | `StreamsAnswered` | A streamed request whose account is deleted during its call ends in an exception; `v1ErrorHandler` returns because the headers are sent, and the response stays open (`v1ErrorHandler.ts:17`) |
| `redeploy_others` | `OthersKept` | Saving or deleting one plain variable in the settings drawer sends every other plain variable back with an empty value (`WorkerSettingsDrawer.vue:548`; the comment at 543 says that all are collected and one is replaced) |

The following are steps that the models contain; the properties of section 3 are
stated with the exception that each makes necessary.

Gateways:
- One 4006 among other failures is enough for a chat request to be answered 429
  `quota_exceeded` (`backend/src/routes/openai.ts:343`; the comment two lines above
  promises the real error, and the image endpoint does it).
- A marked account is still routed to, for up to ten minutes:
  `removeAccountFromAiCache` edits the clone that node-cache returned
  (`accountRouter.ts:222`, comment at `openai.ts:300`). The estimate that should
  spread concurrent requests is added to such a clone too (`accountRouter.ts:134`).
- In the Worker a busy reply to a chat request does not exclude the account, which
  may be asked again, and for ever (`worker/src/routes/openai.ts:378`; the comment
  at 15 says at most once). A request may be refused for an upstream error without
  having asked anybody, when the snapshot is stale.
- The synchronisation overwrites counts that completions have raised meanwhile
  (`quotaTracker.ts:50`); the mark survives, which is what `MarkSurvives` is about.
- The client of a stream that leaves while the handler waits for `drain` leaves it
  waiting for ever, and the usage is not counted (`openai.ts:447`).

Deployments:
- A deployment that fails before its own Worker is deployed deletes a script of
  that name which the account already had (`services/deploy/index.ts:458`; CHANGELOG
  475 says that only this round's parts are rolled back).
- A failure of the Pages part deletes the namespaces, databases and buckets that
  the Worker just deployed, and kept, is bound to (`index.ts:189`). A database whose
  init script fails is not rolled back (`LeftoversExplained` states this exactly). A
  restart loses the list of what was created (`index.ts:309`).
- The id of an existing namespace or bucket is not looked up; a deployment may
  succeed with one of nothing (`index.ts:112`, 126, 149).
- A Pages archive without files is reported as a success (`pagesDeploy.ts:168`).

Catalogs:
- After a restart the cache is empty, the etag in the row, the answer 304, and the
  page blank, against the comment at `store.ts:151` (`store.ts:177`).
- An edit to another source's address replaces the cached catalog, then throws on
  `UNIQUE(url)`; the row's etag belongs to a different catalog (`store.ts:127`).
- A slow answer may replace a newer catalog, with its etag (`store.ts:191`); a forced
  refresh still sends the old etag (`store.ts:249`).

Browser rendering:
- In the Worker with KV the flag for the day lives in an entry with a TTL of 20 s,
  after which the account is handed out again (`browserRateLimiter.ts:62`, comment
  at 152). Two requests may spend one token, in the gap between reading and writing a
  bucket (135), and with D1 the whole map is written back as it was read (138).
- On the server a status request while an account is inactive drops its bucket,
  exhaustion included (`browserRateLimiter.ts:17`), as a restart does for all.

Accounts:
- In the Worker two edits can leave a token account without its token, since the
  switch of type is decided from a row read earlier (`accounts.ts:160`).
- `account_id` is asked for with the credentials as they were saved, and written
  whatever they are by then; after two edits it may belong to the older ones.
  `POST /accounts` stores the one its client gives, and keeps it when Cloudflare
  cannot be asked (`accounts.ts:97`, 123).
- A failed test of one account is a 500: `POST /:id/test` passes the error of
  Cloudflare to the error handler (`backend/src/routes/accounts.ts:356`,
  `worker/src/routes/accounts.ts:334`). In a batch of tests it is a result.
- Concurrent imports of one credential create two accounts: no constraint forbids
  it. `POST /:id/test` alone has no guard for the demo's accounts.

Redeployment:
- A version that could not be deployed is answered as success: the error is thrown
  inside the `try` whose `catch` logs it (`workerService.ts:432`; the comment at 428
  says that it must fail the request).
- A binding that keeps its name and changes its resource is not noticed by the
  diff: success, and nothing applied. A form with any plain variable always
  uploads again, against the comment that says secrets alone do not.
- A read that fails leaves the rows of the previous row in the dialog; a chosen file
  and earlier results survive too (`DeployDialog.vue:243`). A secret typed and then
  erased is uploaded empty. Rows removed from a Pages form stay, since a patch
  merges. Bindings the form has no row for are dropped by an upload.
- An unedited form is not what was read, in two ways that `RoundTrip` names. A binding
  of Workers AI is shown as a switch and sent back under the name `AI`: under another
  name it is dropped, and `AI` is bound (`DeployDialog.vue:140`, 162). And the form of
  a Pages project is read from production but written to previews too, whose own
  values it replaces (`bindings.ts:106`).
- Where the reply to an upload names no version, the first of the list is deployed,
  which another request may have uploaded (`assetsDeploy.ts:251`,
  `workerService.ts:407`). The Worker takes an error body for the script's code.
- The drawer reads the configuration of one Worker and sends it to the one it is open
  on when the answer arrives (`WorkerSettingsDrawer.vue:544`, 551).
- The reread after a deployment is for the log only, and can fail the request. A
  failed synchronisation reports zero though some secrets were stored; a retry uses
  the name in the form at that time and forgets a code URL (`DeployDialog.vue:211`);
  the server ignores a code URL on redeployment, which the Worker fetches.

Console:
- The tab of cache and status saves the settings of the previous domain
  (`DnsView.vue:553`, hint at 319). Settings that could not be read show, and save,
  defaults.
- A late list answer fills the page with another account's containers
  (`StorageView.vue:482`, comment at 376); late credentials are shown for the row
  that is open by then (`AccountsView.vue:450`).
- A tab opened before the accounts arrive is never loaded; leaving the R2 tab loads
  the namespaces twice (`StorageView.vue:1044`).
- "create" reopens the KV editor with the key and value viewed or saved last, of
  whatever namespace and account, and "save" writes them to the namespace selected
  now (`StorageView.vue:46`, 513, 525). The tables of the previous database can be
  clicked until the answer (636). A change of a table opens its dialog again when
  it is answered, even if it was closed and another database selected since, and
  the next change goes to that one (699); deleting a database under the dialog does
  the same, as the next database is selected without a click (629).
- An ingress configuration that could not be read shows as the catch-all alone, and
  saving writes that over the tunnel's rules (`TunnelsView.vue:531`); saving drops
  hosts in no zone. Editing a rule drops the clauses no field holds (969). Some save
  buttons lie outside the spinner and send the previous form (218, `DnsView.vue:320`,
  `WorkerPagesSettingsDrawer.vue:539`).
- The proxy dialog of an account is always refused (`AccountsView.vue:632`), as the
  route wants fields it does not send. An answered save closes whichever dialog of
  its kind is open; checked rows survive a change of query.
- In the settings drawer zones are not loaded again for another account
  (`WorkerSettingsDrawer.vue:456`), a handler reads one script's configuration and
  writes to the one open by then, and schedules that could not be read are
  replaced as a whole (597). `api/client.ts` takes a 403 of the demo for an expired
  login.

## 7. What is not modelled

- *Worker builds of the deployments and the catalogs*: near-copies whose store is
  asynchronous; planned, as they are separate state machines.
- *Scheduled tasks; the origin wizard*: planned. In the wizard two answers
  (`ZONE_NOT_FOUND`, `CNAME_CONFLICT`, `tunnels.ts:125`) return from inside the `try`,
  so that the tunnel just created is not rolled back.
- *Routes of Workers, Pages, storage, DNS and rules*, but for the redeployment: each
  forwards a request to Cloudflare and its answer to the client; no state is kept
  between two.
- *Authentication, envelopes, encryption, proxies, price lists, the validation of
  catalogs, model lists*: functions of one request or of data. What they decide
  is an input of the models (a body is valid or not, a model is paid or not).
- *Schema*: its constraints appear as guards (`UNIQUE(url)`, foreign keys with
  cascade, `AUTOINCREMENT`); migrations run before the first request.
- *The Worker's optimistic estimates* (`quotaTracker.ts:147`): they are read, changed
  and written with awaits between, so that requests lose each other's; they only
  order the candidates, and the model leaves the order open.
- *Within the modelled parts*: the late answer of `PagesDrawer` to a deployment's log
  (379), the routes of a Worker (`WorkerSettingsDrawer.vue:681`), batches of more than
  five tasks, several accounts in one redeployment (each target is a request of its
  own).
- *Other pages of the frontend, build and release scripts*: the playgrounds, the
  store, dashboard and settings pages ask and show; for the servers the frontend is
  the client that may ask for anything.

## 8. Plan

Done: both gateways with `Failover`, deployments with `Saga`, catalogs, the
browser limiter, accounts, redeployment, the console; each with its run and
theorems.

To be modelled, in this order:

1. **Wizard**: tunnel, CNAME and ingress with rollback (`tunnels.ts`), as a second
   refinement of `Saga`.
2. **Worker catalogs**: the catalogs of `CatalogStore` in KV with a TTL, as a variant
   of its `cache`, with every statement an await.
3. **TaskScheduler**: jobs against the rows that are enabled.

To be proved: what comes with these, the wizard as a refinement of `Saga` first; in
the modules above every property a prover can reach is a theorem.

## 9. Reading and running

    tlc -config ai_endpoints.cfg MCAiGateway.tla
    tlapm AiGateway_proofs.tla

A run's module and configuration are in `PROJECT.json` under `runs`; so are the
lines of the source that every definition models (`map`), the faulty variant that
breaks each property (`mutants`), the components, the hazards and the theorems.
To read a component, begin with its `Props` module for what is claimed, then the
module for how the code goes about it, then the head of its `_proofs` module for
why the claim holds.
