# flag-it: TLA+ specifications

This directory holds the formal model of flag-it: TLA+ modules translated from
the Go and TypeScript sources, TLC configurations that check them on small
instances, and TLAPS proofs of the most important results for instances of
every size. `PROJECT.json` is the machine-readable index: components, runs, the
definition-to-source map, findings, hazards and theorems.

    tlc -workers 2 -config FlagCache.cfg MCFlagCache     # one run
    tlapm FlagCacheProofs.tla                            # one proof module

## 1. The system

flag-it is a feature-flag service. Several replicas of one Go process
(`cmd/server`) serve a management API, an evaluation API and a server-sent
event stream from one Postgres database and one Redis. Postgres is the truth;
every replica evaluates from an in-memory cache. Programs use the service
through SDKs, people through a React dashboard.

| Component | State it keeps | Operations | Interacts with |
|---|---|---|---|
| Flag cache (`internal/flags/service.go`) | `cache` per environment (flags and segments) under `mu`; `subs` under `submu` | SaveFlag, SaveFlagConfig, PatchFlagConfig, DeleteFlag, SaveSegment, DeleteSegment; warm, reloadEnv, onEvent; Evaluate* | Postgres, Redis bus, streams |
| Bus (`internal/pubsub`) | none (Redis pub/sub, at most once) | Publish, Subscribe | the caches of the siblings |
| Stream endpoint (`internal/server/stream.go`) | a one-slot channel per connection | subscribe, evaluate, write, select | cache, HTTP transport |
| Governance (`internal/governance`) | rows `change_requests`, `scheduled_changes`, `flag_triggers` | create, approve, reject; schedule, cancel, tick; create/enable/disable/reset/delete/fire | PatchFlagConfig |
| Instructions, validation (`internal/flags`) | none | ApplyInstructions, validateConfig, validateFlag | PatchFlagConfig |
| Evaluation (`targeting_eval.go`, `segments.go`, `operators.go`) | none | Evaluate, matchRule, bucket | cache |
| Webhooks (`internal/webhooks`) | rows `webhooks`, `webhook_deliveries` | Create, SetEnabled, Delete, Test, Enqueue, deliverDue, attemptDelivery | audit, remote receivers |
| Audit (`internal/audit`) | rows `audit_log` | Record, emit | every handler, webhooks |
| Recorders (`internal/analytics`, `internal/contexts`) | an in-memory buffer each | Record, flush, fold back | evaluation API, Postgres |
| Catalog and SDK keys (`internal/catalog`) | TTL cache of key look-ups | CreateSdkKey, RevokeSdkKey, ActiveSdkKey | every evaluation request |
| Auth, authz (`internal/auth`, `internal/authz`, `internal/models/authz.go`) | users, roles, assignments | Login, Bootstrap, Can, ReadableProjects | every handler |
| JavaScript SDK (`sdk/javascript`) | snapshot and its context, waiters, usage counts, one stream, a timer | identify, waitForInitialization, variations, flush, close | stream and events endpoints |
| Other SDKs (`sdk/go`, `sdk/python`, `pkg/ffclient`) | the same, with goroutines or threads | the same | the same |
| Server process (`cmd/server/main.go`) | goroutines | start order, shutdown | all of the above |
| Dashboard session (`web/src/app`, `features/auth`, `features/setup`, `lib/auth-token.ts`) | token in memory and in localStorage, the route, the entries `me` and `setupStatus` | boot, guards, sign-in, set-up, sign-out | auth endpoints, the query cache |
| Dashboard forms (`web/src/features/*/components`, `lib/variations.ts`, `lib/clauses.ts`, `lib/utils.ts`) | a draft per form, `open`, the page's mutation | type, close, reopen, submit | the page's mutation hook, the cached copy of what is edited |
| Dashboard pages, hooks, query cache (`web/src/features/*/*Page.tsx`, `hooks`, `lib/query-keys.ts`, `api`) | cache entries by key, pending mutations, per-page state | mount, fetch, invalidate, setQueryData, mutate, navigate | the API |
| Mock backend (`web/src/mocks/handlers.ts`) | tables in memory | one handler per endpoint | what the dashboard is developed and tested against |
| Mock service worker (`web/public/mockServiceWorker.js`, `web/src/app/main.tsx`, `web/vite/runtime-config.ts`) | `activeClientIds` in the worker's memory; registration and controller in the browser | install, activate, the message and fetch handlers, self-unregistration | every page of the origin, the browser, the handlers |

What is hard in it:

* **Concurrency without transactions.** A reload reads Postgres in two queries
  and installs under a lock taken afterwards; a config edit reads, edits and
  writes in separate statements; governance checks a status, applies, and marks
  in separate statements; a deliverer writes results from rows as it listed
  them. Handlers, the event loop, the scheduler, the deliverer and the
  recorders of every replica run at once.
* **Callbacks.** In the SDK and the dashboard every `await` is a place where
  another call, an older answer or a sign-out can come between.
* **Delivery.** Redis pub/sub loses messages; a failed publish is only logged;
  a stream's signal channel drops what does not fit; clients come and go; a
  webhook receiver may handle a request whose answer comes too late.
* **Failure.** Any statement or request can fail, any replica can stop between
  two of them, and writes span several statements.
* **Start-up.** The HTTP server, the warm-up and the subscription start in an
  order that leaves gaps; the dashboard renders before it knows who is there.

What makes the parts correct:

* cache: a replica serves nothing Postgres has not committed, and every change
  reaches every replica, or a known cause explains why not;
* stream: no wake-up is lost, snapshots arrive in order, a connected client
  ends up current, a dead connection's handler returns;
* governance: the rows tell the truth about the config, no edit is lost, a
  cancelled change is not applied, every due change is resolved once;
* webhooks: the log claims nothing that did not happen, every request is
  accounted for, results are final, everything drains;
* SDK: one stream at a time and none after `close`, values of the current
  context, nobody waits for ever, no count lost silently or doubled;
* session: no data of another session, the right user, no endless spinner;
* forms: only valid requests leave them, a dialog opens blank, an editor shows
  what it edits and saves nothing the user did not change;
* pages: the user's own writes reach every view, no view is handed another
  query's data, secrets stay out of the cache, no button stays disabled;
* mock worker: the banner tells mocked data from live, a page keeps its worker,
  nobody waits for an answer that will not come.

## 2. Modules

| Module | Models | Checked by | Proved in |
|---|---|---|---|
| `FlagCache` | flag cache, write paths, bus, start-up and crashes | `MCFlagCache` | `FlagCacheProofs` |
| `FlagStream` | the stream endpoint of one replica | `MCFlagStream` with two configurations | `FlagStreamProofs` |
| `PushedView` | abstract: what a stream promises its client | as the property `ViewSpec` of `FlagStream` | refinement, in `FlagStreamProofs` |
| `Governance` | approvals, scheduled changes, triggers and PATCH edits of one flag config | `MCGovernance` with three configurations | `GovernanceProofs` |
| `Webhooks` | webhooks, fan-out, deliverers of several replicas | `MCWebhooks` | `WebhooksProofs` |
| `CachedClient` | the cached client of the JavaScript SDK | `MCCachedClient` | `CachedClientProofs` |
| `DashboardSession` | boot, guards, sign-in, set-up and sign-out | `MCDashboardSession` | `DashboardBootProofs` |
| `TargetingForms` → `DashboardForms` | editors of clauses, rules, rollouts and key lists; every form and the protocol around it | `MCDashboardForms` | `DashboardFormsProofs` |
| `MockBackend` → `DashboardHooks` → `DashboardPages` → `Dashboard` | the handlers; keys, endpoints and hooks; pages and router; the query cache and the user at work | `MCDashboard` | `DashboardProofs` |
| `MockWorker` | the mock service worker, the pages and frames that use it, and the browser between them | `MCMockWorker` | `DashboardBootProofs` |

An arrow reads "extended by". A *wrong variant* in a module
(`OnEventInverted`, `ApproveAny`, ...) is a plausible mistake in the definition
next to it. It is not part of any specification; `PROJECT.json` pairs it with
the property that it breaks, which shows that the property says something about
the code.

Most modules have *history variables*. They record why a promise may be broken
(two workers held the same row, an answer came after its session, ...), no
guard reads them, and a property then says that nothing else breaks it: the
list of causes is complete.

### FlagCache

*State.* `db[e]` is the version of environment `e` in Postgres, as the pair of
what the two queries of a reload return (`flags`, `segs`); every committed
change increments one of them. `cache[r][e]` is a replica's entry, `inbox[r]`
the events its subscription has received, `phase[r]` where its start-up is.
A *task* is a goroutine that can reload: a request handler (`Requests`) or a
replica's event loop (named by the replica itself); `pc`, `at`, `env`, `got`,
`todo`, `ensure` are its program counter, replica, current environment, the
snapshot it has read so far, the environments it still has to propagate, and
those it still has to backfill.

*Actions.* `SaveFlagConfig`, `SaveFlag` (of a flag that has its config row in
the environments `S`: all, none for a new one, or some), `DeleteFlag` and
`DeleteFlagRow`, `SaveSegment` (also DeleteSegment), `CreateEnvironment`,
`DeleteProject` commit; `ListEnvironments`, `EnsureFlagConfig` and `EnsureDone`
are the intermediate statements of a write. Postgres may also commit a statement
whose answer never arrives: `SaveFlagConfigUnanswered`, `SaveFlagUnanswered`,
`SaveSegmentUnanswered`, `EnsureUnanswered` and a branch of `DeleteFails`, after
which the code returns before it propagates. `EnsureFails` may follow the save
of an existing flag as well as of a new one. `NextEnv`, `ReadFlags`, `ReadSegs`,
`Install`, `Publish`, `Return` are `propagate`/`reloadEnv`; `OnEvent` is the
event loop, with its filter on the replica's own events; `Boot`, `WarmFlags`,
`WarmSegs`, `WarmInstall`, `Subscribe` are `Start`; every query has its failing
twin; `LoseEvent` and `Crash` are the environment's doing.

*History.* `cause[r][e]` records why replica `r` may be left behind on `e`:
`lost`, `failed`, `overlap` (an older snapshot installed over a newer one),
`boot`, `crash`, `unlisted`, `unannounced`, `unanswered` (committed, the answer
lost); `failed` covers a statement after the commit as well as a query of a
reload. Installing the current version clears it.

*Properties.* `StaleHasCause`: a running replica whose entry differs from
Postgres is owed an update or has a cause; `Settles`: under fairness each
replica ends current or with a cause.

### FlagStream and PushedView

*State.* A snapshot is the number of the install that produced it. For each
connection: where its handler is (`pc`), its one-slot channel (`signal`), the
snapshot in its hands (`held`), what its client received last (`got`), and
whether the transport is dead (`gone`). `notifying[t]` is an environment that
reloader `t` has installed and not yet announced: the two are different locks.

*Actions.* `Install`/`Notify` are the halves of `reloadEnv`; `Warm` replaces
the cache and notifies nobody; `Connect`, `Evaluate`, `Push`, `Wake`, `Leave`
are `handleEvalStream`; `Drop` ends a transport at any time, which includes the
server's own read and write timeouts.

*Refinement.* `PushedView` has no channels, locks or program counters: a viewer
is open or not, is shown some version, and an open viewer that is not shown the
latest version is due another one. `ViewSpec` is the instance under the mapping
at the end of `FlagStream`.

### Governance

*State.* One flag's config in one environment, abstracted to the edits it
descends from (`config[c]` counts change `c`); the row of each change
(`status`), `due`, `runs` (the trigger's counter); per worker (request
goroutine or scheduler) the step it is at, the change it has in hand, the
config it has read, and the changes it has listed. `applied`, `excuse`,
`unread`, `overwritten` and `early` are history.

*Actions.* `Approve`, `Reject`, `Fire`, `Patch`, `Put` and the scheduler's
`ListDue` and `TakeDue` take a change up and read its status; `Read` and `Save`
are `applyInstructions`, `PatchFlagConfig` and, for a PUT, `SaveFlagConfig`: the
same statements, with a config of its own in place of the edited copy; `MarkApproved` and `MarkRejected`
are the unguarded UPDATE of `change_requests`, `MarkScheduled` the guarded ones
of `scheduled_changes`, `RecordExecution` the trigger's counter. `ApplyFails`,
`SaveUnanswered` (the write took effect and its answer was lost), `MarkFails`,
`Stop` and `DeleteFlag` are the failures.

*Properties.* `StatusHonest` relates row and config: resolved positively
exactly if written once, otherwise not written, unless two workers held the
change at once (`overlap`) or the outcome of a write was lost (`unmarked`).
`EditsKept`: the config contains every edit as often as it was written, but for
those that a PUT replaced or that a worker, having read before the edit was
written (`unread`), wrote over. Edits that merely overlap others, fail, are
retried or go unanswered are kept, and each lost one is charged to the write
that dropped it. `EarlyCancelHolds`, `ScheduledFinal`,
`RunsCounted`, `DueResolved`: see the runs.

### Webhooks

*State.* A delivery is the pair of a webhook and an event; `status`,
`attempts`, `due` are its row. Per event, `todo` holds the webhooks `Enqueue`
has listed and not yet inserted a delivery for. Per deliverer: its step, the
deliveries it has listed (`held`), their attempts as it listed them (`copy`),
and the attempt under way (`cur`, `reply`).

*Actions.* `Create`, `SetEnabled`, `Delete` (the deliveries go with the row),
`Enqueue` and `CreateWebhookDelivery`, `Test`; `DeliverDue` lists a batch,
`GetWebhook`, `Send` and `Record` are `attemptDelivery`, and `BackoffOver` lets
a retry fall due. The failing twins are separate actions; `Answers` is the
receiver: it may accept a request whose answer never arrives in time. `Stop`
and `StartDeliverer` are the replica's.

*History.* `sent`, `accepted`; `shared`: two deliverers held the delivery at
the same time; `lost`: results that were not written; `unfound`: the look-up of
the webhook failed; `dropped`: listed by `Enqueue` and not inserted.

Two observations of the code that the properties carry as exceptions: any
error of the look-up, not just a missing row, fails the delivery for good
(`deliverer.go:60`, while README.md:202 promises retries); and disabling a
webhook does not stop deliveries that are queued already.

### CachedClient

*State.* Per stream (they are numbered, `handle` is the last): its context, its
phase from `connecting` to `ended`, the backoff, the event on the wire, the
chunk that was read, whether `close()` was called. The store is the context and
the server version of its snapshot, or empty. Per call of `identify` and
`waitForInitialization`: where it is, and which requests its flush waits for.
Usage counts per flag and variation: buffered, on their way, taken by the
server, known to be sent, given up.

*Actions.* One action is one stretch of code between two awaits: `ConnectOk`,
`ConnectionFails`, `DelayOver`, `ReadChunk`, `DeliverChunk`, `Aborted` are the
stream loop; `Identify` and `IdentifyResumes` the two halves of `identify`;
`Variation`, `Flush`, `TimerFlush`, `SendOk`, `SendFails`, `Close` the rest.
`Edit` and `ServerPush` are the service.

*History.* `late`: a chunk read before its stream was closed was handed on
afterwards; `revived`: an `identify` continued after `close()`. They are the
exceptions of `ReadsHonest` and `OneStream`. `keyOf` and `place` follow each
evaluation from the buffer to the request that carries it and to its outcome;
`CountsConserved` says that the code's counters are exactly the evaluations in
each place. `ReadsHonest` says of every read, typed or not, that it is what the
service evaluated for the current context at a version it had.

### DashboardSession

*State.* How far boot is, the token in memory and in localStorage, the route,
the entries `setupStatus` and `me`, and of the rest of the query cache the
owners of the data: under whose token an entry was read. Fetches belong to
their entry and end with it; mutations do not.

*Actions.* `LoadConfig`, `StartWorker`, `Reload`; the three guards as `View`
and `Redirect`; `UseSetupStatus`, `Login`, `CompleteSetup`, `Logout`, `UseMe`,
`FetchData`, `Save` with their answers and failures; `SetUpElsewhere`. `UserMenu`
is what the pages' header shows of the session. Its specification is called
`SessionSpec` (`SessionInit`, `SessionNext`, `SessionTypeOK`), because one proof
module extends it together with `MockWorker`.

*History.* `late`: the answer to a mutation was cached after its session;
`overlap`: a sign-in replaced another user's session. `NothingLeaks` and
`MeIsTokens` say that there is no other way.

### TargetingForms and DashboardForms

*State.* One form, its page and its server: `open`, `draft`, the mutation
(`req`, `sent`), what the server holds, the copy on screen, requests whose page
was left. `Form` lists the forms of an instance; the behaviour picks one.

*Actions.* Opening, closing, editing (the drafts one edit away), submitting
under the guard of the button, success and failure, late answers after the page
was left, a refetch, and somebody else's write. Each form is a record of its
edits, its guard and its payload; five protocols surround them (module header).

*Abstractions.* Texts are members of a small set and `Trim`, `Slug`,
`ParseValues`, `DisplayValues`, `Words` are functions that say what the code's
helpers make of them, including the awkward cases: a name of which a slug keeps
nothing, a comma under way, the string "1" that displays like the number, a key
with a space. Percentages and weights are numbers. The name of a segment stands
for the fields its editor sends back as shown (description, included and
excluded contexts); a rollout's `bucketBy` and `contextKind` are left out, so
`SavePreserves` says nothing of them.

*History.* `kept` (the dialog was closed by a success, draft and all), `moved`
(a clause took another's place under the same index key), `touched`, `base`,
`origin`. A flag or segment is created with PUT: under a key that is taken it
replaces what has it, which the model does as well (`Puts`).

*Proof.* `Put` and `With` are the two shapes of an edit, so that a lemma about
each covers every control. The module has no RECURSIVE operator: a rollout's total
and `join(' ')` are folds of the community modules, which the proofs unfold to
the recursive function beneath them.

### MockBackend, DashboardHooks, DashboardPages, Dashboard

`MockBackend` has one operator per handler: a state to an answer and a state.
A hook of `DashboardHooks` is a record: key, request, shape and `enabled` of a
query; request, key to set, prefixes to invalidate and whether the mutation
waits for the refetch. A page of `DashboardPages` is a record of what it
renders: queries, commands, links, and the changes of its own state. `Dashboard`
adds TanStack Query, which is external and modelled by what the hooks rely on.
The lists that pages render (environments, members, roles, variations, audit)
are records of their rows; `ListsTrue`, a part of `OwnWritesSeen`, says that a
view that missed no write shows the backend's rows, one per item.

*State.* The backend, the route and the page's own state, the queries mounted
by the last render, the cache (data, status, `invalid`, and the fetch under
way), the pending mutations with the closures they were sent with and those of
the latest render. A hook observes only the mutation it started last (`live`):
that one gets new closures, disables its controls and calls mutate's own
`onSuccess`; an earlier one, or one whose page was left, ends without them.

*Actions.* `Navigate`, `Choose` (tabs, filters, search boxes, dialogs),
`Debounced`, `Retry`, `Mutate`; `Load` answers all fetches but a late one,
`ServeFetch` and `ReceiveFetch` separate the halves of a late one, `LoseFetch`;
`ServeMutation`, `ReceiveMutation` (setQueryData, then invalidateQueries),
`SettleMutation` (mutate's own onSuccess), `FailMutation`, `LoseMutation`;
`SomebodyElse` writes, `Tick` makes a scheduled change due.

*History.* Every entry and every answer under way remembers the writes it
missed (`missed`, `replyMissed`), and `raced` says that an answer that may be
older was let stand. `OwnWritesSeen` names its exceptions in `Unheard` and
`KnownGaps`: the two switches of a flag do not refresh each other's view, a
context's evaluation is not refreshed by flags that come and go, and the SDK
keys, which the mock serves alike in all environments, are refreshed in one.
The backend is the mock: of what the real API writes besides, the audit list,
webhook deliveries and the evaluation of contexts, `OwnWritesSeen` says nothing.

*Shared keys.* `ShapesMatch` has three exceptions (`SharedKey`), all in
`lib/query-keys.ts`, where a key is a flat array in which a fixed word and a
user's text can take the same place: a list of segments searched for a text and
the segment of that key; the flag `lifecycle` and the lifecycle list of the
project; the config of the flag `env` and the flags searched for in an
environment named `config`. The first is among the visits TLC makes; the other
two came out of the proof, which compares the keys of all queries.

### MockWorker

*State.* A client is one document, numbered as it is loaded; a reload is another
one. Per client: how far its boot is (`page`), what configuration it read
(`mocked`), the worker its requests go through (`controller`) and the one it
talks to (`host`), and where its request is (`ask`, `via`, `main`). Per worker
`activeClientIds`; `handlers` are the message events it is handling, each with
the list that `matchAll()` gave it.

*Actions.* `Bootstrap` is `main.tsx`; `Activate`, `GetClient`, `ListClients`,
`HandleMessage` (`MOCK_ACTIVATE`, `CLIENT_CLOSED`), `Fetch`, the two ways to
resolve the main client, `GetResponse` and `AnswerRequest` are the worker from
await to await; `PostActivate`, `Enabled` and `Unload` are
the msw library in the page; `Open`, `Gone` and `Terminate` (the browser stops an
idle worker, and `activeClientIds` with it) are the browser's. A worker that
unregisters itself keeps the pages it controls; the next page to register makes
a new one, which claims all. Keep-alive and integrity messages and requests that
are only answered from the HTTP cache change nothing and are left out.

*History.* `cause`: the page's worker was stopped, or replaced by one that does
not know it; `behind`: the page opened while a goodbye was handled with a list
of clients made before. The configuration of a page may itself pass through the
worker of another tab, which lets it pass; `main.tsx:17` says it is never
intercepted, and its answer is indeed the network's.

## 3. Runs

| Run | Configuration | Expected | Shows |
|---|---|---|---|
| `cache` | `FlagCache.cfg` | pass | every write kind, two replicas, two environments, two requests, with a failure, a boot and a crash: `StaleHasCause`, `Settles` |
| `stream_safety` | `FlagStreamSafety.cfg` | pass | two streams, two reloaders, a warm-up under way: `NoLostWakeup` |
| `stream_view` | `FlagStreamView.cfg` | pass | warm cache: `ViewSpec`, `StreamsSettle`, `ClientsCurrent` |
| `gov_safety` | `GovernanceSafety.cfg` | pass | a request, a schedule, a trigger and PUTs, two handlers, a scheduler, a fault: `StatusHonest`, `EditsKept`, `EarlyCancelHolds`, `RunsCounted` |
| `gov_due` | `GovernanceDue.cfg` | pass | two schedulers, a PATCH beside them, a backlog above the batch limit, a refused change: `DueResolved`, `ScheduledFinal` |
| `gov_reject` | `GovernanceReject.cfg` | violation | a rejection overlapping an approval ends rejected and applied |
| `webhooks` | `Webhooks.cfg` | pass | two deliverers, one delivery, two faults: `SuccessHonest`, `SendsCounted`, `GivenUpLate`, `ResultFinal`, `Drains` |
| `sdk_cached` | `CachedClient.cfg` | pass | two contexts, two overlapping calls, two streams, failures: `OneStream`, `ReadsHonest`, `CountsConserved`, `WaitersResolve`, `ClosedStreamsEnd` |
| `session` | `DashboardSession.cfg` | pass | two users, a reload, a failing request: `NothingLeaks`, `MeIsTokens`, `ScreenReached` |
| `forms` | `DashboardForms.cfg` | pass | all twenty forms: `InputValid`, `TextIsClause`, `DirtyIsDifferent`, `ReopensBlank`, `SavePreserves` |
| `dashboard` | `Dashboard.cfg` | pass | a user on every page, every control: `OwnWritesSeen`, `ShapesMatch`, `SecretsNotCached`, `WaitsEnd` |
| `mock_worker` | `MockWorker.cfg` | pass | two pages and a document that may be a frame, two workers: `BannerTruthful`, `OrphanHasCause`, `SomebodyAnswers` |

Most type invariants are left to the proofs alone. The violation
is a disagreement between the code and what its comments say; `findings` in
`PROJECT.json` quotes it. Other surprises need no
run of their own, because the passing runs contain them behind a recorded
cause: two overlapping reloads leave a cache stale (`overlap`), a write between
warm-up and subscription is missed (`boot`), a new environment's backfilled
flags are in no cache until a later write (`unannounced`), a client that
connected before `warm()` finished is not pushed the warmed snapshot, two
schedulers both apply one change, of two overlapping edits the first is undone
(although `internal/server/flags.go:315` calls PATCH "concurrency-friendly": the
instructions are, their read-edit-write is not), a write that was answered with
an error is in the database and in no cache (`unanswered`, `failed`),
two deliverers send one delivery twice, a snapshot of the old context is served
after `identify`, a save answered after sign-out refills the cleared cache.

*Bounds.* Every counter that would grow for ever is cut by a named constant.
Two replicas, goroutines, deliverers, calls or users are the least that
overlap; two environments the least for which one can be forgotten; two
installs the least for which a signal can be dropped as redundant; a backlog of
two with batch one the least that needs a second tick. Three attempts make a
first, a middle and a last one. One delivery is enough for `webhooks`: two meet
only in a deliverer's batch, and the proofs cover any number. Two streams are
the least that `identify` can confuse; a version 2 and a flag absent for one
context make snapshots of contexts and versions differ. In `dashboard` a visit
starts on one of the pages with 2 to 4 things the user does, up to two of them
mutations, and at most one trouble (a late or lost request, a write by somebody
else); with three moves a write made on one page is looked for on another, with
four on a third. While fetches are under way the user acts only where one is
left: the others are answered promptly. Three documents are the least with
which one leaves, one stays and one opens while the goodbye is handled; a second
worker is the least that can claim a page.

*Symmetry.* Interchangeable connections, reloaders, handlers and schedulers are
declared symmetric in safety runs only, never in a run with a temporal property.

*Deadlock* is not checked where the bounds let a model come to rest: a server
with no more requests is idle. It is checked in `dashboard`, where `Idle` is
the only rest there is: nothing under way, nothing pending.

*Fairness.* What can run does run: weak fairness on the continuing steps of
handlers, event loops, reloads, start-up and tickers (`cache`, `stream_view`,
`gov_due`, `webhooks`); on the JavaScript event loop, its timers, the delivery
of pushed events and answered requests (`sdk_cached`); on the browser's
rendering, redirects and the answer to the set-up question (`session`). No
fairness on clients, users, writes, failures, crashes or restarts: a stopped
deliverer may stay down, and `Drains` then says nothing of it. The one
strong-fairness assumption is `Leave` in `FlagStream`: Go's `select` chooses at
random between a signal and a finished context, so a handler that is woken
again and again still notices. `dashboard` needs none: that nobody waits for
ever is the invariant `WaitsEnd` (a mutation waits for fetches that are under
way) together with the absence of deadlock.

## 4. Proofs

TLAPS checks these for every value of the constants that satisfies the named
assumptions of the modules (sets are disjoint where the code's identifiers are,
bounds are naturals, what the server evaluates is a variation or absent).

* `FlagCacheProofs`
  * `Typing`: `Spec => []TypeOK`, one lemma per group of variables.
  * `StalenessExplained`: `Spec => []StaleHasCause`. Not inductive by itself.
    The invariant `IInv` adds `NeverAhead` (an installed snapshot that is not
    current is older than Postgres, so some commit came after it was read),
    `LoopsReload` (an event loop stays on its replica and never publishes) and
    `EnsureListed` (what a flag write still has to backfill is among what it
    has listed, so the promise to propagate it survives each insert). The step
    lemmas named `...Told` each show, for one action, that the pair (replica,
    environment) stays told: current, owed, or with one of the eight causes.
    `UnansweredTold` is the one for the commits whose answer is lost.
  * `CacheBehind`: `Spec => []NeverAhead`.
  * `Convergence`: at rest, a subscribed replica without a cause equals
    Postgres; it follows because nothing at rest owes anything.
* `FlagStreamProofs`
  * `Typing`; `WakeupsArrive` and `SnapshotsInOrder`: `NoLostWakeup` and
    `InOrder`. The argument for a wake-up: a snapshot evaluated before an
    install has its notification pending, the notification fills the channel of
    every subscriber, and taking the signal leads to evaluating again; a
    dropped signal means that one is there.
  * `ClientsEndCurrent`: with a warm cache, `ClientsCurrent`; a quiet stream
    waits without a signal, so by `NoLostWakeup` it holds the latest snapshot.
  * `StreamImplementsView`: with a warm cache every step of the stream is a
    step of `PushedView` or leaves its variables alone.
* `GovernanceProofs`
  * `Typing`.
  * `EditLossesExplained`: `EditsKept`, with `CopiesCurrent` (what a worker has
    read agrees with the config it will replace in every change that was not
    written since and is not lost already) and `PutsBlank` (a PUT starts from
    nothing). `WrittenKept` does the one real step: a write puts every change
    that it does not drop back as it was, and its own once more.
  * `EarlyCancelEffective`: `EarlyCancelHolds`, with `HeldDue` (only changes
    whose time has come are listed, taken up or written) and `EarlyFree`
    (nobody holds one that was cancelled before that).
  * `RowsHonest`: `StatusHonest`, with `Accounted` (a change without excuse has
    one holder at most; while it is held it is pending, and it is written once
    the holder is about to mark it), `TakenOnce` (the change in hand is not in
    the list as well) and `StepsFit` (an item is of the kind its step is for).
  * `ResolvedOnce`: the action property `ScheduledFinal`, from `StepsFit`.
  * `FiringsCounted`: `RunsCounted`, with `Counted` (a trigger's counter and the
    workers about to count, a finite set, add up to at most the writes, and to
    all of them while no count was lost). Each step leaves the account alone,
    adds a write with its worker, or takes the worker away with its count.
* `WebhooksProofs`
  * `TypeCorrect`, `SuccessCorrect`, `GivenUpCorrect`, from `IInv`: what a
    deliverer holds and which step it is at fit (`Holding`); the copy of a
    delivery nobody shares equals its row (`Copies`, `Sharing`), so writing the
    result counts every attempt; a pending delivery, and a copy of one, has
    attempts left (`Counting`); a delivery not yet inserted is
    untouched (`Fresh`); and a 2xx in hand means that the receiver accepted
    (`Answered`).
  * `ResultCorrect`: the action property `ResultFinal`: the writer of a result
    holds the delivery, and a delivery held by one deliverer alone is pending.
  * `SendsCorrect`: `SendsCounted`. Each step either leaves the account of a
    delivery alone (`AccountKept`) or moves one attempt from one term to
    another (`AccountMoved`); of an unshared delivery at most one attempt is
    under way (`Alone`).
* `CachedClientProofs`
  * `TypeCorrect`, `OneStreamCorrect`, `StoreCorrect` and `WaitersCorrect` (when
    a snapshot is there nobody waits for one), from `ClientInv`, which adds:
    streams are started in order and only the started ones do anything
    (`Numbered`), the stream in place is the current context's (`HandleOwn`),
    and a snapshot in the store, in a chunk or on the wire is of a version the
    flags had (`Evaluated`).
  * `ReadsCorrect`: `ReadsHonest`, for every default and every typed accessor.
  * `CountsCorrect`: `CountsConserved`. The counter of a place equals the
    cardinality of the evaluations there; a read adds one evaluation to the
    buffer, a flush, an answer or a failure moves a whole set of them.
* `DashboardBootProofs`, what stands around the pages
  * the session: `SessionTypeCorrect`, `NothingLeaksCorrect`, `MeCorrect`, from
    `SessionInv` (`SessionInvCorrect`), which adds that a fetch under way
    carries the present token unless sign-ins overlapped (`FetchesOwn`) and
    that the cached set-up status says "done" only once it is (`StatusOld`);
    `WizardCorrect`: on a fresh install a screen behind the guards means that
    the set-up question failed.
  * the mock worker: `TypeCorrect`, `BannerCorrect`, `OrphanCorrect` and
    `AnswersCorrect`, for any number of documents, frames, workers, messages
    and requests, from `AgreementHolds`: what pages, browser and worker know of
    each other. None of the three properties is inductive: who answers a
    request depends on whom the worker remembers (`Memory`), that on which
    goodbyes are under way and with which lists (`Conversations`), and that on
    who controls whom (`Registration`, `Documents`).
* `DashboardFormsProofs`, for every text and note, whatever `Trim` and `Slug`
  make of them (they are idempotent, and a slug is trimmed: `FormsAssumption`),
  for every parser and display of clause values and any number of variations
  (`TargetingAssumption`), and for everything a server may hold, of the types in
  `web/src/types` (`StoredAssumption`)
  * `TypeCorrect`: `TypeOK`, from `TypeInv`: every draft has its form's fields
    with values of their types (`IsDraft`), and what the server holds, what is
    shown and what is on its way stay of their kinds through every save.
  * `InputCorrect`: `InputValid`. A key is a slug after every edit of the name,
    of the key and after a reset (`KeySlug`), and step 2 of the wizard keeps the
    valid account of step 1 (`AccountKept`); the guard of the button gives the
    rest, but for the weights of a rollout, which add up to 100000 because the
    percentages add up to 100 and the total of a list times 1000 is 1000 times
    its total.
  * `BlankCorrect`: the action property `ReopensBlank`; a closed dialog that was
    not closed by a success is blank already (`ClosedBlank`).
  * `TextsCorrect`: `TextIsClause`, from `TextInv`: the texts kept by a rule's
    key and a clause's index are as many as the clauses, and each parses to, or
    displays, its clause's values, through additions, removals of rules and
    resets; only a clause that moves up under an index key breaks it (`moved`).
    It is stated for rules with distinct keys, because React tells them apart by
    id and nothing in the service makes a segment's ids distinct.
  * `DirtyCorrect`: `DirtyIsDifferent`, from the types and `JoinTells`:
    `join(' ')` is injective on lists whose keys have one word each.
  * `SavesCorrect`: the action property `SavePreserves`. What is shown is the
    server's state of that version (`DataInv`); a draft made from the present
    version differs from it in what was touched only (`WorkInv`); so does the
    request (`RequestInv`). A write of anybody makes a new version, after which
    drafts and requests made before no longer claim anything. `PercentsRound`:
    weights of whole percentages survive the conversion.
  * The sums and joins need induction over numbers. The library's rule takes an
    operator as parameter; `Induct` states it with a *set* of numbers instead
    and is derived from the well-foundedness of `<` on the naturals. With it
    `FoldExists` shows that a fold's defining equation has a solution, and the
    facts about `Total` and `Join` follow.
* `DashboardProofs`, for every visit, every page, every key, text and search and
  every content the mock backend can have (`DashboardAssumption`: a visit begins
  on a page of the router, and keys are not empty)
  * `InvCorrect`: `Spec => []DashboardInv`. Data is followed from the backend
    through a request, its answer, the cache and the page. `DbGood`: no segment
    is without a key (its entry would stand where the list's does), and a
    trigger's or webhook's secret is in the field that lists leave out. `ReqGood`:
    a request made for a key is answered, in any good state of the backend, with
    data of a kind that may stand under that key (`Fits`) and without secrets
    (`Clean`), and leaves the backend good; one lemma per handler and per query.
    `EntryGood`, `MutGood`: an entry's data, its fetch and the answer on its
    way, and what a mutation will put under which key, are good in this sense.
    `ViewGood`: what the page has mounted is cached under a key its kind fits.
  * `ShapesCorrect`: `ShapesMatch`: two kinds fit one key only in the three ways
    of `SharedKey`.
  * `SecretsCorrect`: `SecretsNotCached`, from `Clean`.
  * `WaitsCorrect`: `WaitsEnd`: what a mutation waits for stays among the fetches
    under way (`Flying`) when fetches are restarted, and leaves both together
    when one is received, fails or is lost.
  * `StatesCorrect`: `EntryStates`, the part of `TypeOK` pages rely on without a
    check: success means data, and every entry and mutation is in a phase that
    some action continues.

Only model-checked:

* all liveness (`Settles`, `StreamsSettle`, `DueResolved`, `Drains`,
  `WaitersResolve`, `ClosedStreamsEnd`, `ScreenReached`), which needs fairness
  and is out of the prover's reach;
* the rest of the dashboard's `TypeOK`, the rows of each kind. It is a fact about
  the instance: with a flag named `env` and an environment named `config` the
  collision above puts a config where a list of flags is expected, and a page
  then computes rows from it. A general statement would need the types of the
  rows through every handler, the sorted ones included, under the exception;
* `OwnWritesSeen`. Whether a write is seen depends on which prefixes each of the
  33 mutation hooks invalidates against what each of the 25 queries shows: a
  table of cases that TLC enumerates and a proof would only repeat. `ListsTrue`,
  a part of it, counts rows.

## 5. Not modelled

`PROJECT.json` gives a status and a reason for every component. In short: the
contents of snapshots (evaluation) and the individual instruction kinds, which
are pure functions; authorization and most of the catalog, single statements
and look-ups; replacing a trigger's token or a webhook's secret, since neither
tokens nor signatures are part of the models; the Go and Python SDKs and
`ffclient`, whose client is the one modelled in JavaScript, with goroutines or
threads in place of callbacks; routing, middleware, settings, logging,
migrations, the generated API description, the dashboard's component library
and its stories, which are glue, I/O or presentation.

Hazards of the parts that are left out, at their lines:

* `internal/analytics/recorder.go:114`: a failed flush folds its counts back
  into a buffer that recorded on; `internal/contexts/recorder.go:116`: the same
  fold-back puts older attributes over newer ones.
* `cmd/server/main.go:231`: shutdown waits for the HTTP server and not for the
  recorders' last flush.
* `internal/catalog/catalog.go:153`: a look-up that read before a revocation
  puts the key back after the cache was flushed; siblings wait for the TTL.
* `internal/auth/auth.go:123`: two first-run set-ups both count no superuser
  before either inserts one.
* `sdk/go/cached.go:244` and `:224`, `sdk/python/flagit/cached.py:166`: the races
  of `CachedClient` with true parallelism.
* `internal/flags/targeting_eval.go:170`: the recursion over prerequisites;
  `internal/flags/service.go:307`: SaveFlag may shorten the variations a config
  refers to.
* `web/src/features/setup/hooks/useSetup.ts:18`: the set-up status is cached for
  ever, also when the set-up is finished in another browser.
* `web/src/features/flags/FlagsPage.tsx:52`: the dialog's `onSuccess` navigates
  although the user has moved on; `FlagDetailPage.tsx:69`: a revealed URL stays
  on screen when another environment is picked.

## 6. Plan

Done, models and proofs: `FlagCache`, `FlagStream` with `PushedView`,
`Governance`, `Webhooks`, `CachedClient`, `DashboardSession`, the forms, the
dashboard and the mock worker.
Worth adding, in order:

1. `Recorders`: buffer swap, failing flush, fold-back, shutdown; conservation
   of counts (with proof), latest attributes.
2. `SdkKeyCache`: look-up, put, flush, TTL, several replicas; how long a
   revoked key can live.
3. `Evaluation`: prerequisites with the visited set, targets, rules, segments,
   rollouts, against a reference definition over bounded inputs; `Instructions`:
   each kind as an operator, what it preserves, and that accepted configs
   evaluate.
4. `Accounts`: set-up, superuser rules, role assignments, `Can` and
   `ReadableProjects` agreeing with each other.
5. An abstract specification of the cache (a register per environment that lags
   behind) and `FlagCache` shown to implement it where no cause is recorded.
6. A client over `PushedView`: `CachedClient` with the stream of `FlagStream`
   as its server.
