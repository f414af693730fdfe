# ShareOut: a verification project

ShareOut (`shareout-app/`) publishes interactive pages and gives them data,
realtime documents, agents and schedules. It is one Cloudflare Worker in
TypeScript, with D1 (SQL), KV, R2, an hourly cron and eight classes of Durable
Object. This directory holds TLA+ models of the parts of it whose correctness
depends on order: who runs between two steps of whom, what a crash leaves behind,
what a retry repeats. The modules are checked with TLC on small instances, and
the most important facts are proved with TLAPS for every instance.

## 1. Inventory

| Part | Source (under `shareout-app/`) | State | Operations | What is hard |
|---|---|---|---|---|
| Realtime document | `src/realtime/coordinator.ts` | Durable Object: SQLite snapshot and log, `migrated`, alarm; memory: the Yjs document, pending updates, `nextSeq`, fallback flag; D1 legacy tables | open, lazy import, edit, flush, compact, sync, close, alarm | eviction and hibernation at any point, D1 awaits that let other messages in, a failing transaction in the middle |
| Build jobs | `src/build-jobs/do.ts`, `runners.ts` | Durable Object per user: jobs and event log in SQLite, alarm; memory: running controllers, stream listeners | start, follow, watched, cancel, alarm (sweep, run, finish) | a run races its timeout and its cancellation; an eviction leaves a job "running"; notify exactly when nobody watched |
| Crew agents | `src/crew/*.ts` | D1: agents, runs, queue, triggers, approvals | trigger, claim, run, requeue, reap, approve | concurrent cron ticks and events; limits checked before the insert; a reaper that requeues a run still alive |
| Scheduled jobs | `src/scheduling/` | D1: jobs (`next_run_at`, `retry_count`, status), runs; KV negative cache | hourly tick, claim by compare-and-set, execute, retry, manual run, event fan-out | overlapping ticks; a status write from a row read before the claim; crash between claim and status |
| Metric alerts | `src/metric-alerts/` | D1: rules (`next_run_at`, `last_triggered_at`, `cooldown_seconds`, `enabled`) | evaluate due rules after the jobs of the same invocation, deliver, run by hand, update, switch off | no claim, rows older than the cooldown they decide on, deliveries that go unrecorded, an invocation that ends early |
| Drafts and publishing | `src/editor/`, `editor-client/src/persistence/draft.ts`, `src/publish/`, `src/artifacts/edits.ts`, `versions.ts`, `src/tests/`, `src/serve/deployment-cache.ts` | D1: drafts, versions, assets, production and candidate deployment, test settings and baseline; R2: bodies; KV: the deployment served | save, discard, publish, edit, restore, roll back, gate, delete, restore a page, serve | base conflicts, publish against publish, version numbers, a gate that decides after its tests, a cache filled beside a purge |
| Comments and presence | `src/realtime/comments-coordinator.ts`, `presence-coordinator.ts`, `src/present/` | Durable Object memory and alarm | connect, heartbeat, broadcast, expire | TTL sweep against heartbeats |
| Realtime client | `sdk/src/stores/realtime-doc.ts`, `editor-client/src/sidecars/` | browser memory, socket | connect, sync, edit offline, reconnect | updates lost or repeated across reconnects |
| Data platform | `src/data/` | D1, R2, KV, per-artifact MiniDB objects | tables, blobs, datasets, connections, query cache | cache keyed by versions, storage quotas |
| Tokens and one-time codes | `src/auth*`, `src/api-auth*`, `src/mcp`, view codes | D1, KV | issue, consume, expire | double consumption |
| Email, chat platforms, Slack, Telegram | `src/email`, `src/chat-platforms` | D1 dedupe rows | inbound, outbound | duplicated webhooks |
| Knowledge | `src/knowledge` | Durable Object store, D1 | ingest, consolidate | overlapping consolidations |
| Pages, serve, router, catalogue, superadmin, i18n, design system, docs site | | mostly stateless | render and route | plain request/response, and not a subject for a model checker |

What would make each part correct:

* **Realtime document**: nothing durable is lost and nobody is served less than
  it; sequence numbers never collide; pending edits always have an alarm; a synced
  socket misses nothing; the log stays short.
* **Build jobs**: one build at a time; a job ends once; an unwatched end is told
  and a watched one was seen; no client waits on an ended job; every job ends.
* **Crew**: one executor per run; a second chance only for what did nothing; an
  occurrence is dispatched once; outcomes are final; every run ends, and every
  queued wake leaves the queue; approvals are decided once.
* **Scheduled jobs**: an occurrence runs once; a reschedule during a run sticks;
  retries are bounded; one notification per change from success to failure.
* **Metric alerts**: a cooldown that holds, a due rule is evaluated, a rule whose owner lost
  access goes off.
* **Drafts and publishing**: a publish never silently overwrites a version it was
  not based on; version numbers are unique; what is served is what is live.
* **Comments and presence**: the list of viewers converges to who is there.
* **Realtime client**: after a reconnect both ends hold each other's edits.

## 2. Plan

| Order | Module | Composes with | What it is for | State |
|---|---|---|---|---|
| 1 | `RealtimeCoordinator`, `DurableDocument` | refines the second | the document users type into: the most interleavings, and data | modelled, checked, proved |
| 2 | `BuildJobs`, `OneBuild` | refines the second | three racing endings and a promise to notify | modelled, checked, proved |
| 3 | `CrewRuns`, `RetriedRun` | refines the second | overlapping ticks, the queue, the reaper | modelled, checked, proved |
| 4 | `ScheduledJobs` | | the claim by `next_run_at`, the stale status write, retries, edits and manual runs during a run | modelled, checked, proved |
| 5 | `Publishing` | drafts, API publishes, the block gate, deletion and the serving cache in one module | base conflicts, version numbers, what is held back, what is served | modelled, checked, proved |
| 6 | `MetricAlerts` | extends `ScheduledJobs`: one invocation runs both | due rules without a claim, a cooldown read long before it is used | modelled, checked, proved |
| 7 | `CrewApprovals` | shares the run states of `CrewRuns` | decide, expire, execute once | not written |
| 8 | `RealtimeSync` | clients with `RealtimeCoordinator` | offline edits, reconnects, convergence | not written |

The two modules not written are left out for the reasons of section 9.
Every invariant the runs check is proved; what is left to TLC is liveness and what
section 7 lists at its end.

## 3. The modules and the code

All paths are under `shareout-app/src/`.

### RealtimeCoordinator and DurableDocument (`realtime/coordinator.ts`)

One Durable Object for one document. A Yjs document is the *set of edits* applied
to it, because applying an update is idempotent and commutative; an update is a
non-empty set of edits, and `encodeStateAsUpdate` is the whole set. Storage is
`meta` (the `doc_meta` row), `log` (`doc_updates`), `migrated` and `alarm`; `d1`
holds the central legacy tables. Memory is `doc`, `pending`, `nextSeq`,
`updateCount`, `fallback`, `saveScheduled`, under the names of the class's fields.

The object's own storage closes its input gate, so a handler is one step except
where it awaits D1. The import from D1 is therefore several steps (`FetchFirst`,
`RowMissing` or `RowFound`, `FullPage`, `LastPage`, `ReadFails`), and a batch of
the D1 fallback is sent in one step and answered in another (`Batch`). `saved` is history:
the edits that a committed transaction or an executed batch made durable, answered or not.

| Actions | Code |
|---|---|
| `FetchServed`, `FetchLoads`, `FetchFirst` | `fetch`, `initializeDoc`, `loadLocal` |
| `RowMissing` ... `ReadFails` | `importFromD1` |
| `HandleUpdate`, `HandleUpdateAsleep` | `webSocketMessage` and `handleUpdate`, on a live instance and on one that woke from hibernation |
| `HandleSyncStep1`, `Close` | `webSocketMessage` with SYNC_STEP1, `webSocketClose` |
| `Alarm`, `Batch` | `alarm`, `persistUpdates`, `maybeCompactSnapshot`, and their D1 twins |
| `Crash`, `Hibernate` | the platform |

An update brings at least one edit that the document lacks. One that brings none (a client
that sends the same update again) is left out: in the code it takes a place in the queue and a
row of the log, and changes no document.

`DurableDocument` is the promise: what is stored only grows, what is served
contains it, and a restart serves exactly what is stored. The refinement maps
`content` to the loaded document, or while none is loaded to what a fresh instance
would read (`Recoverable`), and `stored` to `saved`.

### BuildJobs (`build-jobs/do.ts`, the endings of `runners.ts`)

One object for one user. SQLite holds `status`, `key`, `log`; memory holds
`running`, `settled` (the flag of a Running record), `build`, and the streams. Any
number of fetch handlers and one alarm handler interleave at the awaits that are
not the object's storage: the race of the build with its timeout, the LANDING_MS
before the streams close, and the follow-up that notifies.

| Actions | Code |
|---|---|
| `BeginFetch`, `BeginAlarm`, `SweepDone` | `fetch`, `alarm`, both begin with `sweep` |
| `StartSame`, `StartNew`, `OpAttach`, `OpCancel`, `OpOther` | the routes of `fetch` |
| `RunOldest`, `RaceBuild`, `RaceTimeout`, `RaceStopped`, `AlarmTail` | `alarm`, `run` |
| `Finish` (an operator), `Land`, `Tell` | `finish`, `closeStreams`, `buildJobEnded` |
| `Emit`, `Ping` | `record`, `broadcast`, the ping timer |
| `Read`, `Hangup`, `Age`, `Evict` | clients, time and the platform |

A stream is the queue of a `ReadableStream`: `unread` counts its frames, so
`desiredSize` is `1 - unread`. That is what decides who is dropped and who counts
as having seen the end.

`OneBuild` is the promise to the user, with nothing said of handlers, alarms and streams: a
build starts when none is under way, ends once with its record closed, and is told of
at most once, after its end and not when the user cancelled it. The mapping reads its
variables off `status`, `log` and `told`.

### CrewRuns (`crew/triggers.ts`, `queue.ts`, `store.ts`, `limits.ts`, `dispatch.ts`, `run-loop.ts`)

The runs of one owner's crew, with an event trigger and a scheduled trigger. Worker
invocations share D1 only; a step is one D1 statement with the synchronous code
around it. `Wakes` are invocations of `emitCrewEvent`, `Requests` of
`startCrewRunStream` and `runCrewForArtifact`, `Ticks` of `runDueCrewTriggers`.

| Actions | Code |
|---|---|
| `EmitEvent`, `Request`, `Dispatch`, `Check`, `Create`, `CreateThrows` | `emitCrewEvent`, `dispatchCrewRun`, `createRun` |
| `Count`, `Insert` | `enqueueCrewRun` |
| `ToolCall`, `Finish`, `After` | `executeCrewRun`, `finalize` and what follows it |
| `TickStart`, `Trigger`, `Take` | `runDueCrewTriggers`, `runCronTrigger`, `runConditionTrigger`, `claimTrigger` |
| `Drain`, `Slot`, `Pick`, `Claim`, `Begin`, `BeginFails` | `drainQueued`, `drainCrewQueue` |
| `GoesStale`, `WaitsTooLong`, `CoolsDown`, `ComesDue`, `Kill` | time and the platform |

The queue has no list of its own: it is the queued rows in the order of their
`started_at`, which `ahead` holds as a relation. Runs that the reaper requeues together
get one time and have random ids, so their order is any (`Orders`). The two updates of
the reaper are one step: only time separates which rows they touch.

`RetriedRun` is the promise about a run, with nothing said of who executes it, of the
queue or of the clock: a run that dies may be begun once more, while it has called no
tool, and what is over is never taken up again. The mapping reads a run's `phase` off its
row (a row still running that nobody executes any more is `dead`) and the
executions it may still have off the mark that the reaper leaves on a run it requeues
(`termination_reason = 'requeued'`); `begun` and `acted` are the history
variables of the detailed module.

### ScheduledJobs (`scheduling/jobs/execute.ts`, `retry.ts`, `notify.ts`, `cron.ts`, `crud.ts`)

The cron jobs and the invocations of the hourly tick. An invocation holds what it
selected (`snap`), the job it runs and the `next_run_at` it claimed; a step is one D1
statement or batch with the code around it. Time is counted in hours *from now*: an
instant that anybody holds (`next_run_at`, the copies in a tick, the last claim) loses
one when an hour passes, and forgets how far in the past it is beyond `MaxPast`. So
time is unbounded and the state space is not. Delays are rounded up to hours, which
keeps the order of instants that the code compares, because a delay is at least a
minute and a tick's SELECT comes within it.

| Actions | Code |
|---|---|
| `Start` | the SELECT of `runScheduledJobs`, 50 oldest first |
| `Defer`, `Claim` | the throttle on `artifact_test`, the claim-and-advance |
| `Write`, `Notify`, `End` | the action's outcome, the status and the `job_runs` row in one batch, the email |
| `Press`, `ManualDone` | `executeJobNow` |
| `Reschedule`, `Enable`, `DeleteJob` | `updateJob`, `deleteJob` |
| `Hour`, `Cut` | time with the cron trigger, and the platform |

`Notify` has two outcomes: the email goes out, or it does not (`Sent`), because `notifyJobFailed`
catches what `dispatchLifecycleEmail` throws and drops its answer, which may be that emails are
disabled, the owner opted out or is suppressed, or sending failed (`email/gateway.ts`). The tick
goes on alike, and a later failure of the job finds `last_status = 'failed'` and sends nothing.

`told`, `silent`, `claimed` and `crossed` are history: whose email went out, which failures
began in a way that the owner does not hear of, the last due time that was claimed, and
jobs selected by a tick while another still ran them.

### MetricAlerts (`metric-alerts/rules.ts`, `scheduling/handler.ts`)

The alert rules, composed with the jobs: the module extends `ScheduledJobs`, and its
`AlertNext` is the jobs' steps and the rules'. `handleScheduledEvent` awaits the jobs before
the rules, so `BeginAlerts(t)` is a tick's `End(t)` together with the SELECT of
`runDueMetricAlerts`, and a tick that is cut or throws among its jobs leaves the rules
for the next one. `rule` is `metric_alert_rules`; `eval` is what each tick, and a run by hand
(`Hand`), holds: the rows selected, the rule it is at, when that evaluation started. Evaluation
starts with the row selected, which may be an hour old, and reads access and data then.

| Actions | Code |
|---|---|
| `BeginAlerts`, `Take` | `handleScheduledEvent` going on to `runDueMetricAlerts`, its SELECT; `evaluateAndDeliver` up to its decision |
| `Deliver`, `Record` | `destination.deliver`, the UPDATE of `finalize` |
| `Throw`, `Advance`, `EndAlerts` | the caught throw, switching off or rescheduling, the end of the loop |
| `PressRule`, `HandDone` | `runRuleManually` |
| `UpdateRule`, `ChangeAccess` | `updateRule`, `deleteRule`; the owner's role and row scope |
| `AlertHour`, `CutAlerts` | time, and the platform |

`newest` (when the latest evaluation that delivered began) and `doubtful` (rules two evaluations of which
overlapped, or a delivery of which was not recorded) are history.

### Publishing (`editor/`, `publish/`, `artifacts/`, `tests/`, `serve/`)

One artifact. An author is an editor tab or a request that may make one version; a
scene says what each author is and what else may happen. `no` and `whole` are the
versions table and its assets, `live` and `cand` the two deployment rows, `draft` the
user's draft, `tests` the settings with the baseline. Every handler is as many steps as it
has statements, so what it read is in `mem` and may be stale when used.

A page has a routing slug (`page`, a tombstone while it is deleted), its production row has
one too (`live.slug`), and KV has one entry per slug (`cached`, the keys `deploy:<slug>`). Whoever publishes
reads a slug early (`ReadPage`: the page's, or for the editor and a version restore the production
row's if there is one) and purges that key in the end. Restoring a deleted page gives page and row
a slug that is free by then, its old one or another, so an author under way may purge a
key that nobody reads while the key that is read stays stale. Every publish that finds a production
row leaves the row's slug alone.

| Actions | Code |
|---|---|
| `LoadLive`, `LoadDraft`, `SaveDraft`, `Reload`, `KeepMine`, `Discard`, `Publish`, `PublishAnyway` | the editor's load and the client's `saveDraft`, `handleDraftConflict`, `publishNow` |
| `CheckSave`, `UpsertDraft`, `ReadBack` | `saveDraft` |
| `CheckPublish`, `StaleDraft`, `StaleLive`, `Decide`, `Number`, `Commit` | `handlePublish` |
| `ReadHead`, `CheckHead`, `Number`, `Insert`, `StoreAssets`, `Decide`, `Promote` | `editArtifact`, `publishArtifact`, `promoteVersion` |
| `ReadPage` | the read of `artifacts.slug` and `deployments.slug` in `handlePublish`, `publishArtifact`, `handleRestoreVersion` and `rollbackPointer` |
| `Target`, `Insert`; `Rollback`; `ChatPlaces` | `handleRestoreVersion`; `rollbackPointer`; `publishConversation` |
| `Purge`, `RunTests`, `Verdict`, `Guard`, `GatePromotes`, `ClearCandidate` | `invalidateDeploymentCache`, `runPostPublishTests`, `runBlockGate`, `runTests` |
| `LookAtTests`, `LookAtLive`, `ReadTests`, `WriteTests` | `handleConfigureTests`, `upsertTestConfig` |
| `SoftDelete`, `RestoreArtifact` | `softDeleteArtifact`, `handleRestoreArtifact` |
| `Miss`, `Fill`, `Expire` | `handleArtifactRequest`, `cacheDeployment` |

Timestamps are stamps of one clock: two writes in the same millisecond are not
modelled. `passed`, `held`, `revived` and `excused` are history.

## 4. The runs

| Run | What it asks | What it shows |
|---|---|---|
| `rt_local` | storage of one's own, with crashes, hibernation and failing transactions | saved edits survive, readers get all of them, `nextSeq` is free, sockets are current, counts agree, and the object implements `DurableDocument` |
| `rt_fallback` | the D1 fallback, entered by a failing import, with rejected batches | what D1 executed is kept, the object implements `DurableDocument` over D1 too, and a log below the threshold |
| `rt_live` | fairness, with D1 reads, import writes and what follows them failing | pending edits always have an alarm, and reach storage unless the instance is lost |
| `rt_v_asleep` | the first message after hibernation | finding 1 |
| `rt_v_compact` | a compaction in the D1 fallback while edits go on | finding 2 |
| `bj_ends` | one build, two clients, two evictions | who is told, who has seen, who waits; every job ends; and the object implements `OneBuild` |
| `crew_runs` | an event, two overlapping ticks, a condition trigger, two kills | one executor, one second chance, an occurrence once, outcomes final |
| `crew_live` | fairness, with throws and crews that go away | every run ends, every queued wake leaves the queue, and the crew implements `RetriedRun` |
| `crew_v_cap` | a request while another run starts | finding 3 |
| `sched` | three jobs and three rules, two ticks and a run by hand, two selected and one test per tick; repeated and long ticks, cuts, throws, edits, lost access (`MCMetricAlerts`, which contains `ScheduledJobs`) | a due time claimed once, retries bounded, failures told but for the exceptions of section 8, cooldowns kept, lost access switches off, what is due is run in the end |
| `pub` | sixteen pairs of authors, the gate, its settings, deletion and restore under another slug, lost purges, cuts | edits build on the head they read, what is held stays held, what is served is whole, a stale key has a purge on its way or a named cause, the cache settles |
| `pub_v_gate` | two publishes of a gated page | finding 4 |

## 5. Bounds, and why they are enough

* `rt_*`: two clients, so one can edit while the other is served; up to four
  edits and four updates, one of them a merge of two, so that a duplicate delivery and a
  log of several rows occur; thresholds of 2 or 3, so that a flush compacts, and
  compacts in the middle of further edits; a page of one or two rows, so that an
  import has several pages, a full last page and an empty one. `MaxPending` of 1,
  2 or 4 forces flushes early, in the middle, or never.
* `bj_ends`: one fetch handler beside the alarm is enough for every race on one job,
  since a fetch's finish and the alarm's finish are the two that can meet; two
  clients separate who is attached from who has read. `KeepEvents` drops an event
  from the log, `MaxBacklog` drops a client that does not read. `MaxCrashes`
  bounds evictions. That two builds never run together is proved (`CapHolds`).
* `crew_*`: two ticks overlap at every statement; `MaxRuns` = 2 has one run in the
  slot and one waiting, `Cap` = 1 makes the slot contended, `QueueMax` = 1 makes
  the queue full. `MaxOccurrences` bounds how often the trigger comes due and
  `MaxKills` the cut invocations: a run that was killed, requeued and killed again
  needs two. `RunsLeft` keeps an invocation from starting when no run id is left
  for it, so that the bound never stops one halfway.
* `sched`: two ticks overlap; a third would meet the same rows. Three jobs with a
  LIMIT of two leave one out, two test jobs with a throttle of one defer one. Periods
  of one and two hours, attempts of one to three and all three kinds of backoff.
  `MaxStay` = 1 lets a run outlast one occurrence; `MaxPast` = 2 is beyond it. Of the
  rules, three with the same LIMIT are in one scene, to starve one if the order were wrong; what
  endangers a cooldown or lost access concerns one rule, in scenes of one. Cooldowns are one
  and two hours: shorter and longer than the schedule. One cut or throw; a second finds what
  the first left.
* `pub`: two authors, because every hazard listed is between two requests (a third
  version is the first one); one reader, which holds one stale fill; two slugs, so that a restored
  page gets its old one or a new one. Each scene takes
  a pair of kinds and the events that concern it, so that all pairs of ways to publish
  meet. One save per tab and one change of settings are enough to make a draft older
  than what it was built on and to switch the gate on or off in the middle of a publish.
  `MaxCrashes` = 1: a second cut would find what the first left.

The theorems of section 7 hold for every value of these constants.

## 6. Fairness

* The coordinator: a due alarm is delivered (Durable Objects retry alarms), and
  D1 answers, if only with an error. Clients promise nothing.
* `BuildJobs`: a set alarm is delivered and run again after an eviction, a handler
  that waits for a timer or a request goes on. Nothing is assumed of builds: their
  timeout is fair, and clients may stop reading forever.
* `CrewRuns`: the hourly tick fires, a started invocation goes on unless it is
  killed (a bounded number of times), a dead run grows stale and a waiting one
  old, since both are the clock. Model calls promise nothing but their own limit,
  which is what makes `Finish` part of going on.

* `ScheduledJobs`: hours pass, the event of an hour comes, and a started invocation
  goes on (it may be cut a bounded number of times). Users promise nothing. `Hour`
  waits for a tick to be over or for `MaxStay`, as the platform ends it by then.
* `MetricAlerts`: the same; the steps on rules are part of a tick's going on. Nothing is
  assumed of a delivery or of the value of a metric, which may never match.
* `Publishing`: a started request goes on unless it is cut, a fill is written, and a
  cached entry expires (`CACHE_TTL`). Nothing is assumed of the person at a tab.

## 7. What is proved

TLAPS checks these for every number of clients, handlers, runs and every
threshold; section 5 says what TLC checks first.

`RealtimeCoordinatorProofs`, in three layers.

* Under every event: `TypeCorrect` and `PendingIsScheduled` (pending updates always have
  an alarm).
* Under `Events \subseteq FallbackEvents`: crashes, hibernation and throwing flushes, an
  import whose local write fails, and D1 batches that are rejected, executed or not.
  Excluded are a D1 read that fails, a failure after the import's commit, and a message
  during the import, each of which breaks the promises (section 8). `StoreInvariant` says
  which of `meta`, `migrated`, `fallback` and the import can be set together (`Phases`),
  and ties the counts and `nextSeq` to the log (`LogInv`); `SeqIsFree`, `CountsStayRight` and,
  without throwing flushes, `TailStaysBounded` follow.
* While in addition `OneBatchAtATime` holds. `SavedIsKept` says nothing of memory, and a
  flush writes memory to storage, so it is not inductive. `DurabilityInv` adds what memory and
  the batches under way owe to storage: until the import commits what is saved is in D1, and
  afterwards in the object (`Exact`); during it the rows read so far are D1's up to the
  last seq (`Importing`); a loaded document has all that is saved and pending (`Loaded`);
  a batch under way carries rows whose seqs are new to D1, or a snapshot of all that it makes
  D1 forget (`Sent`). `HistoryIsKept`, `ServingIsComplete`, `SocketsAreCurrent` and `Refinement`
  (the steps map to `Grow`, `Restart` or a stutter) follow.

`OneBatchAtATime` is a hypothesis on the behaviour, because the code does not see to it:
a forced flush beside a compaction is finding 2, and a batch that outlives its
instance is in the table of section 8. `BatchesAreAlone` proves it in two cases: in
an object that keeps to its own storage (`OrdinaryEvents`, under which there is no batch),
and in the fallback without evictions and with a queue that could hold every edit there will
be, so that no flush is forced (`NothingForced`, the case of `rt_fallback`; a queue's length
is at most the size of the document, because a client sends only what the document lacks).
`PromisesAreKept` puts the two together: there the promises hold of `Spec` alone.

`BuildJobsProofs`, with no assumption on events unless said. `TypeCorrect` carries with it that a
handler in the middle of ending or running a job has one. `CapHolds` rests on: at
most one job is active, and only a start that saw none makes another. `EndsInvariant`
ties a build that was not told to stop to an active job of this instance, and a
handler in the middle of an end to a job that is over; `OrphansStop` follows.
`JobsEndOnce` is the action property: an ended job keeps its status until it is pruned,
and nothing is recorded of it. `OnceInv` adds that one handler at most is in the
middle of a job's end, in the way its row says, and that nobody was told before; with it
`Refinement` proves `OneBuild`: `StartNew` maps to `Start`, `RunOldest` to `Begin`, an event of a
build to `Record`, whichever `Finish` comes first to `End`, the follow-up to `Tell`, an eviction to a stutter.
An eviction or a follow-up that fails can lose a notification and never repeats one.
`NobodyWaits` adds that a stream which read to the end has seen
it. Two theorems have an assumption, which `bj_ends` shares: unless a build throws
instead of reporting its end, `WatchersSawTheEnd` (`WatchInv`: a job whose build said its end has it in its log, where who
attaches late finds it, and whoever is attached while it lands was sent it); and unless
the follow-up fails either, `UnwatchedAreTold`.

`CrewRunsProofs`. Three theorems hold under every event. `TypeCorrect`: the queue stays a
total order of the queued rows through claims, sweeps and new rows, and its type needs that an
invocation busy with a run holds one (`Types`). `OccurrencesOnce`: `next_run_at` only grows,
and a claim compares it. `SecondChanceIsLast`: `ChancesInv` counts with the executions a run had those that
are about to begin, and bounds them by the row (none before it is inserted, one less than its
chances while it is queued, its chances while it runs). It does not need the executor to be alone, so
that a slow run is executed twice and never a third time.
The others assume that no run outlives the staleness limit
(`"slow" \notin Events`), which is what the reaper's comment assumes. `RunsInv` says
that who executes a run is alone, that the run is running and not stale, that its
tool calls are the executor's, that what waits has called none, and that executions
begun are at most one, or two for a requeued run. `ExecutorIsAlone`
and `ToolsAreNotRepeated` follow. `OutcomesAreFinal` assumes in addition that nothing
throws after `finalize`, because the code does overwrite the outcome then.

`CrewRunsRefinement` proves with `RunsInv`, action by action, that the crew implements
`RetriedRun`, throws after `finalize` included: `Insert` and `Create` map to `Wait` and `Start`, `Claim` and
`Begin` to themselves, the first tool call to `Act`, `Kill` to `Die`, and the reaper and the
expiry of old wakes to one `Sweep`. That no run is slow is needed: a run
that is reaped while it works goes back to waiting, which `RetriedRun` does not allow.

`ScheduledJobsProofs`, under every event. With the types `FailingIsTold` is inductive: who
writes the status decides on the email in the same batch, and whoever is to send one either sends it or
has the job named `silent`. For the other two, `WasDue` says
that what a tick still has to look at was due when it was selected, and that the time
it will write was not; `JobInv` says of a job that no tick selected during a run of it that one
tick at most runs it, that its row's `next_run_at` is as each holder selected it or has moved on,
and that the claimed time lies before what any later claim can compare with. `ClaimsGoOn` and
`RetriesStayBounded` follow. The assumption on the constants is `createJob`'s clamping of
attempts and delays.

`MetricAlertsProofs`, under every event. `JobsAreUndisturbed`: every step is one of
`ScheduledJobs` or leaves its variables alone, so the jobs' theorems hold beside the rules
(`JobsKeepTheirPromises`). `AlertTypes` needs `Apart`, that an invocation is either in its jobs
or in its rules. `CooldownHolds` rests on `KnownInv`, of a rule not in doubt: one evaluator
holds it at most; the row tells of the latest delivery, or an evaluator is about to record it;
a row selected earlier, until its turn comes, tells of it too; a delivery is no older than
the one before. A rule leaves doubt when a lone evaluation records the latest delivery, which is why
an overlap does not excuse everything after it.

`PublishingProofs`, under every scene. `CacheStaysCurrent` is a case analysis, key by key, over
who may write the production row and the entries: a writer of the row either is about to purge the
very key that the row has, or the key becomes excused; it needs that whoever purges holds the slug
it wrote with, that the restore purges the page's slug (which nobody else
changes meanwhile), and that until a deletion drops the production
row it has the first slug, which is the one the deletion purges (`FirstRow`). `ServedStaysWhole` strengthens to: a version in the hands of an author that will
put it live has its files, and a production row, cached entry or reader names a whole or
a revived version. `HeldBackUntilPassed` strengthens to `GateInv`: a held
version's author is past its insert, an author past the gate's verdict has passed, and who
is served has passed, was revived or was published without being held.
`EditsStayOnTheHead` rests on `HeadInv`: version numbers differ, and the number an edit
inserts is the one after its base, which is why `UNIQUE(artifact_id, version_no)` is enough.
`CheckedStaysCurrent` rests on `BaseInv`: with one tab the draft and the tab agree on the
version they build on and on the base that is checked, an effective base is no older than
what was loaded, and whatever goes live after the check has a later stamp.

The types of `BuildJobs`, `Publishing` and of `ScheduledJobs` by itself (`TypeCorrect`) are proved,
and checked in no run of their own.

Only model-checked: liveness (`EditsReachStorage`, and what the other runs say must happen
in the end). Liveness under fairness and `ENABLED` are out of the prover's reach.

## 8. Findings

Four runs end in a violation of what the code's own comments say:

1. `rt_v_asleep`: an update received by an instance that woke from hibernation is
   neither persisted nor fanned out, and its client is not told: `webSocketMessage`
   does not initialise the document.
2. `rt_v_compact`: in the D1 fallback a compaction deletes rows its snapshot does
   not hold, because edits went on while it awaited D1.
3. `crew_v_cap`: the concurrency check and the insert are two statements, so two
   invocations pass the check together.
4. `pub_v_gate`: the gate compares the candidate and then writes production in a second
   statement, so an older version can overwrite a newer one that passed in between
   (`block-gate.ts:48-50` says it cannot).

More disagreements between the code and its comments, each visible by changing the
constants of a run:

| Module | With | What fails |
|---|---|---|
| `RealtimeCoordinator` | `Events = {"d1Read"}` | `ServedIsComplete`: a failed import leaves an empty document that later opens are served |
| `RealtimeCoordinator` | `Events = {"overlap"}` | `SavedSurvivesImport`: a flush during the import takes seq 1 and the import falls back |
| `RealtimeCoordinator` | `Events = {"importWrite", "crash"}` | `SavedIsKept`: a batch of an evicted instance reaches D1 after the next instance has imported the document, and nobody reads it there |
| `RealtimeCoordinator` | `Events = {"afterImport"}` | `SavedIsKept`: the local row shadows what the fallback writes to D1 |
| `BuildJobs` | `Events = {"throws"}` | `WatchedSawTheEnd`: a build that throws sends no closing event (`do.ts:212`), and an idle client counts as having seen the end (`do.ts:294-295`) |
| `BuildJobs` | `MaxCrashes = 1` | `UnwatchedIsTold`: an eviction between the status write and the follow-up loses the notification |
| `CrewRuns` | `Events = {"slow"}` | `OneExecutor`, `NothingRepeats`, `OutcomeIsFinal`, `ImplementsRetriedRun`; not `OneSecondChance` |
| `CrewRuns` | `Events = {"throws"}` | `OutcomeIsFinal`: a throw after `finalize` turns a finished run into an error |
| `Publishing` | `Scenes <- MCTabScenes`, `Authors <- MCAuthors` | `DraftSaysWhatItBuildsOn`: with two tabs the draft keeps one's base and the other's content (`draft.ts:233-236`) |

Exceptions that a property names because the code has them:

* `CooldownIsKept`: a run by hand beside a tick, or ticks that overlap, each see the cooldown over
  (`rules.ts:481-487`); a delivery that fails after everything was sent is not recorded (`rules.ts:496-518`).
* `FailingIsTold`: the email on a change from success to failure (`notify.ts:2-4`: a job "doesn't
  fail silently on every tick after") is decided on the status that the tick selected, so a manual run
  that fails first, or succeeds during the run, swallows it; a tick that is cut loses it; and if it is
  skipped or fails (`notify.ts:17`, `gateway.ts:85-158`) nobody looks, and no later failure
  sends it again (`execute.ts:123`). Jobs triggered by events never send it.
* `ClaimsGoForward`: a run that outlasts its job's next occurrence lets its final write
  put an old due time back, which a tick that selected it claims a second time (`execute.ts:46-48`
  says it cannot). A reschedule during a run is overwritten by the same write.
* `CheckedIsCurrent` speaks of the moment of the check: `handlePublish` checks the base many
  awaits before its batch (`draft.ts:322-328` and 390), and a publish in between is overwritten.
* `ServedIsWhole`, `HeldUntilPassed`: a rollback, and the restore of a deleted page
  (`crud.ts:733`), put live whatever version they find, one without files or held back included.
* `CacheIsCurrent`: a fill that read before a publish (`deployment-cache.ts:87-89` says a longer
  TTL does not widen the window), a delete that fails twice, a cut before the purge, a purge of
  another slug than the production row's (an author read the page's before it was deleted,
  or restored under a new one: `versions.ts:235-278`, `deployment.ts:85-93`, `crud.ts:746-762`), and the admin chat, which moves the
  production row with no purge, gate or tests (`admin-chat.ts:538-541`).

Read from the code, and allowed by the model, with no property of their own: a claimed
occurrence whose owner is busy by the time of the second capacity check is gone, against
`triggers.ts:210-213`; `queue.ts:12-13` says a queue is drained as soon as a run
finishes, where only the tick drains it; a job deleted during its run ends the tick with a
throw, which skips the rest of `handleScheduledEvent` (`handler.ts:273`); the gate clears a candidate
that is no longer its own (`block-gate.ts:78-80`), and promotes a page that was deleted while its
tests ran (`block-gate.ts:69`); `promoteVersion` of an older number may come after that of a newer one;
`upsertTestConfig` can undo a baseline recorded between its read and its write.

## 9. What is not modelled, and why

* Awareness messages and the JSON messages that the coordinator relays: no state.
* `BuildJobs`: the rate limit on requests and the content of events.
* `CrewRuns`: the conversation with the model, budgets and tools (an outcome and
  whether a tool was called); several crews and owners, which share nothing that the
  properties speak of but the owner's slots.
* `ScheduledJobs`: jobs triggered by events with their negative cache, what an action does,
  `last_error` and the run log.
* `Publishing`: the first publish of an artifact and its slugs, approvals before publishing,
  moderation, media, permissions, the editor's own rollback (`editor/index.ts:324-331`),
  scheduled test runs. Of KV only the keys `deploy:<slug>`: those of the routes are purged by the
  artifact's id. Another page that claims a freed slug; a second deletion; a cut of the
  owner's deletion or restore.
* Except in `ScheduledJobs` and `MetricAlerts` the clock is not a number of hours: a deadline is an action that
  may happen once its precondition holds.
* `MetricAlerts`: creating rules and the limits on their number, the definitions of metrics, their values
  and the earlier value a change in percent is told from, the history of evaluations, cooldowns that
  are not whole hours, the crew run that an alert can start.
* Approvals of crew tools, presence, and the realtime client across
  reconnects (section 2) can be modelled and are not.
* The parts of section 1 that are not in the table of section 2: plain requests over
  rows, I/O with other services, rendering. They are most of the source by volume (bundles, pages,
  copy, design system), and have no state that outlives a request.
