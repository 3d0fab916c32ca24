# Ampy3 in TLA+

Ampy3 copies playlists from YouTube Music and Deezer to Plex and Jellyfin. A
FastAPI process keeps schedules in PostgreSQL and fires them with APScheduler;
Celery workers fetch the source, match its tracks in the target's library and
write the target's playlist; Valkey is the broker and holds locks, a registry of
tasks and caches. This directory models the parts of that program where the
order of steps matters, checks them with TLC on small instances, and proves the
most important properties for all.

Paths below are relative to `src/src/app/` unless they say otherwise.

## 1. Inventory

| Component | Code | State | Operations | Talks to | Hard because | Module |
|---|---|---|---|---|---|---|
| Dispatch lock | `services/scheduler.py` 32-239, 411-439; `worker/tasks.py`; `worker/app.py` 100-127 | two Valkey keys with TTLs; Celery messages and retries | acquire, refuse, fail open, enqueue; parent fetches and spawns; children finish | APScheduler, sync-now endpoints, broker | two keys, n children in any order, redelivery, TTLs | `SyncDispatch`, `SerialRuns` |
| Pipeline and run rows | `worker/pipeline.py`, `worker/phases.py`, `worker/tasks.py` 38-84, 339-508, `worker/matcher.py` | `sync_runs`, `playlist_tracks`, links, history | fetch, ensure run, match, finalize, publish, fail, retry; match one track | database, targets | rows found by position, retry and redelivery between transactions | `SyncRuns` |
| History, pipeline, track pages | `api/syncs/{history,helpers,tracks}.py`, `api/schedules.py` | reads the above, and the fetch phase in Valkey | list, select, diff | web UI | attempts of one execution, rows left behind | `SyncViews` |
| Playlist publication | `worker/playlist_sync.py`, `core/targets/{plex,jellyfin}/playlist.py` | the target's playlist, `schedule_targets.playlist_id` | create, compare, update, reorder, save id | Plex and Jellyfin over HTTP | request-by-request edits, errors turned into empty answers | `PlaylistUpdate` |
| Schedules and jobs | `api/schedules.py`, `services/scheduler.py` 302-409, `src/src/main.py` 158-162 | schedule rows; APScheduler's job tables | create, update, toggle, delete, reload, start, stop | database | concurrent reloads, failures half way | `ScheduleReload` |
| Sync trigger | `api/syncs/trigger.py` | `execution_id` on rows, ad-hoc rows | look up, store or insert, enqueue, discard | database, broker | check-then-act on a key, clean-up after a failure | `SyncTrigger` |
| Task registry, status | `services/sync_tasks.py`, `api/syncs/status.py` | Valkey sets and mappings | register, unregister, revoke, poll | trigger, workers, deletion | revocation races registration, lost writes, redelivery | `TaskRegistry` |
| Rule graphs | `match_rules/validator.py`, `core/services/matcher.py` 32-230 | local to a call | validate, sort, execute | none | cycle search, reachability, topological order | `RuleGraph` |
| Rule table | `api/match_rules.py`, `match_rules/loader.py`, `core/services/matcher.py` 232-295 | `match_rules` | create, clone, update, reorder, delete, test; seed at start | pipeline | priorities and names chosen from a read, no constraint; upgrades | `RuleStore` |
| Secret key and settings | `api/settings.py`, `services/crypto.py`, `settings.py`, `src/docker/worker-entrypoint.sh` | config rows, key and settings in memory, the worker container | set up, rotate, save, load | all | memory and database switched apart, a message nobody keeps | `SecretKey` |
| Sign-in and sessions | `auth/router.py`, `auth/tokens.py`, `auth/dependencies.py` | owner and session rows, cookies | log in, verify, log out, purge | plex.tv | first logins race, verification before use | `Login` |
| Plex setup | `auth/router.py` 494-623 | address and token of the server | find, try, store | plex.tv, servers | two rows written one after the other | `PlexSetup` |
| Target clients | `services/target.py`, `services/config_fingerprint.py`, `core/targets/{factory,registry}.py` | cached client, fingerprint in Valkey | get, reset, compare | API and workers | reset during a build, processes that learn late | `TargetCache` |
| Music session | `services/ytauth.py`, `core/clients/{ytmusic,base}.py` | cached credentials, SDK object, its lock, feeds in Valkey | load, call, time out, invalidate | settings API | threads nothing stops, cancellation at every await | `MusicSession` |
| Sync statistics | `worker/phases.py` 484-521 | counters of the schedule row | sum the latest runs | database | concurrent finalizers | not modelled |
| WebSockets | `services/websocket_manager.py` | subscription maps | connect, disconnect, broadcast, close | clients | sends outside the lock | not modelled |
| Everything else | see `PROJECT.json` | none, or rows edited in one transaction | | | | not modelled |

What makes each component correct:

- *Dispatch lock*: the runs of a schedule do not overlap; the lock is released
  exactly when the run ends; a failure delays the next run but never stops it;
  no target is skipped silently.
- *Run rows*: a row that says "running" is being worked on; a retry finds a
  row of its execution that can take its snapshot; a track never shows another
  track's match; the playlist is what the history says, and the pages agree.
- *Publication*: whatever earlier attempts left behind, a clean attempt leaves
  exactly the wanted tracks in the wanted order, in the same playlist.
- *Jobs*: every active schedule has a job, with its present configuration.
- *Trigger and registry*: a key stands for one sync; a sync that is not started
  leaves no trace; a deletion finds the tasks at work; a client can poll its task.
- *Rules*: exactly the well-formed graphs are accepted, and an accepted graph is
  executed completely and in dependency order; the defaults are those of the
  release; rules decide in the order the user asked for.
- *Key and settings*: no saved credential becomes unreadable; memory follows the
  database; a waiting worker is started.
- *Sign-in*: one owner; a session lasts until something ends it; address and
  token of the target belong together.
- *Clients and sessions*: nobody goes on with superseded settings; the SDK is
  used by one thread at a time; no lock is lost.

The hazards of the code, each at its line with the properties that cover it, are
in `PROJECT.json`.

Some files of the tree are not used by the program: `api/syncs.py` is shadowed by
the package `api/syncs/`, and `services/{sync_repository,schedule_service,
settings_service,match_rule_service}.py`, `worker/task_helpers.py`,
`auth/plex_api.py` and `auth/plex_config.py` repeat code that lives elsewhere and
are imported by no module of the program. They are not modelled.

## 2. The modules

Every module but `SerialRuns` describes code; the `MC*` modules give TLC its
instances, the `*_proofs` modules hold the theorems. `PROJECT.json` maps each
definition to its lines. Definitions that their comment calls a mutant are not
part of a specification: each is a plausible bug, put in place of the definition
that follows it to show that a property notices.

How they are put together: `SyncDispatch` refines `SerialRuns`; `SyncViews` adds
the pages to the rows of `SyncRuns`; `TaskRegistry` adds tasks, registry, status and
deletion to the handler of `SyncTrigger`; `PlexSetup` adds a request behind the
middleware to the sign-in of `Login`. The others stand alone.

Coroutines (the handlers of the API, `reload_schedules`, the music client) are
modelled alike: `pc` says at which await each stands, an action is what happens
up to the next one.

### SyncDispatch, SerialRuns: the dispatch lock

One schedule. A member of `Runs` is one dispatch and its token (a uuid in the
code, so each is used once). `lock`, `lockLeft`, `counter`, `ctrLeft` are the two
Valkey keys with their remaining TTL in ticks; `phase`, `result`, `retries`,
`body`, `todo` are the parent task; `child` is every child ever enqueued, named
by the execution of the parent that enqueued it and its target.

| Action | Code |
|---|---|
| `AcquireLock`, `Refuse`, `FailOpen`, `StoreCounter` | `_try_acquire_dispatch_lock`: `SET NX EX`, then a separate `SET` of the counter; an error of either is swallowed and a token returned all the same |
| `Enqueue`, `AbortDispatch` | `.delay` of the parent, or its failure, after which nobody gives the lock back |
| `ParentStart` ... `SpawnFails` | the body of `sync_playlists_task`; each action that ends an execution includes the postrun hook's release |
| `ChildStart`, `ChildRetries`, `ChildFinishes` | `sync_target_task` and the hook |
| `ParentAck`, `ChildAck`, `*Crash`, `*Killed` | `task_acks_late`, `task_reject_on_worker_lost`, `task_time_limit` |
| `Tick` | time; a key whose TTL ends disappears |

`Fault` counts what the environment does wrong (Valkey or broker error, lost
worker, hard time limit); `lapsed` remembers the runs whose lock expired. Serial
runs are claimed while neither has happened (`Undisturbed`); that no target is
lost and that everything ends is claimed whatever happens.

`SerialRuns` is the promise: runs start one at a time and end once. `SyncDispatch`
implements it with `active` = the runs some part of which is still live,
read off the tasks and not off the lock.

Abstractions: `self.retry` publishes the new message and acknowledges the old one
in one step; runs started by `POST /syncs` carry no token, so they are not runs
of this module; a schedule has at least one target.

### SyncRuns: run rows, links and history

One (sync, target) pair. `runs` are its `sync_runs` rows in order of creation,
`tracks` its `playlist_tracks` rows by position with the link of this target,
`playlist` what the target holds, `task` the child tasks. One action per
database transaction: `LookForRun` and `EnsureRun` (`_ensure_sync_run`), `Match`,
`Finalize`, then `Publish` outside any transaction; `StepRaises` is the generic
exception handler with its retry, `WorkerLost` the redelivery, `Killed` the hard
time limit and a revocation by a deletion that fails (the message is gone and no
handler ran), `ConnectionFails` the early exit. `Fetch` is the parent's
`FetchPhase` together with the enqueueing of this target's child; it deletes the
links of the targets it is for, so `FetchElsewhere`, a fetch for other targets
only, reuses the rows with this target's links on them (`Overwritten` against
`Refetched`). `RefuseDispatch` is the failed row of a refused dispatch,
`DeleteSync` the cascade.

`Finalize` needs a snapshot that `Fits` the unique constraint of the history
(`uq_sync_run_track_target`); one that does not rolls the transaction back and is
a `StepRaises`. A publication ends in one of four ways: `Publish` leaves what was
wanted, `PublishUnread` could not read the playlist, took it for empty and only
added, `PublishShort` created a playlist and missed some additions,
`PublishSilentlyFails` could not create one. All four count as success in the code.

A match asked for by hand (`match_track_task`) has two halves, `ReadTrack` and
`SaveMatch`, with everything else in between: `manual` is the one under way, and
`crossed` remembers that a fetch came between the halves, `fetched` whose fetch
wrote the tracks last.

What the rules find is chosen anew by every `Match`. `faults`, `refusals` and
`overlaps` count the troubles by kind so that a property can say which of them
it does not survive: rows are completed and failed by position, so an overlapping
run or a refused dispatch gets the status of another. A task that ended with no
record of it is `lost`; a run that nothing of the kind has touched is `Orderly`.

Abstractions: the numbers in the rows and `_update_stats` are left out; an ended
task keeps only how it ended; the `pending` status is in the code's queries but
never written. The order of rows is the order of their creation; a query without
an order may give any row (`CanHit`).

### SyncViews: what the pages show

The module adds no state. The one thing the pages read besides the rows is the
fetch phase the parent records in Valkey; since each write and read of it is best
effort, it is written by fetches for other targets too, and it expires, it is a
parameter, any of `Phases`. Everything else is computed from the rows by
operators, one per endpoint: `PipelineRuns` with
`SelectExecution` and `NewestRun` (`_select_execution`,
`_newest_run_per_target`), `ScheduleShown`, `HistoryPage`, `DiffAdded` and
`DiffRemoved`, `MatchedRows`, `UnmatchedTracks`. `ViewsAgree` relates them to one
another and to the playlist on the target.

### PlaylistUpdate: writing the playlist

One (sync, target) pair on one backend. `remote` are the playlists the server has
ever had for it, `saved` is `schedule_targets.playlist_id`, `job` the attempt under
way. A plan is a list of batches (the adapter's calls), a batch a list of requests:
one per item on Plex, one for all on Jellyfin. `SendRequest` carries out the next
request, refuses it, or carries it out and loses the answer; `EndBatch` is the check
"only removed / added n of m". `NeedsReorder` is the greedy walk of
`_playlist_needs_reorder` stated as "is a subsequence", plus the comparison of first
positions. `Inside` and `Outside` are the list comprehensions that split the present
items into those to keep and those to remove; a playlist that was deleted is `Gone`,
which is no list of items (`ItemsAssumption`). `Served`, `RemoveAt` and `UserEdits`
are external: what the servers do, taken from how the adapters use them, and what a
user does.

### ScheduleReload: jobs follow rows

`row` are the schedule rows (state, whether the interval is `once`, a version
that stands for the configuration), `job` the jobs in APScheduler's tables,
`pc`/`left`/`toAdd` the reloads under way. `Create`, `Update`, `Toggle`, `Delete`
commit and begin a reload; `ListJobs`, `RemoveJob`, `ReadRows`, `AddJob`,
`Finish` are the awaits of `reload_schedules`; `Raises` any of them failing;
`Crash` and `Start` the process. `broken`, `heals` and `alone` are history
variables for the properties.

Abstractions: the run that create starts is not here; the rows come in any order;
the job tables survive a stop.

### SyncTrigger: the idempotency key

One user. `key` and `deleted` are the schedule rows, `adhoc` the rows without a
schedule under the partial unique index on (user, key), `tasks` the messages the
broker took. `Look`, `ReadSchedule`, `StoreKey`, `Insert`, `LookAgain`, `Enqueue`,
`EnqueueFails`, `Discard` are the awaits of the handler in order, `Tell` the end of
it; `Dies` is a failed clean-up or a stopped process. `lastRun` and `upset` are
history. The module has no specification of its own; `TaskRegistry` takes its steps.

Abstraction: a `schedule_id` that names an ad-hoc row is not modelled.

### TaskRegistry: tasks, their registry, polling and deletion

`st` is how far each parent and child task is, `reg` the set
`ampy3:sync-tasks:<sync>`, `rev` the requests whose task has a mapping
`ampy3:task-to-sync:<task>`, `revoked` what the workers were told, `del` the
deletion under way.

| Action | Code |
|---|---|
| `Trigger`, `Registers`, `Arrived` | the handler; the mapping it writes before it answers; the message |
| `Enter`, `Register`, `Spawn`, `ListChild`, `Retry`, `End`, `Terminate` | the bodies: register, work, spawn, retry, unregister; what happens to a revoked task |
| `DeleteStarts`, `Revoke`, `DropSet`, `DeleteEnds` | single and bulk deletion: read the set, revoke, drop it, delete the row |
| `Poll` | what the status endpoint answers |

Every registry write may be lost (the code logs the error): `unsaid`, `unheard`
and `swept` remember what was lost or dropped, for the properties.

Abstractions: one deletion at a time; the TTLs of the keys are longer than
anything here and not modelled; a sync has one target.

### RuleGraph: validation and order of execution

`Init` takes every graph over `Nodes` with every typing into source, output and
other nodes. The phases are the loops of `validate_rule_yaml` (depth-first search
with an explicit stack of calls, two reachability searches, the verdict) and of
`NodeGraphExecutor` (Kahn's sort, execution). Worklists are sets: where the code
follows the order of the file any order is taken. What a handler computes is left
out; `outputs` are the nodes that have run. `Below` defines reachability without
a search, as the reference the searches are compared with.

### RuleStore: the table of rules

`rows` are the rows of `match_rules` by id, `pc` and `req` the requests with their
locals. A handler's statements are its actions: `Create`, `ReadMax`, `Insert`;
`Clone`, `FindFree`; `Reorder`, `Renumber`, `SaveOrder`; `Update`, `CheckRename`,
`Save`; `Delete`, `Discard`; `Test`, `FindTested`, `Run`. `Starts` seeds the
default rules of a release (`SeedFile`, `Seed`). A save writes the columns that
differ from the row as the request loaded it, as the ORM does. `RunOrders` are the
orders in which the rules may run (equal priorities in any order), `Deciding` those
of the matching rules whose match may be taken.

`mixed` remembers that requests met, that a reorder left out a rule or that a
release was followed by another; `asked` is the order a user asked for last.

### SecretKey: the key and what it encrypts

`stored` is the `secret_key` row, `row` the sensitive settings (a ciphertext is
the plaintext and the key it was made with), `mem`, `warm`, `val` the API
process's copy of the key, whether its cipher is built, and the plaintexts. `pc`
and `op` are the requests under way.

| Action | Code |
|---|---|
| `SetupCheck` ... `SetupPublish` | `setup_initial_config`: look, find the row, commit, switch memory, publish |
| `Rotate` ... `RotateCommit` | `rotate_secret_key`: read, switch memory and re-encrypt, commit; when the commit fails, memory stays on the new key |
| `Put` ... `PutLoad` | `put_settings`: encrypt, commit, read back, load into memory |
| `Dies`, `Start`, `StartUnloaded` | the process stops; starts with the overrides loaded, or without |
| `WorkerCheck`, `WorkerSubscribe`, `WorkerLoad`, `WorkerTrouble` | `src/docker/worker-entrypoint.sh` and the start of the worker behind it |

`saved` is the last value a commit stored, `upset` that a key change overlapped
another handler, `alone` the requests nobody overlapped. A request is `strange`
when it began with a key in memory that the database does not have (a rotation's
commit has failed, or a start could not load); `astray` are the secrets such a
request has written, or may have lost in a rotation.

### Login, PlexSetup: sign-in and the Plex target

`owner` is the pair of owner rows, `sess` the session row of each user (at most
one), `refs` the users schedules refer to, `cookie` what each browser holds, `key`
the number of the present secret key; `pc` and `req` are the request of each
browser. `LoginStarts`, `FindId`, `InsertId`, `GetPin` are `plex_login`;
`Exchange`, `FindOwner`, `Register`, `Registered`, `Upsert` are `plex_callback`
with `create_session`; `Ask` and `Verify` the middleware, after which comes one
of `UseSession`, `Logout`, `DropExpired`, or a setup. `Expire`, `RotateKey`,
`CommitFails` and `Restart` come from outside. `last` is the login that ought to
last.

`PlexSetup` adds `target`, the two rows of address and token, and `choice`, what
a setup has found so far. `SetupTries` tries addresses until one answers as the
server that was named; `SetupHost`, `SetupFlush`, `SetupCommits` write the rows: the
look-up of the second flushes the first, whose row stays locked to the commit.
What a server answers at an address is the environment's choice. An address equal
to the one looked up (`same`) is not in the UPDATE that the ORM sends. `PutsPlex` is
`PUT /settings`, which writes either row as the user gives it. `mixed` remembers
that one of the rows was last written by hand, or that a setup left an address that
somebody else had written since it looked.

### TargetCache: clients and their settings

A client is the version of the settings it was built from. `conf` and `key` are what
is stored, `was` how each version looked to a hash of its values: settings set back
to earlier values are a new version with an old look, and an old `Fingerprint`.
`shared` is the fingerprint in Valkey, `cache` and `lock` are the API's; `child`,
`wkey`, `wpc`, `seen`, `wuse` are a worker process and its task.

| Action | Code |
|---|---|
| `Get`, `Lock`, `Load`, `LoadFails`, `Store`, `Use` | `get_target_async`: look, wait for the lock, look again, build, keep |
| `Save`, `SaveBreaksOff`, `Reset`, `PushRead`, `PushWrite` | a change of the settings, the reset after it, and the background update of the fingerprint |
| `RotateSwitch`, `RotateCommit` | what a rotation does to key and rows |
| `TaskStarts`, `Compare`, `Push`, `ResetAgain`, `Target`, `TargetFails`, `TaskEnds` | the start of a child task: compare fingerprints, reset, build |
| `MatchTrack` | `match_track_task`: takes the client of the process, or builds one, and looks at no fingerprint |
| `ApiRestarts`, `WorkerRestarts`, `ChildDies` | the processes |

`missed` remembers that a reset was lost or came during a build, `child.asOf` of
which version the fingerprint is that the process has dealt with.

### MusicSession: credentials, SDK and feeds

Credentials are versions; `payload` says which of them are the same credentials, set
back, for the tag is a hash of what they are. `auth` and `memory` are the stored
setting and its copy, `kept` the cache of `ytauth.py` with its expiry, `authLock`
its lock; `sdkLock` the client's lock, `threads` the SDK calls that run, `feeds` the
feeds in Valkey by tag, each as the version of the session that fetched it. `Ask`,
`AuthLock`, `ReadAuth`, `KeepAuth` are `get_ytmusic_auth`; `Begin`, `Hit`, `Miss`,
`SdkLock`, `Finish`, `TimeOut`, `Write` the call for the home feed; `ThreadEnds` is
the thread that a timed-out call leaves behind, and that gives the lock back;
`Cancel` can come at every await. `SaveAuth`, `ReadBack`, `Invalidate` change the
setting.

`ended` remembers when a version was superseded, `fellBack` that a load failed and
the copy in memory was used.

## 3. The runs

Twelve runs, all of which pass. Each property has a mutant of the code in
`PROJECT.json` that the run rejects.

| Run | Instance | Shows |
|---|---|---|
| `SyncDispatch` | 2 runs, 2 targets, TTL 2, 1 retry, no faults | `OneRunAtATime`, `LockIsTheRun`, `ImplementsSerialRuns` |
| `SyncDispatchFaults` | 1 run, 2 targets, TTL 1, 1 retry, 1 fault, fairness | `EveryTargetSpawned`, `EnqueuedRunsEnd`, `LockEventuallyFree` |
| `SyncRuns` (`SyncViews`) | 2 tasks, 2 executions, 2 tracks, 3 sources, 1 retry, 1 trouble or match by hand | `RunsSettle`, `SnapshotsFit`, `LinksMatchTracks`, `PublishedIsRecorded`, `ViewsAgree` |
| `PlaylistUpdate` | 3 items, all lists without duplicates and one with, both backends, 3 attempts, 2 troubles | `CleanSyncExact`, `UpdateLosesNothing`, `StraysBounded` |
| `ScheduleReload` | 2 schedules, 3 handlers, 3 changes | `NoneMissing`, `LoneReloadExact` |
| `TaskRegistry` | 2 requests, 1 schedule, 2 keys, 2 tasks at a time, 1 deletion, 1 trouble | `OneLiveRunPerKey`, `NoPhantomSync`, `AnswerIsOwn`, `KeyIsLastRun`, `WorkIsListed`, `PollResolves` |
| `RuleGraph` | every graph over 3 nodes, fairness | `SoundRulesRunWhole`, `Ends` |
| `RuleStore` | 2 requests, 1 name, 2 releases, 4 changes, 2 starts | `DefaultsCurrent`, `ReorderHolds`, `OrderIsClear` |
| `SecretKey` | 3 requests, 2 at a time, 2 secrets, 2 values, 2 new keys, 3 updates, 1 trouble, fairness | `SavedReadable`, `LonePutExact`, `ListenerStarts` |
| `PlexSetup` (`Login`) | 2 browsers, 2 users, 2 servers, 2 addresses, 2 logins, 1 rotation, 1 trouble | `OwnersOnly`, `SignedIsReadable`, `LoginLasts`, `PairMatches` |
| `TargetCache` | 2 requests, 2 changes, 3 looks, 1 rotation, 2 troubles | `WorkerFresh`, `ApiFresh` |
| `MusicSession` | 2 requests, TTL 1, 1 tick, 1 change and 1 trouble (a failed load, or a second change, perhaps back), fairness | `OneThread`, `FeedNotOlder`, `AuthFresh`, `CallsEnd` |

Why the bounds suffice for the cases of interest:

- Two targets make the counter pass through 2, 1 and 0 with children finishing
  in both orders and during the spawn loop; two runs are what exclusion is about,
  and a run that lost the lock to its TTL still interferes with the next. TTL 2
  allows a lapse both before and after the counter's refresh. `MaxBodies` is
  `MaxRetries + MaxFaults + 1`, so it never stops a parent that could start.
- With two tasks and two executions a task can follow, overlap or redeliver
  another of the same or a different execution; sources that are empty, change
  the track at a position, or hold a track twice are all included.
- Three items are the fewest on which Plex's reordering decision has all its
  outcomes; three attempts let a clean one follow two that failed half way.
- Three reloads at a time contain a reload that is overtaken on both sides; two
  schedules tell "this job" from "all jobs".
- Two requests hold the race and the retry; two keys, a schedule and ad-hoc rows
  are what the scope of a key is about; two processes let parent and child be at
  work together, and one deletion meets tasks at every stage.
- Graphs over three nodes contain self-loops, two- and three-cycles, a node
  reached by two paths, orphans before and behind, and cycles that the search
  meets from either side.
- Two requests overlap, four changes make a table of two user rules and reorder
  it; two releases, of which the second puts a new file in front under a name a
  user may have taken, make every branch of the seeding happen.
- Two requests at a time overlap in every pair of handlers, a third comes
  after; two keys are a setup and a rotation, two secrets tell an update of one from an
  update of all.
- Two users race for ownership from two browsers; two logins are an old cookie and
  a new one; two servers can answer at each other's address.
- Two changes of the settings let one be missed and the next be dealt with, and go
  there and back; three looks tell "set back" from "changed again"; two
  requests are a build and a reset; the worker needs one process, since processes
  meet only in the fingerprint, which the API's updates exercise.
- One tick with TTL 1 lets credentials expire and be loaded again; two changes are
  there and back; two requests contend for each lock, one abandoned and one
  waiting.

All runs set `CHECK_DEADLOCK FALSE`: every instance does a bounded amount of work
(dispatches, tasks, attempts, requests, changes, ticks) and then really stops.

Fairness:

- `SyncDispatch`'s `FairSpec` assumes that a dispatcher that holds the lock goes on
  (`StoreCounter`, `Enqueue`), that workers keep taking and finishing messages
  (`ParentStep`, `ChildStep`: Celery prefork workers with a hard time limit on
  every task), and that Valkey's clock advances (`Tick`).
- `SecretKey` assumes that some handler under way goes on, that a stopped API
  container is started again, and that the worker container's script goes on (`WF`
  of `ApiSteps` and `WorkerSteps`).
- `MusicSession` assumes that a thread ends (the SDK's requests have a timeout),
  that a coroutine whose await is done resumes, and, strongly, that one
  waiting for a lock that becomes free again and again gets it (`asyncio.Lock`
  serves its waiters in order).
- `RuleGraph` is a sequential program: it takes its next step.

Nothing makes a fault, a crash, a request or a change happen.

### What the models show besides

Behaviours of the code that its comments do not promise away; each is reachable in
its module and is what a premise of a property there excludes.

- A parent that is redelivered or retried after it spawned its children, and then
  ends early, releases the lock while they work. The script of a finishing child
  compares the token in the counter but deletes the lock unseen: after a TTL it
  can be a newer run's (`Undisturbed`).
- The failed row of a refused dispatch is the latest, and the run in flight
  completes it. A child that is killed at its hard time limit, or revoked by a
  deletion whose commit then fails, leaves its row running for ever, as does one
  whose last failure record is lost (`lost`). A row left running is reused by a
  later message of its execution, which then finalizes the row above it: if that has
  a history, the unique constraint refuses the snapshot on every retry
  (`Orderly`).
- A fetch for other targets of a sync keeps this target's links on rows that now
  hold other tracks (`fetched = Elsewhere`); the next fetch for this target
  clears them.
- A playlist that could not be read is taken for empty: the update removes nothing
  and reports success (`added`). The additions to a new Plex playlist are not
  counted (`short`).
- A match by hand that spans a fetch gives a track the match of the one that was
  at its position before (`crossed`).
- A playlist that could not be created counts as success (`PublishSilentlyFails`).
- Two requests with one key that overlap start two runs of a schedule; with the
  unique index, ad-hoc syncs are safe from this (`OneLiveRunPerKey` speaks of them).
- Key changes that overlap other handlers lose credentials (`upset` in `SecretKey`).
  After a rotation whose commit failed, one update alone does: it encrypts with the
  key that only memory has, commits, and loads the stored key back, so what it wrote
  cannot be read (`astray`). A worker container that checks before the commit and
  subscribes after the message waits until it is restarted; workers keep the key
  they started with after a rotation, and every client they build then fails
  (`TargetFails`).
- A setup that re-enters the stored address while another setup commits a
  different server leaves that server's address beside its own token; `PUT
  /settings` writes address and token apart (`mixed` in `PlexSetup`).
- Settings that were changed while a worker process built its client, and set back
  since, have the fingerprint it knows: it keeps the client of the settings in the
  middle (third case of `WorkerFresh`). A match by hand uses whatever client its
  process has.
- The tag of the feed cache is taken in one call and the client in another: the
  feed of a newer session may be cached under an older tag, and is shown when the
  older credentials are stored again, although the client's docstring says that
  the key carries the identity of the session that produced the entry
  (`core/clients/ytmusic.py` 64-68; `FeedNotOlder` claims the other direction).
- A reorder that overlaps a clone, a deletion or another reorder leaves equal
  priorities, and the database decides between them (`mixed`).

## 4. The proofs

The theorems hold for any value of the constants; assumed are only the named
`ASSUME`s of the modules (finite sets where something is counted, bounds that are
numbers, model values that differ). Bounds such as `MaxTroubles` are constants
too, so nothing depends on how small they are in a run.

| Module | Theorems, each `Spec => []...` unless noted |
|---|---|
| `Scheduler_proofs` (`SyncDispatch`) | `TypeCorrect`, `SerialInvariant`, `RunsAreSerial` (`OneRunAtATime`), `LockFollowsRun` (`LockIsTheRun`), `CounterCorrect` (`CounterIsOwed`), `SerialRefinement` (`Spec => Serial!Spec`), `NoTargetLost` (`EveryTargetSpawned`) |
| `Scheduler_proofs` (`ScheduleReload`) | `ReloadTypes`, `NoScheduleMissing` (`NoneMissing`), `LoneReloadIsExact` (`Spec => LoneReloadExact`) |
| `SyncRuns_proofs` | `RunTypes`, `LinksAreRight` (`LinksMatchTracks`), `RowsSettle` (`RunsSettle`), `SnapshotsAlwaysFit` (`SnapshotsFit`), `PlaylistIsHistory` (`PublishedIsRecorded`), `PagesTellOneStory` (`ViewsAgree`) |
| `Targets_proofs` (`PlaylistUpdate`) | `PublicationTypes`, `StraysPaidFor` (`StraysBounded`), `NothingWantedLost` (`Spec => UpdateLosesNothing`), `CleanSyncIsExact` (`Spec => CleanSyncExact`) |
| `SecretKey_proofs` | `KeyTypes`, `NothingLost` (`SavedReadable`), `LonePutIsExact` (`Spec => LonePutExact`) |
| `TaskRegistry_proofs` (the trigger) | `TriggerTypes`, `AdHocIdempotent` (`OneLiveRunPerKey`), `NoPhantoms` (`NoPhantomSync`), `AnswersAreOwn` (`AnswerIsOwn`), `KeyTracksRun` (`KeyIsLastRun`) |
| `TaskRegistry_proofs` (the registry) | `WorkListed` (`WorkIsListed`), `Polls` (`PollResolves`) |
| `Login_proofs` | `LoginTypes`, `OneOwner` (`OwnersOnly`), `CookiesRead` (`SignedIsReadable`), `LastLogin` (`LoginLasts`), `PairsMatch` (`PairMatches`), all of `SSpec` |
| `Targets_proofs` (`TargetCache`) | `CacheTypes`, `WorkerIsFresh` (`WorkerFresh`), `ApiIsFresh` (`ApiFresh`) |
| `Rules_proofs` (`RuleGraph`) | `GraphInvariant`, `SoundRulesOnly` (`SoundRulesRunWhole`) |
| `Rules_proofs` (`RuleStore`) | `StoreInvariant`, `DefaultsStayCurrent` (`DefaultsCurrent`), `OrderAskedHolds` (`ReorderHolds`), `OrderStaysClear` (`OrderIsClear`) |
| `MusicSession_proofs` | `SessionTypes`, `OneThreadOnly` (`OneThread`), `CredentialsFresh` (`AuthFresh`), `FeedsNotOlder` (`FeedNotOlder`) |

The theorems of `TaskRegistry_proofs` are about the composition, `TaskRegistry`'s
`Spec`. What each rests on:

*SyncDispatch.* None of the serial invariants is inductive. That a finishing child
finds its own counter needs to know that the counter cannot be another run's; that
the counter reaches zero only with the last child needs to know that the loop
spawns each child once, that no child of an earlier execution exists, and that the
counter key did not expire before the lock. `SerialInv` says of an undisturbed
state, for each run, which of lock, counter, `todo` and `child` belong to its
phase. The step lemmas follow the actions: `OwnDispatch`, `OwnParent`,
`OwnChild`, `TimePasses` treat the run that moves, `OtherRuns` and `FramedRun` show
that everybody else's part is untouched, `StillUndisturbed` that a disturbed
state stays disturbed; `PendingAfter` and `TargetFacts` carry the counting.
`SerialRefinementStep` reads the refinement off the same invariant: a step that
changes who is live is the abstract `Begin` or `End`, any other is a stutter or
the end of the calm. `NoTargetLost` holds through every fault: `LoopInv` says that
a loop under way has enqueued what is no longer in `todo`, `ChildrenStay` that no
child is forgotten, and of all steps only three touch a loop (`LoopsFramed`).

*ScheduleReload.* `ReloadTypeOK` needs `Stopped` (a process that is down serves
nothing). `NoneMissing` speaks of quiet states only: `CoverInv` says of every state
that an active schedule has a job or some reload will yet add it. A reload that
has not read the rows covers every schedule, so a removal never uncovers one, and
a commit is covered by the reload its handler begins in the same step. `LoneInv`
is the same for one undisturbed reload, with the configuration.

*SyncRuns.* `Linked` (no link belongs to another track, and a match under way has
read the right row, unless a fetch came in between or the last one was for other
targets) is inductive. For the rows, every step of a task is first shown to be of
one of eleven kinds (`OfAKind`: waits, takes a row, makes one, completes or fails
the latest, ...), which forget everything but rows and stages. `SettleInv` has four
parts: what exists at all (`Kept`), the case of a single row under any overlap
(`OneRow`), one task at a time with its row on top (`InTurn`), and that a task about
to snapshot finds on top a row that is running (`OnTop`), which has no history
(`Kept`). `Recorded` then follows the data: the running row's batch has every track
(`Batched`), what is to be published is what was just recorded (`Sent`), and the
playlist has no less unless additions were missed, and no more unless it was not
read (`Right`); `Named` rules out that a task of another execution takes credit.

*SyncViews.* `ViewInv` adds to these what the pages read together. Whoever is at
work works for the execution that fetched the tracks last (`Current`); its row is
the only one of that execution still running (`AtTop`); a running row has no history
and a history is of the row's batch (`Written`); without a match by hand a linked
track has its own match (`ByRules`). `Shown` then says of the latest row what the
pages show of it: while it runs its batch covers the tracks, once it completed its
history is what is linked, about to be published, or published. An attempt that
fails and is repeated makes a new row, which is why `Shown` asks only about the row
of that execution. What Valkey holds does not enter: `ViewsAgree` quantifies over
it.

*PlaylistUpdate.* `StraysBounded` is not inductive: a failed look at the saved
playlist makes an attempt create a second one, and the first becomes a stray only
when the second is saved. `PaidFor` counts it from the failure on (`Replacing`).
`CoverInv` follows each wanted item: it is in the playlist and no request still to
make removes it, or a request still to make adds it, or a batch has failed, and then
the attempt does not report success. `OnTrack` lists the forms that the remaining
plan of an undisturbed attempt can take on each backend (`Doing`); each request
leads from one form to the next, with the playlist it leaves. What the plan
computes is in the lemmas: what `Inside` and `Outside` return and how they
distribute over concatenation (`InsideConcat`), what `RemoveAt` of the first
removable item leaves (`DeletesOne`), and what the greedy walk of
`_playlist_needs_reorder` accepts: kept items that are a prefix of the wanted list, so
that appending the missing ones is exact. These are inductions over lists. The
theorem library's induction rules cannot be instantiated here, so they are stated
as the absence of a least counterexample: `LeastNumber` from the well-foundedness
of `<` on `Nat`, `ListInduction` for lists of a set.

*SecretKey.* `KeyInv` says for each request, as long as no key change overlapped
another handler, that it is alone if it changes the key, that what it has read of
the key and the rows is still true, and, unless it is `strange`, that the key it
works with is the stored one and what it has encrypted fits the rows: so when a
rotation commits, each row that was readable is replaced by the same plaintext under
the new key. A strange one only adds to `astray` when it commits. `LoneInv` follows
what an undisturbed update has encrypted, found unchanged and committed so far.

*SyncTrigger, TaskRegistry.* All rest on `Placed`, what a request carries where it
stands. `Rows` (an ad-hoc row belongs to one request) gives idempotency, `Origins`
traces an answer back, `Tracked` follows the key of a schedule through store,
failure and discard. `Handed` and `Staged` say which tasks exist at which stage, so
that a registration can be attributed; `Mapped` says which of the two mappings is
still to come.

*Login, PlexSetup.* `Signing` and `Numbered` say what a login under way carries,
`Owned` whose it is, `Issued` that its id is nobody else's and under which key,
`Lasting` that the last login's row is there and has not expired. `Paired` says
that a setup that has found an address stores the token of the same server, and
that the address it leaves as it was is the one it has found unless it is `late`.

*TargetCache.* `WorkerInv`: a worker's cached client is never older than the
settings whose fingerprint the process has dealt with (`asOf`), each fingerprint is
the look of the version it was taken of, and once the comparison is over the client
is gone or `Serves` the settings the task began with: it is as new, looks the same,
or lies between two versions that look the same. `ApiInv`: a client just built is
current, or the reset it owes is still to come or was missed.

*RuleGraph.* `Below(S)` is defined without a search, as what is in every closed set;
`BelowBelow` makes it transitive. For the depth-first search, the nodes whose calls
have returned form a closed set (`Closed`) and none of them lies below itself, which
that set witnesses; the calls under way are a path (`Chained`), so a child on the
stack closes a cycle (`HasCycle`). The worklists of the two searches hold the
children of what was reached and not yet visited, so that an empty worklist leaves
exactly `Below` the sources and what leads to an output: `Verdict` turns both into
the soundness of the rule. In the sort, `degree` counts the parents that are not
sorted yet and `order` is a sequence of distinct nodes, each after its parents;
`FirstNode` (of the nodes left, one with the fewest nodes above it has no parent
among them) shows that it cannot stop early on a rule without a cycle. The run
follows the order, so `outputs` is always a prefix of it.

*RuleStore.* `SeedSteps` unfolds the seeding file by file and `SeedOne` carries
`SoFar` through it: the files read so far are there, each once, a table that was
current is left as it is, and an empty one gets the files numbered in their order.
What requests do to the table is `Grows`, and almost always `SamePrios`: every
action is shown to be the turn of one request (`Turn`) that does no more, so what
holds of the others (`OthersStay`) and of the default rules (`CurrentStays`) holds
still. Only a reorder changes priorities, and what it commits is `Committed`: the
rules it names, numbered from behind the default rules as it loaded them. `AskedFor`
keeps that order; that the loaded priorities are those of the table unless another
reorder committed (`Orders`) is what makes a late commit harmless to an order asked
for since. `Clear` is `OrderIsClear` made inductive: at most one request is under
way, and what it carries is `Exact`: a name that is free, a priority behind all, the
table as it is, the only order to run in (`OneOrder`: the first place where two
orders by distinct priorities differ cannot exist).

*MusicSession.* `LockInv` ties each lock to the place of its holder and to the
thread left behind. `AgeInv` orders the versions that a request has in hand, in the
cache, in its tag and in Valkey, where a payload goes by the first version that had
it (`NamesKept`), which is no later than the tag: loads follow one another under the
lock (`Ordered`), and the lifetime of what a load yields counts from before its read
(`Clocked`, `Fresh`, `Expired`).

Every safety invariant and every safety action property that a run checks is proved.
Only model-checked is liveness (`EnqueuedRunsEnd`, `LockEventuallyFree`, `Ends`,
`ListenerStarts`, `CallsEnd`), which is out of the prover's reach.

## 5. Plan

Done, in this order: the dispatch lock with its abstract specification and
proofs; run rows; publication; jobs; trigger; rule graphs; then key, sign-in and
setup, clients, music session, rule table, registry and pages, with the proofs
above. Left:

1. `SyncStats`: the counters of `_update_stats` under concurrent finalizers.
2. WebSockets: subscription maps against sends outside the lock.

## 6. What is not modelled

Text matching and scoring, node handlers, HTTP clients and searches, sources, the
explore pages, MusicBrainz, WebSockets, the web UI, migrations and deployment: no
state, or state that one transaction changes, or that the next poll repairs.
Message order within the broker is not modelled (any order is allowed), nor is
Valkey failover. Numbers that are only displayed, the counters of `_update_stats`
among them, are left out, as are settings that are not secret and their
validation, and the time to live of keys that outlive everything modelled.
