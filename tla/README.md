# A TLA+ model of the LAN cache server

This directory holds TLA+ modules for the Rust cache server in
`CacheServer/RustCacheServer/src`, TLC configurations that check them on small
instances, and TLAPS proofs for every value of the constants. Paths such as
`task_registry.rs` are relative to that directory; `docs/` is the repository's.

`PROJECT.json` lists the runs, the mutants (a plausible bug per property, with
which TLC finds that property violated), the source lines behind every
definition, the hazards and the theorems.

## 1. The system

An Apple TV or Mac app asks the cache server, over gRPC, to download a video or
to play it while it is being cached. The server keeps tasks, resolves sources,
fetches byte ranges of HLS media, serves them to `AVPlayer` over HTTP and evicts
them under a budget. One process, a tokio runtime, many tasks; the shared state
lives behind a few mutexes and `Notify` or `watch` channels.

| Component | State | Operations | What is hard | What makes it correct |
|---|---|---|---|---|
| Fill scheduler (`hls_fill_scheduler.rs`) | two queues, the running job and its token, `closed`, worker flags, two `Notify` | enqueue, promote, demote, next job, finish, cancel (and wait), shutdown | a wake-up between a look and an await; verdicts formed before the lock; a worker that panics | the newest playback runs, no wake-up is lost, a cancellation that returned is over |
| Range admission (`hls_range_cache.rs`) | guard counters, removing, retired, unpublished and published sessions, chunk flights, permits | enter, claim a chunk, publish, remove, drain | guards drop in any order; a late drop meets a newer flight; a caller goes away while it waits | counters equal guards, a removal is alone, a chunk has one fetcher |
| Range quota (`hls_range_cache.rs`, `hls_cache.rs`) | reservations per resource | measure, reserve, write, note, release | usage is measured outside the lock | reservations and files share one budget |
| Disk cache (`hls_cache.rs`) | extents, checkpoints, data and completed files, manifests, prefetched prefixes | ensure a span, commit an extent, compact, complete, publish, prewarm, remove, restore | a crash between data and index; origins that disagree; snapshots of the checkpoint that others change | covered means durable and of one representation |
| Fill worker (`grpc_services.rs`) | stage of the current fill, fill status | load, fetch, publish, requeue | deletion and demotion during a stage | status follows the data |
| Task registry (`task_registry.rs`, `task_store.rs`) | live tables, committed view, pending publications, the state file, watchers | create, claim, update, cancel, complete, publish, remove, subscribe, save, restore | saves that fail or are not synced, crashes, slow subscribers, owners racing cancellations | readers see what is committed, cancellations end, nothing deleted can come back |
| Download worker, BBDown adapter (`bilibili_worker.rs`, `bbdown_adapter.rs`) | slots, owners, staging and output directories, files bound to objects, progress | claim, download, mux, validate, publish, report, retry, clean up | the result may not be savable; names come to mean other files; a crash between a rename and its record | the slot is released, the task ends, no file without an owner and no owner without a file |
| Task output, resource bodies, result pages (`task_output.rs`, `task_registry.rs`, `grpc_services.rs`) | results, snapshots of pages, leases, staged bodies, cleanup intents | replace, reconcile, retire, page, retain, delete | pages outlive the output they show; limits in bytes at every border | what was accepted can be saved, loaded and listed; a page shows nothing deleted |
| Playback planner and resolution (`grpc_services.rs`, `bilibili_playback.rs`, `bilibili_resolution.rs`) | planners, resolution sessions and tokens | resolve, page, select, plan, publish, cancel | the origin changes between the look and the plan; sessions expire while they are used | what is planned is what was selected |
| Resolvers (`resolver_*.rs`) | settings, health, route memory, permits | race the official answer against proxies, learn routes, update settings | settings change during the race | only allowed routes, learnt only from genuine restrictions |
| Playlists, sessions, playback progress (`hls.rs`, `playback.rs`, `mp4_segments.rs`, `hls_playback_progress.rs`) | registered sessions, variants, last position | register, replace, complete, remove, list, report | stale sessions and URLs | a playlist is of one file, a session served only while registered |
| Media server, refresh, network policy (`media.rs`, `hls_media_refresh.rs`, `hls_network_policy.rs`) | refresh in flight, policy of a session | serve, proxy, refresh, degrade | a refresh that ends for a session that is gone | bodies are exact, the policy is fenced |
| CDN history (`cdn_history.rs`) | averages, quarantine, the writer | record, rank, prune, save | the writer works without the lock | no observation is lost, failing origins are last |
| Login (`bilibili_login*.rs`, `bilibili_credential*.rs`) | login sessions, profile reservation, readiness, stored credentials | start, poll, complete, maintain, expire, cancel | late answers, dropped calls, two files that other programs may write between | what is reported ready is verified, the account is kept, the profile is always given back |
| Media library (`library.rs`) | the tree, the publication gate, item locks | scan, delete, publish, remove | readers and writers on one path, durability of an unlink | a deletion is alone and durable |
| Application state (`lib.rs`, `config.rs`) | wiring, startup, eviction, background workers | start, reconcile, evict, delete, shut down | spans several components | order of deletion and of shutdown |
| Swift clients | view models | watch, merge, retry | (not modelled) | |

How they meet: a playback task of the registry publishes an HLS session through
range admission (`SessionPublicationGuard`); the fill scheduler hands sessions to
the fill worker, which enters range admission for every span; cancelling or
deleting goes registry -> scheduler (`cancel_*_and_wait`) -> admission
(`begin_session_removal`) -> files; shutdown closes the scheduler, drains
admission and then closes the writer of the CDN history.
`HlsItemLifecycle` composes registry, served sessions, directories, fill worker,
eviction, deletion and startup.

## 2. Modules

| Module | Models | Checked by | Proved in |
|---|---|---|---|
| `HlsFillScheduler` | `hls_fill_scheduler.rs`, the worker loop of `grpc_services.rs` around it | `scheduler` | `HlsFillSchedulerProofs` |
| `HlsFillQueue` | what the scheduler promises: the abstract queue it implements | `scheduler` | `HlsFillSchedulerProofs` |
| `HlsRangeAdmission` | `RangeState` and its guards, and how `ensure_range_span`, publications and removals use them | `server_state` | `HlsRangeProofs` |
| `HlsRangeQuota` | `reserve`, `note_file_length`, the lease, and the measurements before it | `server_state`, `range_quota_cap` | `HlsRangeProofs` |
| `HlsRangeExtents`, `HlsRangeStore` | the extent algorithms; checkpoint, data file and completion of one resource with the clients that read and fill it | `range_store` | `HlsRangeStoreProofs` |
| `HlsItemLifecycle` | the sessions of a playback task through every component that owns them | `hls_item_lifecycle` | `HlsItemLifecycleProofs` |
| `TaskRegistry` | `task_registry.rs` with the store, the download worker and the planner | `task_registry*` | `TaskRegistryProofs` |
| `BilibiliLogin` | `bilibili_login.rs` with the credential store and `bilibili_credential_bindings.rs` | `bilibili_login*` | `BilibiliLoginProofs` |
| `TaskOutputs`, `OutputMux`, `ResourceBodies`, `DownloadProgress` | a v2 download: its directories, records and cleanup; the muxing of its files; resource bodies and their HTTP responses; progress and cancellation | `components` | |
| `TaskSnapshots`, `ResultPages` | the state file and output records; pages of results | `server_state` | `ServerStateProofs` |
| `ResolverRouting` | the race of the official answer against proxies, the memory of routes, the settings | `server_state` | `ServerStateProofs` |
| `OutputLimits` | sizes and budgets of outputs, pages and the state file | `components` | |
| `BoundedResolution`, `ResolutionSessions`, `PlaybackPlanning` | from an input to a plan | `components` | |
| `PlaybackVariants`, `Mp4Playlists`, `HlsPrewarm`, `HlsServing`, `PlaybackRestore` | a session: variants and manifests, media playlists, prefetch, serving and refresh, the start with one from an earlier life | `components` | |
| `CdnHistory`, `MediaLibrary`, `ServerRun` | the CDN history; the library; a run from binding to shutdown | `components` | |
| `Queues` | what several modules do to a queue (`VecDeque::retain`) | with them | `InductionFacts` |

`MC*` modules give the constants their values. The modules of the `components`
run share no state; `MCComponents` instantiates each of them, and a behaviour of
the run is a behaviour of one instance, which `active` names. `MCServerState`
extends the modules of the `server_state` run, whose parts share no state either,
and `part` names the one that moves. Each module's
header says how its state stands for the program's. What follows is what a reader
of the larger ones needs.

### HlsFillScheduler, HlsFillQueue

`foreground` and `demoted` are the two queues, as sets of jobs ordered by their
sequence numbers (the code's `VecDeque`s are sorted by construction; the two ends
are `Front` and `Back`). A job is its session, priority, sequence number and the
two flags of its token, `preempted` and `cancelled`. `current` is the job the
worker runs, the empty set when there is none.

The mutex makes what a method does under it one action; what it does after the
unlock, and before the lock, is another. An enqueue or a promotion changes the
queues and then owes a `notify_one` (`owed`, `Notify`), or spawns the worker
(`SpawnWorker`); a guard's drop marks its worker stopped and then owes a
`notify_waiters` and a `notify_one` (`stopping`, `StoppedNotifies`, `Notify`), while
another worker may have begun; `finish_current` goes on to `FinishedNotifies` and
`RequeuedNotifies`. `next_job_until_shutdown` makes its `Notified` (`Listen`), looks
under the lock (`NextJob`, `WorkerExits` or `LookInVain`) and awaits (`AwaitJob`):
the first poll consumes the permit, or ends because of a `notify_waiters` since the
`Notified` was made (`missed`), or parks. Shutdown closes, calls `notify_waiters`,
looks and awaits in four actions. `cancel_*_and_wait` enables its `Notified`
(`CancelListens`), looks (`CancelTurn`) and sleeps until `woken`. The worker's
task may die in a job (`WorkerPanics`): `mark_worker_stopped` is then all that
runs. `MaxSequence` bounds the jobs ever created, `MaxCallers` the callers between
unlock and notify, `MaxPanics` the deaths. Tokio's `Notify` is modelled from its
documented contract.
`HlsFillQueue` forgets priorities, numbers, tokens and wake-ups: sessions wait, at
most one is filled, and one that was withdrawn waits again only when somebody asks
for it.

### HlsRangeAdmission

`client` says where each request, fill, publication or removal is and which
guards it would drop. `Enter`, `ClaimOwner`/`ClaimWaiter`, `AcquirePermit`,
`Commit`, `DropOwner`, `DropWaiter` and `Leave` are a read or a fill going through
`ensure_range_span`; a drop may happen at any point, because a future can be
dropped at any await. `stale` marks a waiter whose flight has ended: its late
`release_foreground_interest` falls on whatever flight the chunk has then.
`BeginRemoval` closes a session before it has a guard; `AbandonRemoval` is the
caller going away in between.

### HlsRangeQuota, HlsRangeStore

A span measures the usage of all files, then its resource's length, then asks for
a reservation: three actions, because only the third holds the lock. Resources
are sparse files, so writing a chunk extends the file to the chunk's end.

In `HlsRangeStore` a section under the publication lock is one step, with `Stages`
giving the states its files pass through and `Interrupt` stopping it between two
of them. Between sections a client works with the checkpoint it loaded (`snap`).
`content` says what the origins serve: mirrors of one file, or two files.

### TaskRegistry

A lifecycle mutation holds the mutation lock from its change of the live tables
to the outcome of the save; `txn` is that lock with what its holder still has to
do. A save is rejected, or renames the snapshot into place and then syncs the
directory or fails to. `installed` is the file as the running system reads it,
`recoverable` the set a power loss may leave. `Keep`, `RollBack` and `Install`
are what the caller's checkpoint policy makes of the outcome. Readers use
`visible`; events go through bounded buffers (`Delivered`). `runner` is the
download worker or planner of a task with its retry loop; `Restart` is
`from_persisted_state` on any recoverable snapshot, followed by
`fail_unrestorable_playback_tasks` (`FailUnrestorable`), which runs whatever came of
the start's save, and by the startup reconciliation of `lib.rs` that decides about
restored sessions. Two more operations revise an end because its media is gone:
`Reject` (a session that a client asked for is not in the cache) and `Tombstone` (a
library item is about to be deleted). `"partial"` is a cancelled download that kept
some media, the one kind of cancelled task a tombstone can make fail.

### BilibiliLogin

One profile; profiles share nothing but the limit on session records, which is
not modelled. `store` is the profile in BBDown's credential store: a Web
credential (the cookie with its refresh token, one value, because the code always
compares and replaces them together) and a generic access key with its secrets.
`binding` is the private sidecar that says which cookie was verified for which
account; only this server writes it, through `replace`, which compares with what
the caller expects. `state` is `LoginState`: sessions, the one reservation of the
profile, and the readiness clients are shown. Its locked sections are functions
from state to state (`ExpireSessions`, `Cancel`, `CompleteClaimed`, ...), named
after the code's, and the actions apply them.

`op` is where each call of `start`, `start_access_key` or `maintain_profile` is.
All three reserve, load and run `maintain_web` (`Identity` to `BindRefreshed`);
`AfterStart` and `AfterOthers` are what they make of its verdict. A Web QR login
goes on in `run_session` (`PollNext` to `Certify`, then the re-verification of the
preserved key, `VerifyPreserved` and `Probe`); a browser login waits for a
callback. `req` is a callback with its blocking worker, which share `phase`:
`CallbackDrop` is the HTTP request going away, `ClaimCommit` the point after which
that no longer cancels the write. `late` holds the sessions whose deadline has
passed; nothing happens at that moment, only at the next section that looks at the
clock. Provider answers, file errors, the moment a caller goes away (`Drop`) and
the writes of other programs (`Edit`) are free choices. Sections that follow each
other at once under the reservation are one step: nobody else can take the profile
in between, and what an outsider writes there it can as well write just after.

### HlsItemLifecycle

A task with a primary session and another result. `store` has the registry's
live (`reg`), visible (`vis`) and saved tables; `cache` what the directory of a
session holds; `runtime` how the session is served; `pending` the cleanups that
are due; `removal`, `evictor`, `canceller`, `planner`, `worker` and `startup` the
activities that overlap. `unsaved`, `outdated` and `lost` are history: completed
sessions whose completion is not saved, those of them that were evicted as partial
ones and not filled again, and sessions whose files a request stopped tracking
(section 6, b and c).

## 3. What the runs check

Every passing run explores its instance completely. Bounds were chosen by
raising them until every action and the interplay the property is about occur.

| Run | Instance | Shows |
|---|---|---|
| `scheduler` | 2 sessions, one of each of 2 tasks, 1 canceller of any sessions, 3 sequence numbers, 2 callers that have yet to notify, 1 panic, fairness | order, preemption, wake-ups, cancellation, shutdown; shutdown and cancellations return, queues drain; the abstract queue is implemented. Three sequence numbers let a job be preempted by a newer one, requeued and promoted; two callers let one notify for the other between a look and its await |
| `server_state` | the instances below | counters, exclusive removal, closed sessions, one fetcher, bounded interest; removal and drain end; shared reservations, current pages, honest routes, a state file that gives back what was saved |
| `range_quota_cap` | 2 spans, 2 resources of 2 units, quota 3 | violation: section 6 |
| `range_store` | a reader and a fill, 2 origins, 4 units of which the first is a startup chunk, 1 trouble; different files with every trouble, or mirrors without one | the checkpoint is true of the bytes, one representation, durable bytes stay, the extent algorithms agree with their reference on sets of bytes. A span over two parents is the shortest that has an inner border, a merge and a gap |
| `hls_item_lifecycle` | 2 sessions, 1 failing save or removal, 1 crash | what is offered has its media, files have an owner |
| `task_registry` | a v2 download or a v2 playback with 1 crash and 1 permanent rejection; both together without them; two downloads of one source with 1 crash, or of two sources for one slot | committed reads, safe deletion, no work lost or doubled, ends are revised only when their media is gone |
| `task_registry_watch` | a download and a v2 playback, 1 subscriber with a buffer of 1 event, saves that are rejected or not synced | the subscriber is exact or told that it lagged |
| `task_registry_live` | a download and a playback, no crash, fairness | cancellations end, owners let go |
| `bilibili_login` | a Web login, a browser login, 1 callback, 3 cookies of 2 accounts, 1 foreign write, an empty or a verified profile on disk, symmetry between the two cookies of one account | readiness is true of the files, the account is kept, ended sessions stay ended. One foreign write can hit every point between the reads and writes of an operation. What a second callback may do to the first is not in this instance; the theorems speak of any number of callbacks |
| `bilibili_login_live` | one call of each kind, 1 callback, 1 cookie, fairness | every reservation is given back |
| `bilibili_login_claim` | a browser login and its callback | violation: section 6 |
| `components` | the instances below | one property per concern, over the instances it names |

The instances of `server_state`. Their modules are proved for any number of
everything; the instances are the smallest in which the hazards occur.

| `part` | Module | Instance | Property |
|---|---|---|---|
| admission | `HlsRangeAdmission` | 3 clients, 1 session, 1 chunk, 1 permit, abandonment, fairness | `CountersMatchGuards`, `RemovalIsExclusive`, `ClosedStaysClosed`, `FlightsAreExact`, `RemovalEnds`. Sessions share no state except the sums |
| pages | `ResultPages` | 2 requests, 1 item, 1 snapshot | `PagesAreCurrent`: no page shows what was deleted; leases have an owner |
| quota | `HlsRangeQuota` | 2 spans, 2 resources of 2 units, quota 3 | `OnlyStaleUsageOversubscribes` |
| routes | `ResolverRouting` | a plan against 2 resolvers, a settings update | `RoutingIsHonest` |
| file | `TaskSnapshots` | 1 task with 2 results, files of older versions, a failing sync, crashes | `SavedStateSurvives`, `SnapshotsAreSound` |

The instances of `components`. Two faults and one crash are the least with which a
repair can fail as well.

| `active` | Module | Instance | Property |
|---|---|---|---|
| outputs | `TaskOutputs` | 2 candidates, 2 failing saves or removals, 1 crash | `OutputIsAccountedFor`: what is offered is on disk, what is on disk is offered or due for removal |
| muxing | `OutputMux` | 2 entries, names that are removed or replaced, cancellation | the same: what is offered is what ffmpeg made, a run leaves nothing else |
| bodies | `ResourceBodies` | one body, one client | the same: a body is a whole copy, and what a client puts together is that body |
| library | `MediaLibrary` | 1 file and 1 publication, 1 reader, 2 users, 1 crash; 2 attempts instead of 8, so that a scan is repeated and, when the gate changes again, given up | `LibraryIsStable`, `NothingStaleIsUsed` |
| serving, refresh | `HlsServing` | 2 requests of one session, 2 or 3 plans | `ServingIsSound`, `NothingStaleIsUsed` |
| run | `ServerRun` | 2 control addresses and 1 media address, 1 worker that dies | `ServingIsSound`: planes start together, workers are single, the stop is in order |
| restoring | `PlaybackRestore` | a task with 2 sessions in every state an earlier life can leave | `PlaybackIsFaithful`, `NothingStaleIsUsed` |
| limits | `OutputLimits` | outputs and files at, below and beyond each limit | `OutputIsAccountedFor` |
| writer, ranking, body | `CdnHistory` | the writer with its shutdown; two origins and their ages; a streamed body | `HistoryIsSound` |
| playback, playlists, prewarming | `PlaybackVariants`, `Mp4Playlists`, `HlsPrewarm` | small sets of variants, of files and of answers of origins | `PlaybackIsFaithful` |
| resolving, selecting, planning | `BoundedResolution`, `ResolutionSessions`, `PlaybackPlanning` | inputs at the limits, 2 clients of the store, an origin that changes | `ResolutionIsSound` |
| progress | `DownloadProgress` | a plan of 2 entries, events and restarts of the core library | `OutputIsAccountedFor`, `NothingStaleIsUsed`: reports are true, and go back only when a file is received again |

Deadlock is not checked in these two runs: the instances stop when their requests
and faults are used up, and with every session retired nothing is left to do.

### Fairness

* Scheduler: a thread that has unlocked goes on to notify, a runnable task is
  polled, and a fill that was told to stop, or that
  has nothing left, ends (every await of the worker is also on its token or has a
  timeout). Nothing is assumed of callers. `CancellationReturns` and
  `QueueDrains` end with a panic: the job of a dead worker stays `current`, and
  only the next enqueue starts another worker. `ShutdownReturns` holds with it.
* Admission: whoever has a guard drops it at last. Fetches have timeouts,
  manifests and deletions are local, and a request that went away drops its
  future. Entering, publishing and removing are not fair. An abandoned removal
  leaves the session in `removing` until the process restarts, so `RemovalEnds`
  excepts it by name (`Abandoned`).
* Registry: the mutation lock is a plain `std::sync::Mutex`, which promises no
  order, so only weak fairness is assumed: an owner or a holder of the lock that can
  go on, and remains able to, does so. That is enough because the others cannot
  hold the lock again and again for ever: a change of a task's state happens
  finitely often by itself, and the mutations that change none (a planner's report
  of results, a result that is rejected, a tombstone) are assumed to be finitely
  many, as a task has finitely many results and a library so many items to delete
  (`EndsNoTask`). Besides, a save has an outcome, owners whose token is requested
  return, retries have a bounded delay, and the disk rejects or fails to sync only
  finitely often, without which no owner could ever record its result.
* Login: every provider call is under a timeout and files answer, so an operation
  that has begun goes on, as do a callback and its worker, and deadlines pass.
  Nobody has to call, to go away or to write.

## 4. What is proved

TLAPS checks the proof modules for any constants that satisfy the modules'
ASSUMEs. All of it is safety.

**`HlsFillSchedulerProofs`.** `TypeOK` is inductive alone. On top of it:

* `QueueInv`: at most one current job, sequence numbers disjoint and below
  `next_sequence`, queued tokens fresh, the newest foreground job has preempted.
  None is inductive without the others: `RefreshJob` gives a new number, which is
  fresh only because all others are below the counter, and preemption compares
  the numbers of queue and current job.
* `ControlInv`: the worker's flags agree with where it is, `NoLostWakeup`,
  `ShutdownIsFinal`. `NoLostWakeup` speaks of the two windows, of the worker and
  of the shutdown: in each place between a look and the end of an await, what the
  look did not see is announced by the permit, by `missed`, or by somebody who has
  unlocked and not yet notified. It needs `ShutdownIsFinal` (a closed scheduler has
  no queued work, so a permit the shutdown consumes was not the worker's).
* `DrainInv`: the current job belongs to a running worker,
  `WaitersAwaitCancelledWork`, `QuiescedStaysQuiet`.
* `FillQueueImplemented`: under the mapping of `ImplementsFillQueue` the initial
  states are those of `HlsFillQueue`, and with `QueueInv` and `ControlInv` every
  step is one of its steps or a stutter. The invariant is needed where the
  abstract queue has less to look at: that a job which is put back was not
  cancelled and that nothing runs once the scheduler is closed.

**`HlsRangeProofs`, admission.** Here the type is not inductive alone:
`finish_activity` subtracts, and only the counters being the cardinalities of the
sets of guards makes that safe. So `Base` joins `TypeOK`, `Shapes` (what a client
holds at each point) and `Counters`; every step takes one guard, drops one, or
does neither (`GuardSteps`). On top of it `Closed` is a joint induction on the
markers of removals, the removal's solitude, retired, unpublished and published
sessions and the drain: a commit of a publication is safe because an unpublished
session can only be published by the fresh publication that closed it, and a
session may be retired because the removal is alone. `OneFetcherPerChunk` and the
bound on the interest of a flight are inductions of their own over `Base`.

**`HlsRangeProofs`, quota.** `QuotaHoldsOnCurrentUsage` says that as long as no
reservation was granted on a usage that other writers had outdated, files and
reservations stay within the quota, for any clients, any finite set of resources and
any lengths (`QuotaAssumption`). The bound is inductive together with one fact per
client (`SeenInv`): no length that it measured or was told of is larger than the file
is now, and what it reserved covers what it asked for. `EvictSession` shrinks files
and would break the first, but not while somebody is at work on the resource. In the
step that matters, `Reserve`, the projection is compared with what would be committed
resource by resource: what the caller saw of its own resource may be older than the
file, and what it saw of the others is covered by the usage, if that is current, and
by their outstanding reservations. The sums are folds; `InductionFacts` unfolds them
(`SumExists`, `SumUnfolds`) and gives monotonicity and the sum of sums, `SumFacts` to
`SumOfSums`.

**`HlsRangeStoreProofs`.** For any sizes, lengths, requests, origins and readers, and
one background fill at a time (`StoreAssumption`). A first part says what the extent
algorithms return on any ordered list of extents: gaps are exactly what is missing
(`GapsAreExact`), a merge covers what its parts covered, chunks and parents stay within
the resource. They are recursive functions over the list, unfolded one step at a time;
`InOrder` gives an extent set its only order. Then three inductions:

* `StoreInv`: `Backed` (extents in order, digests and prefix of the bytes that are
  there, a prefix exactly when there are extents), completed files are whole, and for
  each client `Fine` and `Placed`: before the length is known nothing is durable, and
  before there is a prefix only the startup chunk is asked for. Without `Placed` a
  first commit in the middle of the file would leave extents without a prefix.
  `CheckpointIsTrue` follows; every step also leaves `Later` files, from which
  `DurableBytesAreKept`;
* `SameInv`: durable bytes equal the prefix, every bound origin serves it, and a client
  that fetches knows the prefix that stands and has verified the origin of the bytes it
  is about to commit (`Informed`). That the prefix never changes while somebody holds a
  copy (`Tame`) makes the late commit safe. `OneRepresentationHolds` follows;
* `CalmInv`: while no validator moved, no file operation failed and nothing was
  completed, a checkpoint only grows (`Known`): what a client loaded is still so, every
  origin has its first validator, and a range has one flight, so that nobody else
  commits the startup chunk meanwhile. Then no branch that ends in an identity error
  can be taken, which is the second half of `RepresentationHolds`.

**`ServerStateProofs`, pages.** `PagesStayCurrent` states `PagesAreCurrent`. The
invariant adds to it what a request knows between its retention of the output and the
publication of its page: a version it holds is not newer than the output
(`VersionInv`), a request whose version is still current shows nothing but the items
of the output (`ShownInv`; this is what makes the late publication safe), a page that
is not published waits for requests that are about to publish it (`PendingInv`), and
a lease in force has an owner (`OwnedInv`). The order of eviction lists the stored
pages, each once. Pruning, eviction and invalidation are compositions of
`RemoveSnapshots` and share the lemmas `Shrinks*`.

**`ServerStateProofs`, state file.** `SavedStateHolds` and `SnapshotsHold` state
`SavedStateSurvives` and `SnapshotsAreSound`, for any files that older versions may
have left (`OlderVersions` says of them what their validation accepts). `SnapshotsInv`
is:

* `TaskInv`: the task in memory is `GoodTask`: what the current version could have
  saved, with a valid output that, if it still stands for the items of a legacy task,
  is what these items give, and with a snapshot id that was handed out. Without the
  clause about items, a restart would reconcile the output and give other results
  than were saved;
* `FilesInv`: the file as the system reads it, and the one a power loss would leave,
  are both either of an older version or the encoding of such a task. A crash between
  a migration and its save may bring back an older file, so the invariant cannot
  speak of encodings alone;
* `SyncInv`: what is not pending is durable, for the directory and for the parents
  that were made with it;
* `AckedInv`: what was reported as durable, or saved since, is what either file stands
  for. It needs `SyncInv`: a save is acknowledged only when nothing is pending.

That `Restored` of an encoding is the task it came from, the round trip of the
conversion, is a lemma for every `GoodTask`.

**`ServerStateProofs`, routing.** `PlansAreHonest` states the action property
`RoutingIsHonest`, for any plans and any finite set of hosts (`HostNames`: no host is
called like a route without one). Its invariant `Sound` is about a plan and the
settings in force: while they have one revision they have the same hosts, and after a
change the revision tells the two apart, so that the check of the revision before the
return is enough; once hosts are listed, they serve the plan's area; once the probes
are done, they were found reachable; a proxy is asked after the race, or trains the
memory, only after a genuine restriction. What ranking and preferring leave of the
hosts is a list of some of them, each once (`ListsHosts`).

**`TaskRegistryProofs`.** `IInv` joins eleven parts, and none of the five results is
inductive alone:

* `Tables` and `Txn`, the types, with the states each kind of task can have;
* `OpInv` and `HolderInv`: what the holder of the mutation lock has done to the
  tasks it works on, and that the owner it acts for has not let go;
* `Views`: outside a transaction an available store means that live tables, view
  and file are the same; inside one, that the checkpoint is what readers see and
  the file is one of the two. This is what a rollback and an install rest on, and
  it gives `ViewsAgree`;
* `Ends0` and `PartialInv`: live tables and checkpoint hold, for every end that was
  published, that end or what it may lapse to, because a save that is kept or rolled
  back publishes one of them (`EndsAreKept`). An end may lapse only once (`Lapses` of
  a lapse is empty), so a cancelled download with media must be committed before a
  tombstone can make it fail: its commit is the one that a rejected save rolls back;
* `KeysInv`: an active task is the one its key names, in the tables and in the
  checkpoint that a rollback brings back (`OneActivePerKey`);
* `OwnersInv` and `DeletedInv`: a session is deleted only when no table, no
  checkpoint and no recoverable file serves it, and nothing that happens later to
  its task can serve it again (`DeletedIsUnreferenced`);
* `WorkInv`: as long as no save was rejected for good, work under way has an owner
  or its creation is still being saved (`NoOrphanedWork`).

A step is proved once per group of actions (begin a mutation, rename, keep, roll
back, install, the owners, restart), from lemmas about the shape of each group.

Its second half proves, over `IInv`, the two properties of the registry that are
about sequences.

* `WatcherConverges`: replaying events, the last one about a task decides its state
  (`ReplayIs`), so further events about it decide and further events that leave it
  out do not matter (`ReplayMore`), and taking the first event into the view changes
  nothing (`ReplayFirst`). A publication therefore keeps a subscriber exact if it
  tells of every task whose committed state changes (`Tells`), which the installation
  of the live tables does because of `Views`: what is not staged is in the view
  already. A full buffer closes the subscription instead of dropping an event.
* `AcceptedOnce`: the queue lists the queued downloads, each once (`Lists`), and so
  does the queue of the checkpoint a rollback brings back. One fact more is needed:
  no queued download was ever seen under way, otherwise a cancellation, which reads
  the committed view, would take a queued task for a running one and leave it in the
  queue. `KeptLists`, `PartLists`, `ConcatLists` and `AppendLists` say what the
  queue operations keep; the restart's new queue is an enumeration of a finite set,
  for which `TaskAssumption` says that there are finitely many tasks.

The recursive functions of the model are unfolded by induction. The library's theorem
takes an operator as parameter, which no backend instantiates; `InductionFacts` states
induction for sets instead, from the well-foundedness of the natural numbers
(`SetInduction`, `InductionUpTo`, `HasGreatest`), and that a function is defined by
its base and its step (`RecursionExists`). `Kept` is a recursive function for the same
reason: a `SelectSeq` cannot be unfolded. The module also has what the proofs share
about queues (`Lists`: a queue has the elements of a set, each once), finite sets and
sums.

**`BilibiliLoginProofs`.** `LoginTypeCorrect`, `LoginWorkIsReserved`,
`LoginReadyIsVerified` and `LoginOutcomesAreKept` state the three properties of
`bilibili_login` and the type. The sections of `LoginState` are functions from state
to state that the actions compose, so the invariant and its lemmas speak of any
login state `s`, those between two sections included. `IInv` is:

* `Base`: the type, what an operation knows at each point (`Knows`: before a cookie
  is renewed, that its binding was verified) and what a callback carries
  (`Carries`: `committing` is exactly the worker from its write to its publication);
* `Control`: who has the profile at each point of an operation, and that a session
  that is done does not have it. A poll that claimed its session for saving still
  has it;
* `Claims`: a live callback's claim stands with the credentials and binding its
  operation saw, or was overtaken, and a session has one such callback.
  `WorkIsReserved` needs both;
* `Synced`: the binding an operation looked up is still the stored one while its
  verdict depends on it. Only three steps write the binding, each under the
  reservation and through `replace`, and each writes an account that the file had
  already or that it was verified for: this is `AccountIsKept`;
* `Honest`: a record of readiness claims no more than the binding supports
  (`Backed`), is being checked only under a reservation, and is what its operation
  put there (`Shown`). It holds as long as no timer overtook a completion (section
  6), and the invariant says so and no more: the other parts hold also after that.

That `Readiness` compares the record's credentials with the store is all that is
needed against foreign writes: `ReadyIsVerified` follows from `Honest` for any store.

**`HlsItemLifecycleProofs`.** `ItemTypeCorrect`, `ItemMediaExist` and
`ItemFilesAreOwned` state the type and both properties of `hls_item_lifecycle`, for
any number of sessions, failing saves and crashes. Each property is one conjunct of
the invariant with its antecedent widened, and needs most of the others:

* `StoreOK`: the live, visible and saved version of the task follow one another in
  this order, as plan, playable or ended task, and are one while persistence is
  available. `Became` says what any sequence of saves, kept, rolled back or
  rejected, does to the three; a retried save may publish what an earlier one left;
* `DueIsDead`: a session whose files somebody is about to remove (a removal, a
  cancellation, a pending cleanup, a worker that discards its fill) is used by none
  of the three versions, and no later version can take it back. So a removal never
  takes the media of an offered item, and neither a crash nor a restart between the
  save and the removal can offer it again;
* `Media`: any version that records a session as complete, not only the visible one,
  has its media. A restart may load each of them, so `OfferedMediaExists` alone is
  not inductive;
* `Scanning`: what a quota pass listed, against what has happened since. A session
  listed as partial that completed meanwhile is `unsaved` or in the worker's hands;
  one listed as completed and not as stable is not used by the live playable task;
* `HeldIsTracked` and `Removing`: files, or a fill that is about to make some, are
  tracked by a record that a crash does not lose; a cleanup under an item's key has
  the item, or the item is retired and empty;
* `Fresh`, `Filling`, `Quiescent`: nothing is filled before the plan is visible, one
  session is filled at a time, and activities that are over hold nothing.

Each action has a lemma or two: what it does to the three versions, and what to
files and owners; `TablesMove`, `RecordsMove`, `FilesMove` and `RemovalMoves` carry
the invariant over steps of these shapes. The attempt showed that `outdated` was
kept wrongly: a removal and a restart forgot it, and with two failing saves TLC finds
a session that is recorded as complete and has no media for the same reason (section
6, c). It is now forgotten only by a fill that completes; the run's single failure
could not tell the difference.

## 5. What is only model-checked

* Liveness (`SchedulerProgress`, `RemovalEnds`, `TasksEnd`, `ReservationEnds`): the
  prover handles neither fairness nor ENABLED.
* `ExtentsMatchReference`: that the extent algorithms agree with their reference on
  sets of bytes. The proofs need, and show, parts of it (what the gaps and a merge
  cover, that chunks stay within the resource), not the agreement of every plan.
* `ResolutionIsSound`, and what `PlaybackIsFaithful` and `OutputIsAccountedFor` say of
  pure algorithms (muxing plans, playlists, limits): recursive operators over
  sequences, for which the provers have no induction.
* The other properties of `components` (`HistoryIsSound`, `LibraryIsStable`,
  `ServingIsSound`, `NothingStaleIsUsed`): each is a conjunction over several
  instances and no theorem of one module states it. They are checked on the instances
  only.

## 6. Where code and documentation disagree

**The quota is not a cap.** `docs/architecture/cache-server.md:97` says that partial
files, dirty writes and outstanding reservations share the media budget and that a
nonzero `Cache:HlsCacheMaxBytes` caps range admission. `ensure_range_span` measures
usage and length (`hls_cache.rs:4468-4471`) before `reserve` takes the lock
(`hls_range_cache.rs:464-545`). If another span reserves, writes and releases in
between, its bytes are in neither number, and the reservation is granted beyond
the quota. `range_quota_cap` shows it; `OnlyStaleUsageOversubscribes` in
`server_state` shows that this is the only way, and `QuotaHoldsOnCurrentUsage` proves it.

**A claimed commit can lose its reservation.** The journal
(`docs/project_journal/2026/10/2026-10-08-server-credential-lifecycle-b46382.md:41`)
says that a persistence operation that has claimed ownership "must finish or fail
and release the profile reservation". `expire_sessions` and
`expire_browser_completion` leave a claimed commit alone, but `expire_session`
(`bilibili_login.rs:604`), which the timer of a browser login calls, looks only at
the session being pending. If the callback claims just before the 180 s are over,
the timer expires the session and frees the profile while the worker writes;
`bilibili_login_claim` shows it. The worker's own comparison still protects the
files, but its result is no longer recorded: the session says expired although
the key was saved, and after a failed write the key stays "checking". The other
properties of readiness are stated for states without such a session
(`Overtaken = {}`), and hold there.

What follows has no run of its own. Where a model has such a state, its properties
say so (a history variable or an excepted case) instead of leaving it out.

* (a) `cache-server.md:96`, "Restart and preemption resume missing extents.": after
  a crash between the creation of the data file and the first checkpoint
  (`hls_cache.rs:2612-2657`) every load finds "manifest-missing-data-present"
  (3620-3630), and the resource is never resumed.
* (b) `cache-server.md:127`, "every later maintenance pass retries that bounded set":
  a second cancellation of the task records an empty set over the pending one
  (`lib.rs:352-385`, 1827-1868). `lost` in `HlsItemLifecycle`.
* (c) The comment at `grpc_services.rs:4927-4928` and the eviction of a session that
  was listed as partial and completed meanwhile (`lib.rs:2791-2839`). `outdated` in
  `HlsItemLifecycle`.
* (d) `update_bilibili_cache_fill_status` (`task_output.rs:131-158`) changes a result
  without `validate_collection_sizes`; an output that grows beyond a limit that way
  is saved, but refused by the next load and by the page listing. `grown` in
  `OutputLimits`.
* (e) 256 hosts and 512 representations (`cdn_history.rs:21-22`) can encode to more
  than the 192 KiB that may be written; saves then fail until entries expire. Pruning
  to the newest may drop a quarantined origin early.
* (f) A collection that shrinks during the prefix search can be answered as complete
  with a count it never had (`bbdown_adapter.rs:1853-1888`).
* (g) The sessions to clean up are read from the visible task
  (`task_registry.rs:4348`), so a planner that is dropped while a save is pending
  leaves its registered session until the next start.
* (h) A legacy download whose validation fails leaves its media in the library, and
  one whose archive cannot be saved leaves it although the task fails
  (`bbdown_adapter.rs:687-690`).
* (i) A prefix is renamed before its metadata is written: two prefixes of the same
  length from mirrors that disagree can be described by the older metadata. A shorter
  answer for a larger target also replaces a longer prefix (`hls_cache.rs:1634-1641`,
  5880-5903). `PrefixIsOneFile` therefore speaks of totals, lengths and the init section,
  not of every byte. The probe of a playlist does not compare the declared size, the
  prefetch does.
* (j) `media_response` ignores If-Range, and dates are compared by the second.
* (k) Two concurrent playback reports may be recorded in either order.
* (l) The copy of a resource checks only the size of its source: an overwrite in place
  during the copy gives a mixed body (`task_registry.rs:318-391`).
* (m) A run that fails to bind returns without stopping the fill worker or writing the
  CDN history (`lib.rs:3515-3518`): what a resumed fill measured meanwhile is lost.
  `StopIsOrderly` speaks of runs that served. Of these it excepts two kinds: a history
  whose file could not be read has no path and is never written (`cdn_history.rs:192-212`),
  and the error of the last write is dropped (`cdn_history.rs:287-290`), so that what was
  measured since the last successful write is lost and the run still reports success.
  What requests measure between the last write and the return is not stored either.
* (n) A request during which the publication gate changes eight times is answered as if
  the library were empty: an empty page, a count of 0, no item, no file
  (`library.rs:450`, 459, 473, 494, 580). Nothing tells the client that the answer is
  not the library. `AnswersHonourGate` allows a page that misses present media in
  this case only; a deletion in the same situation is refused with an error.
* `set_state` makes an expired login pending again when a poll answers late; the next
  look expires it, and `EndedStaysEnded` allows exactly this. When the Web check
  failed and the binding file cannot be read, the key is reported ready without a
  comparison of accounts; `ReadyIsVerified` therefore speaks of keys in profiles whose
  Web level is ready or missing.

## 7. What is not modelled

Text formats (JSON, proto, HTML, playlists beyond their segments), field by field
validation and conversion, child processes, Bonjour, configuration parsing, thumbnails
and titles, HTTP headers and the serving of library files: one nondeterministic
outcome where it matters, otherwise nothing. Of the registry: the mode without a
store, the pruning of old terminal tasks (in `TaskOutputs`), and
`fail_playback_task_after_cache_restore` (`task_registry.rs:3560-3602`) and
`fail_completed_playback_task_after_cache_restore` (3604-3647), which nothing but a
test calls; what they would do, a failed end for a served playback, is among what
`EndsAreKept` allows. Of the login: the limit on session records and their eviction, the lock and
format of the binding file, the HTTP routes and pages. The Swift clients. The core
library of BBDown and ffmpeg are external. The map names 30 % of the implementation's
lines; see `components` in `PROJECT.json` for every part.

## 8. What could follow

1. Proofs of `MediaLibrary` (a deletion is alone and durable), of the writer of
   `CdnHistory` and of `HlsServing`, and with them the properties of `components` that
   name these modules.
2. `ExtentsMatchReference` for every list of extents: the plans of chunks and of the
   first compaction have no proof yet.
3. The task view model of the Swift client: snapshot, watch and reconnection against
   `TaskRegistry`'s stream.
