-------------------------- MODULE HlsItemLifecycle --------------------------
(***************************************************************************)
(* The life of the HLS sessions of one Bilibili playback task, from the plan *)
(* that publishes them to the deletion of their files.  It composes what the *)
(* other modules take one by one: the task registry with its live, visible   *)
(* and persisted tables (task_registry.rs), the runtime sessions that are    *)
(* served (AppState in lib.rs), the session directories (hls_cache.rs), the  *)
(* fill worker (grpc_services.rs), eviction, deletion, cancellation, pending *)
(* cleanups, and the startup that rebuilds all of it after a crash.          *)
(*                                                                          *)
(* Three locks of AppState order them: hls_task_lifecycle_lock (L),          *)
(* hls_cache_quota_enforcement_lock (Q) and completed_hls_deletion_lock (D), *)
(* taken in that order.  A section that holds them to its end is one action; *)
(* `removal' and `evictor' are the two holders that a crash, or the steps of *)
(* others, can come between.                                                 *)
(***************************************************************************)
EXTENDS Naturals, FiniteSets

CONSTANTS
    Sessions,    \* the sessions of the task
    Primary,     \* the session of the task itself
    Items,       \* the sessions that have a result item ({} for a single video)
    MaxFaults,   \* bound on saves, file operations and fills that fail
    MaxCrashes   \* bound on restarts

ASSUME LifecycleAssumption ==
    /\ Primary \in Sessions
    /\ Items \in {{}, Sessions}
    /\ Items = {} => Sessions = {Primary}
    /\ MaxFaults \in Nat
    /\ MaxCrashes \in Nat

VARIABLES
    store,      \* the task in tasks_by_id, visible_tasks_by_id and the state
                \* file a crash would find, and persistence_available
    cache,      \* the session directory: no manifest, manifest, all media
    runtime,    \* hls_sessions: how each session is served
    retired,    \* sessions whose removal was committed (hls_range_cache)
    queued,     \* sessions waiting in the fill scheduler
    current,    \* the session the fill worker runs, a set of at most one
    revoked,    \* the token of that job was cancelled
    worker,     \* where the fill worker is, and the outcome it carries
    planner,    \* where the planning of the task is
    deleter,    \* where delete_completed_hls_library_item is
    canceller,  \* where cancel_task is
    evictor,    \* a quota pass: what it scanned and what it spares
    removal,    \* a committed removal whose files are still to be deleted
    pending,    \* pending_hls_session_cleanups: key -> sessions
    reader,     \* sessions with active range work of a client
    lease,      \* hls_cache_playback_leases
    startup,    \* finalizers to resume, quarantined and finalizer-owned sessions
    unsaved,    \* history: complete sessions whose task was not saved yet
    outdated,   \* history: those of them evicted as partial ones and not
                \* completed again
    lost,       \* history: sessions whose files a request stopped tracking: it
                \* declared them missing, or repeated a cancellation
    faults, crashes

cacheVars == <<cache, runtime, retired, pending, unsaved, outdated, lost>>
fillVars  == <<queued, current, revoked, worker>>
vars == <<store, cacheVars, fillVars, planner, deleter, canceller, evictor,
          removal, reader, lease, startup, faults, crashes>>

TaskStates == {"Preparing", "CancelRequested", "Playable", "Completed", "Ended", "Gone"}

Task == [state : TaskStates, item : [Sessions -> {"none", "playable", "completed"}],
         failed : SUBSET Sessions]

Outcomes == {"Finished", "Preempted", "PersistencePending", "Retry", "Failed"}

Keys == [kind : {"item", "task", "session"}, of : Sessions]

NoRemoval == [by |-> "nobody", key |-> [kind |-> "task", of |-> Primary], sessions |-> {}]

NoScan == [pc |-> "idle", completed |-> {}, partial |-> {}, spared |-> {}, stable |-> {}]

NoStartup == [resume |-> {}, quarantined |-> {}, owned |-> {}]

TypeOK ==
    /\ store \in [reg : Task, vis : Task, disk : Task, avail : BOOLEAN]
    /\ cache \in [Sessions -> {"absent", "partial", "completed"}]
    /\ runtime \in [Sessions -> {"none", "online", "local"}]
    /\ retired \in SUBSET Sessions
    /\ queued \in SUBSET Sessions
    /\ current \in SUBSET Sessions
    /\ revoked \in BOOLEAN
    /\ worker \in [pc : {"idle", "start", "protect", "fill", "publish", "settle",
                         "discard", "decide", "finish"},
                   outcome : Outcomes]
    /\ planner \in {"planning", "abandoning", "done"}
    /\ deleter \in [pc : {"idle", "waiting"}, item : Sessions, sessions : SUBSET Sessions]
    /\ canceller \in [pc : {"idle", "draining", "removing"}, todo : SUBSET Sessions,
                      failed : SUBSET Sessions]
    /\ evictor \in [pc : {"idle", "scan"}, completed : SUBSET Sessions,
                    partial : SUBSET Sessions, spared : SUBSET Sessions,
                    stable : SUBSET Sessions]
    /\ removal \in [by : {"nobody", "deleter", "evictor"}, key : Keys,
                    sessions : SUBSET Sessions]
    /\ pending \in [Keys -> SUBSET Sessions]
    /\ reader \in SUBSET Sessions
    /\ lease \in SUBSET Sessions
    /\ startup \in [resume : SUBSET Sessions, quarantined : SUBSET Sessions,
                    owned : SUBSET Sessions]
    /\ unsaved \in SUBSET Sessions
    /\ outdated \in SUBSET Sessions
    /\ lost \in SUBSET Sessions
    /\ faults \in 0 .. MaxFaults
    /\ crashes \in 0 .. MaxCrashes
    /\ worker.pc = "idle" <=> current = {}

NewTask == [state |-> "Preparing", item |-> [s \in Sessions |-> "none"], failed |-> {}]

Init ==
    /\ store = [reg |-> NewTask, vis |-> NewTask, disk |-> NewTask, avail |-> TRUE]
    /\ cache = [s \in Sessions |-> "absent"]
    /\ runtime = [s \in Sessions |-> "none"]
    /\ retired = {}
    /\ queued = {} /\ current = {} /\ revoked = FALSE
    /\ worker = [pc |-> "idle", outcome |-> "Finished"]
    /\ planner = "planning"
    /\ deleter = [pc |-> "idle", item |-> Primary, sessions |-> {}]
    /\ canceller = [pc |-> "idle", todo |-> {}, failed |-> {}]
    /\ evictor = NoScan
    /\ removal = NoRemoval
    /\ pending = [k \in Keys |-> {}]
    /\ reader = {} /\ lease = {}
    /\ startup = NoStartup
    /\ unsaved = {} /\ outdated = {} /\ lost = {}
    /\ faults = 0 /\ crashes = 0

-----------------------------------------------------------------------------
(* What a task says about its sessions.                                     *)

Ready(t) == t.state \in {"Playable", "Completed"}

\* task_uses_hls_session: as the session of the task or of a result item.
Uses(t, s) == \/ s = Primary /\ Ready(t)
              \/ t.item[s] # "none"

HlsSessions(t) == {s \in Sessions : Uses(t, s)}

\* task_has_playable_hls_session
PlayableSession(t, s) ==
    \/ t.state = "Playable" /\ Uses(t, s)
    \/ t.state = "Completed" /\ t.item[s] # "none"

\* playback_task_has_completed_hls_cache_item
CompletedItem(t, s) ==
    \/ s = Primary /\ t.state = "Completed"
    \/ t.item[s] = "completed"

\* A completed item that is not the one of the task itself.
SecondaryItem(t, s) == t.item[s] = "completed" /\ ~(s = Primary /\ t.state = "Completed")

\* hls_session_publication_state
Publication(s) ==
    IF PlayableSession(store.vis, s) THEN "Published"
    ELSE IF PlayableSession(store.reg, s) \/ (~store.avail /\ CompletedItem(store.reg, s))
         THEN "Pending" ELSE "Absent"

EndedTask(t) == [t EXCEPT !.state = "Ended", !.item = [s \in Sessions |-> "none"]]

PlayableTask(t) ==
    [t EXCEPT !.state = "Playable",
              !.item = [s \in Sessions |-> IF s \in Items THEN "playable" ELSE "none"]]

\* complete_playback_hls_session_cached_inner, for a session of the task.
CompletedTask(t, s) ==
    [t EXCEPT !.state = IF s = Primary THEN "Completed" ELSE t.state,
              !.item[s] = IF @ # "none" THEN "completed" ELSE @]

\* remove_completed_playback_task: the whole task with its own item, or one item.
RemovedTask(t, s) ==
    IF s = Primary /\ t.state = "Completed" THEN [EndedTask(t) EXCEPT !.state = "Gone"]
    ELSE [t EXCEPT !.item[s] = "none"]

\* The session, or the whole task, cannot be restored from the cache.
UnrestorableTask(t, s) ==
    IF s = Primary THEN EndedTask(t) ELSE [t EXCEPT !.item[s] = "none"]

-----------------------------------------------------------------------------
(* Saving the registry.  `keep' leaves a rejected change in the live table,  *)
(* `restore' takes it back, and `destructive' also takes back a change that  *)
(* was installed but not synced, of which a crash may find either version.   *)

Durable(b, new) == [reg |-> new, vis |-> new, disk |-> new, avail |-> TRUE]

FailedSaves(b, new, policy) ==
    {[b EXCEPT !.reg = IF policy = "keep" THEN new ELSE b.reg, !.avail = FALSE]}
    \cup {IF policy = "destructive"
          THEN [b EXCEPT !.disk = d, !.avail = FALSE]
          ELSE [reg |-> new, vis |-> new, disk |-> d, avail |-> FALSE] : d \in {b.disk, new}}

Saves(b, new, policy) ==
    {[ok |-> TRUE, store |-> Durable(b, new)]}
    \cup {[ok |-> FALSE, store |-> f] : f \in
            IF faults < MaxFaults THEN FailedSaves(b, new, policy) ELSE {}}

\* retry_pending_persistence, where persistence is unavailable.
Recoveries ==
    IF store.avail THEN {[ok |-> TRUE, store |-> store]}
    ELSE Saves(store, store.reg, "keep")

\* Persist what is pending first, and only then the change.
SavesOnceDurable(new, policy) ==
    UNION {IF r.ok THEN Saves(r.store, new, policy) ELSE {r} : r \in Recoveries}

Saved(o) ==
    /\ store' = o.store
    /\ faults' = IF o.ok \/ o.store = store THEN faults ELSE faults + 1

Fault == faults < MaxFaults /\ faults' = faults + 1

-----------------------------------------------------------------------------
(* Locks.                                                                   *)

LFree == removal.by # "deleter"
DFree == removal.by = "nobody"
QFree == evictor.pc = "idle" /\ removal.by = "nobody"

\* hls_cache_eviction_protected_session_ids: held by the worker from
\* protect_hls_cache_session_from_eviction to the end of the attempt.
Protected == IF worker.pc \in {"fill", "publish", "settle", "discard"} THEN current ELSE {}

\* The outcomes of removing the directories of S: the sessions that failed are
\* the ones with active work and, by a fault, others.
Removals(S) == IF faults < MaxFaults
               THEN {F \in SUBSET S : S \cap reader \subseteq F}
               ELSE {S \cap reader}

StopServing(S) == runtime' = [s \in Sessions |-> IF s \in S THEN "none" ELSE runtime[s]]

RemoveDirectories(S, F) ==
    /\ cache' = [s \in Sessions |-> IF s \in S \ F THEN "absent" ELSE cache[s]]
    /\ retired' = retired \cup (S \ F)
    /\ unsaved' = unsaved \ (S \ F)
    /\ UNCHANGED outdated
    /\ lost' = lost \ (S \ F)
    /\ faults' = IF F \subseteq reader THEN faults ELSE faults + 1

-----------------------------------------------------------------------------
(* Planning: publish_explicit_bilibili_hls_result for each result, then      *)
(* complete_explicit_bilibili_playback (or publish_single_bilibili_hls_      *)
(* playback), or else complete_playback_planning_terminal.                   *)

\* The manifest is saved unless that fails; the session is served either way.
SaveManifest(S) ==
    /\ runtime' = [s \in Sessions |-> IF s \in S THEN "online" ELSE runtime[s]]
    /\ \/ cache' = [s \in Sessions |-> IF s \in S /\ cache[s] = "absent"
                                       THEN "partial" ELSE cache[s]]
       \/ faults < MaxFaults /\ cache' = cache

PlanResult(s) ==
    /\ planner = "planning"
    /\ s \in Items
    /\ store.vis.state = "Preparing"
    /\ store.reg.state = "Preparing" /\ store.reg.item[s] = "none"
    /\ LFree /\ DFree
    /\ SaveManifest({s})
    /\ \E o \in Saves(store, [store.reg EXCEPT !.item[s] = "playable"], "keep") :
          /\ store' = o.store
          /\ faults' = IF o.ok /\ cache'[s] # "absent" THEN faults ELSE faults + 1
    /\ UNCHANGED <<retired, pending, unsaved, outdated, lost, fillVars, planner, deleter, canceller,
                   evictor, removal, reader, lease, startup, crashes>>

\* The task becomes playable and its sessions are enqueued under L.
PlanComplete ==
    /\ planner = "planning"
    /\ LFree
    /\ store.vis.state = "Preparing" /\ store.reg.state = "Preparing"
    /\ \A s \in Items : store.reg.item[s] # "none"
    /\ SaveManifest(Sessions \ Items)
    /\ \E o \in Saves(store, PlayableTask(store.reg), "keep") :
          /\ store' = o.store
          /\ faults' = IF o.ok /\ \A s \in Sessions \ Items : cache'[s] # "absent"
                       THEN faults ELSE faults + 1
    /\ queued' = queued \cup Sessions
    /\ planner' = "done"
    /\ UNCHANGED <<retired, pending, unsaved, outdated, lost, current, revoked, worker, deleter,
                   canceller, evictor, removal, reader, lease, startup, crashes>>

\* Planning fails or finds itself cancelled: the task ends first, durably.
PlanAbandon ==
    /\ planner \in {"planning", "abandoning"}
    /\ \E o \in (IF store.reg.state \in {"Ended", "Gone"} THEN Recoveries
                 ELSE Saves(store, EndedTask(store.reg), "keep")) :
          /\ Saved(o)
          /\ planner' = "abandoning"
    /\ UNCHANGED <<cacheVars, fillVars, deleter, canceller, evictor, removal, reader,
                   lease, startup, crashes>>

PlanCleanUp ==
    /\ planner = "abandoning"
    /\ store.avail /\ store.reg.state \in {"Ended", "Gone"}
    /\ DFree
    /\ \E F \in Removals(Sessions) :
          /\ RemoveDirectories(Sessions, F)
          /\ StopServing(Sessions)
          /\ pending' = [k \in Keys |-> IF k.kind = "session" THEN F \cap {k.of}
                                        ELSE pending[k]]
    /\ planner' = "done"
    /\ UNCHANGED <<store, fillVars, deleter, canceller, evictor, removal, reader, lease,
                   startup, crashes>>

-----------------------------------------------------------------------------
(* The fill worker: run_hls_cache_fill_worker, run_hls_cache_finalization_   *)
(* inner and publish_completed_hls_cache_blocking.                           *)

Goes(pc) == worker' = [worker EXCEPT !.pc = pc]
Ends(outcome) == worker' = [pc |-> "decide", outcome |-> outcome]

Take(s) ==
    /\ worker.pc = "idle"
    /\ s \in queued
    /\ queued' = queued \ {s}
    /\ current' = {s}
    /\ revoked' = FALSE
    /\ Goes("start")
    /\ UNCHANGED <<store, cacheVars, planner, deleter, canceller, evictor, removal, reader,
                   lease, startup, faults, crashes>>

\* update_hls_cache_fill_status: the outcomes of setting `failed' for s.  It
\* ignores a session the task does not offer and rejects a task that is gone.
StatusSaves(b, s, failed) ==
    LET t == IF failed THEN [b.reg EXCEPT !.failed = @ \cup {s}]
                       ELSE [b.reg EXCEPT !.failed = @ \ {s}]
    IN  IF Ready(t) /\ Uses(t, s) /\ t # b.reg THEN Saves(b, t, "restore")
        ELSE {[ok |-> t.state # "Gone", store |-> b]}

\* The fill status is recorded, then the publication of s decides.
Admit ==
    /\ worker.pc = "start"
    /\ \E s \in current, r \in Recoveries :
          \/ /\ ~r.ok
             /\ Saved(r)
             /\ Ends("PersistencePending")
          \/ /\ r.ok
             /\ ~(Ready(r.store.reg) /\ Uses(r.store.reg, s))
             /\ Saved(r)
             /\ Ends("Finished")
          \/ /\ r.ok
             /\ Ready(r.store.reg) /\ Uses(r.store.reg, s)
             /\ \E o \in StatusSaves(r.store, s, FALSE) :
                   /\ Saved(o)
                   /\ IF ~o.ok THEN Ends("PersistencePending")
                      ELSE IF ~revoked /\ PlayableSession(o.store.vis, s) THEN Goes("protect")
                      ELSE Ends("Finished")
    /\ UNCHANGED <<cacheVars, queued, current, revoked, planner, deleter, canceller,
                   evictor, removal, reader, lease, startup, crashes>>

\* The control closure: cancelled, or no longer published.
Cancelled(s) == revoked \/ Publication(s) # "Published"

\* Register the eviction protection under D, then look before filling.
Protect ==
    /\ worker.pc = "protect"
    /\ DFree
    /\ \E s \in current :
          \/ Cancelled(s) /\ Ends("Finished")
          \/ ~Cancelled(s) /\ Goes(IF cache[s] = "completed" THEN "publish" ELSE "fill")
    /\ UNCHANGED <<store, cacheVars, queued, current, revoked, planner, deleter, canceller,
                   evictor, removal, reader, lease, startup, faults, crashes>>

\* All media arrived; the last commit is refused for a retired session.
FillCompletes ==
    /\ worker.pc = "fill"
    /\ \E s \in current :
          /\ s \notin retired
          /\ cache' = [cache EXCEPT ![s] = "completed"]
          /\ outdated' = outdated \ {s}
    /\ Goes("publish")
    /\ UNCHANGED <<store, runtime, retired, pending, unsaved, lost, queued, current, revoked, planner,
                   deleter, canceller, evictor, removal, reader, lease, startup, faults,
                   crashes>>

\* The control said Cancel: the directory goes, without a removal guard.
FillCancelled ==
    /\ worker.pc = "fill"
    /\ \E s \in current :
          /\ Cancelled(s)
          /\ cache' = [cache EXCEPT ![s] = "absent"]
    /\ Ends("Finished")
    /\ UNCHANGED <<store, runtime, retired, pending, unsaved, outdated, lost, queued, current, revoked, planner,
                   deleter, canceller, evictor, removal, reader, lease, startup, faults,
                   crashes>>

\* The fill ends early: preempted by newer playback, to be retried (network,
\* quota, disk), or for good (source gone, unsafe answer).  A retired session,
\* or one that is not published any more, has nothing left to do.
FillStops(outcome) ==
    /\ worker.pc = "fill"
    /\ \E s \in current :
          \/ outcome = "Preempted" /\ Ends("Preempted") /\ UNCHANGED <<store, faults>>
          \/ /\ outcome = "Retry" /\ Publication(s) = "Published"
             /\ Ends("Retry") /\ Fault /\ UNCHANGED store
          \/ /\ outcome = "Failed" /\ Publication(s) = "Published"
             /\ faults < MaxFaults /\ faults' = faults + 1
             /\ \E o \in StatusSaves(store, s, TRUE) :
                   store' = o.store /\ Ends(IF o.ok THEN "Failed" ELSE "PersistencePending")
          \/ /\ outcome = "Finished" /\ (s \in retired \/ Publication(s) # "Published")
             /\ Ends("Finished") /\ UNCHANGED <<store, faults>>
    /\ UNCHANGED <<cacheVars, queued, current, revoked, planner, deleter, canceller,
                   evictor, removal, reader, lease, startup, crashes>>

\* complete_playback_hls_session_cached_inner on the table t: nothing to do for
\* an ended task, an error for a task that does not know the session.
Completable(t, s) == Ready(t) /\ (t.state = "Completed" => t.item[s] # "none") /\ Uses(t, s)

CompletionSaves(b, s) ==
    UNION {IF r.ok /\ Completable(r.store.reg, s)
           THEN Saves(r.store, CompletedTask(r.store.reg, s), "keep") ELSE {r} :
           r \in IF b.avail THEN {[ok |-> TRUE, store |-> b]} ELSE Saves(b, b.reg, "keep")}

\* Under D: serve the local files, record the status, complete the item.  A
\* save that is not durable leaves that to a retry.
Publish ==
    /\ worker.pc = "publish"
    /\ DFree
    /\ \E s \in current :
          \/ /\ cache[s] # "completed"
             /\ Ends("PersistencePending")
             /\ UNCHANGED <<store, runtime, unsaved, faults>>
          \/ /\ cache[s] = "completed"
             /\ runtime' = [runtime EXCEPT ![s] = "local"]
             /\ \E r \in StatusSaves(store, s, FALSE) :
                \E o \in IF r.ok THEN CompletionSaves(r.store, s) ELSE {r} :
                   /\ Saved(o)
                   /\ unsaved' = IF o.ok THEN unsaved \ {s} ELSE unsaved \cup {s}
                   /\ IF ~o.ok THEN Ends("PersistencePending")
                      ELSE Goes(IF CompletedItem(o.store.reg, s) THEN "settle" ELSE "discard")
    /\ UNCHANGED <<cache, retired, pending, outdated, lost, queued, current, revoked, planner,
                   deleter, canceller, evictor, removal, reader, lease, startup, crashes>>

Settle_WithoutQuota ==
    /\ worker.pc = "settle"
    /\ Ends("Finished")
    /\ UNCHANGED <<store, cacheVars, queued, current, revoked, planner, deleter, canceller,
                   evictor, removal, reader, lease, startup, faults, crashes>>

\* Finalized: a quota pass of its own, for which it needs Q, then the end.
Settle ==
    /\ worker.pc = "settle"
    /\ QFree
    /\ Ends("Finished")
    /\ UNCHANGED <<store, cacheVars, queued, current, revoked, planner, deleter, canceller,
                   evictor, removal, reader, lease, startup, faults, crashes>>

\* The task did not take the item: remove_task_hls_sessions, without D.
Discard ==
    /\ worker.pc = "discard"
    /\ \E F \in Removals(current) :
          /\ RemoveDirectories(current, F)
          /\ StopServing(current)
          /\ pending' = [k \in Keys |-> IF k.kind = "session" /\ k.of \in current THEN F
                                        ELSE pending[k]]
    /\ Ends("Finished")
    /\ UNCHANGED <<store, queued, current, revoked, planner, deleter, canceller, evictor,
                   removal, reader, lease, startup, crashes>>

\* The status of the outcome is recorded; if that fails the job is retried.
Decide ==
    /\ worker.pc = "decide"
    /\ \E s \in current :
          \/ /\ worker.outcome = "Finished"
             /\ Goes("finish")
             /\ UNCHANGED <<store, faults>>
          \/ /\ worker.outcome # "Finished"
             /\ \E o \in StatusSaves(store, s, worker.outcome = "Failed") :
                   /\ Saved(o)
                   /\ worker' = [pc |-> "finish",
                                 outcome |-> IF o.ok THEN worker.outcome
                                             ELSE "PersistencePending"]
    /\ UNCHANGED <<cacheVars, queued, current, revoked, planner, deleter, canceller,
                   evictor, removal, reader, lease, startup, crashes>>

\* hls_cache_fill_should_requeue
ShouldRequeue(s) ==
    \/ worker.outcome = "Preempted" /\ Publication(s) = "Published"
    \/ worker.outcome \in {"PersistencePending", "Retry"} /\ Publication(s) # "Absent"

\* finish_current, after the delay of a retry.
Finish ==
    /\ worker.pc = "finish"
    /\ queued' = queued \cup {s \in current : ShouldRequeue(s) /\ ~revoked}
    /\ current' = {}
    /\ revoked' = FALSE
    /\ worker' = [pc |-> "idle", outcome |-> "Finished"]
    /\ UNCHANGED <<store, cacheVars, planner, deleter, canceller, evictor, removal, reader,
                   lease, startup, faults, crashes>>

-----------------------------------------------------------------------------
(* Deletion of a library item: delete_completed_hls_library_item.            *)

CancelFills(S) ==
    /\ queued' = queued \ S
    /\ revoked' = (revoked \/ current \cap S # {})
    /\ UNCHANGED <<current, worker>>

\* completed_hls_delete_session_ids: with the task's own item all of its
\* sessions go, else the one session.
Group(t, s) == IF t.state = "Completed" /\ Uses(t, s) /\ ~SecondaryItem(t, s)
               THEN HlsSessions(t) ELSE {s}

\* The item is the task's and its files are complete.
AuthorizedItem(t, s) ==
    /\ s \notin startup.quarantined
    /\ Ready(t) /\ Uses(t, s) /\ CompletedItem(t, s)
    /\ cache[s] = "completed"

DeletionReturns == deleter' = [deleter EXCEPT !.pc = "idle", !.sessions = {}]

\* The fill of a session to delete still runs: it is told to stop, and the
\* locks are given up until it has.
DeletionWaits(s, S) ==
    /\ current \cap S # {}
    /\ deleter' = [pc |-> "waiting", item |-> s, sessions |-> S]
    /\ UNCHANGED removal

DeletionCommits(s, S) ==
    /\ current \cap S = {}
    /\ removal' = [by |-> "deleter", key |-> [kind |-> "item", of |-> s], sessions |-> S]
    /\ DeletionReturns

\* One turn of the loop, under L, Q and D, on a registry made durable first.
DeleteTurn(s) ==
    /\ LFree /\ QFree /\ DFree
    /\ \E r \in Recoveries :
       LET t == r.store.vis
           retried == pending[[kind |-> "item", of |-> s]]
           orphaned == cache[s] = "completed" /\ ~(Ready(t) /\ Uses(t, s))
       IN \/ /\ ~r.ok
             /\ Saved(r) /\ DeletionReturns
             /\ UNCHANGED <<runtime, fillVars, removal>>
          \/ /\ r.ok /\ retried # {}
             /\ Saved(r) /\ CancelFills(retried)
             /\ DeletionWaits(s, retried) \/ DeletionCommits(s, retried)
             /\ UNCHANGED runtime
          \/ /\ r.ok /\ retried = {} /\ ~AuthorizedItem(t, s) /\ ~orphaned
             /\ Saved(r) /\ DeletionReturns
             /\ UNCHANGED <<runtime, fillVars, removal>>
          \/ /\ r.ok /\ retried = {} /\ ~AuthorizedItem(t, s) /\ orphaned
             /\ Saved(r) /\ CancelFills({s})
             /\ DeletionWaits(s, {s}) \/ DeletionCommits(s, {s})
             /\ UNCHANGED runtime
          \/ /\ r.ok /\ retried = {} /\ AuthorizedItem(t, s)
             /\ runtime' = [runtime EXCEPT ![s] = IF @ = "none" THEN "local" ELSE @]
             /\ CancelFills(Group(t, s))
             /\ \/ Saved(r) /\ DeletionWaits(s, Group(t, s))
                \/ /\ current \cap Group(t, s) = {}
                   /\ \E o \in Saves(r.store, RemovedTask(r.store.reg, s), "destructive") :
                        /\ Saved(o)
                        /\ \/ o.ok /\ DeletionCommits(s, Group(t, s))
                           \/ ~o.ok /\ DeletionReturns /\ UNCHANGED removal
    /\ UNCHANGED <<cache, retired, pending, unsaved, outdated, lost, planner, canceller, evictor, reader,
                   lease, startup, crashes>>

DeleteItem(s) == deleter.pc = "idle" /\ DeleteTurn(s)

DeleteAgain ==
    /\ deleter.pc = "waiting"
    /\ current \cap deleter.sessions = {}
    /\ DeleteTurn(deleter.item)

RemoveFiles_Untracked ==
    /\ removal.by # "nobody"
    /\ \E F \in Removals(removal.sessions) :
          /\ RemoveDirectories(removal.sessions, F)
          /\ StopServing(removal.sessions \ F)
          /\ evictor' = IF removal.by = "evictor" /\ F # {} THEN NoScan ELSE evictor
    /\ removal' = NoRemoval
    /\ UNCHANGED <<store, pending, fillVars, planner, deleter, canceller, reader, lease,
                   startup, crashes>>

\* remove_hls_sessions_tracking_failures, or the loop of the quota pass, which
\* stops at a failure: the second half of a committed removal.
RemoveFiles ==
    /\ removal.by # "nobody"
    /\ \E F \in Removals(removal.sessions) :
          /\ RemoveDirectories(removal.sessions, F)
          /\ StopServing(removal.sessions \ F)
          /\ pending' = [pending EXCEPT ![removal.key] = F]
          /\ evictor' = IF removal.by = "evictor" /\ F # {} THEN NoScan ELSE evictor
    /\ removal' = NoRemoval
    /\ UNCHANGED <<store, fillVars, planner, deleter, canceller, reader, lease, startup,
                   crashes>>

-----------------------------------------------------------------------------
(* Cancellation of the task: cancel_task.                                   *)

CancelTask ==
    /\ canceller.pc = "idle"
    /\ LFree
    /\ \E r \in Recoveries :
          \/ /\ ~r.ok \/ r.store.vis.state = "Gone"
             /\ Saved(r)
             /\ UNCHANGED <<fillVars, canceller>>
          \/ /\ r.ok /\ r.store.vis.state \in {"CancelRequested", "Completed", "Ended"}
             /\ Saved(r) /\ CancelFills(Sessions)
             /\ canceller' = IF r.store.vis.state = "Ended"
                             THEN [canceller EXCEPT !.pc = "draining"] ELSE canceller
          \/ /\ r.ok /\ r.store.vis.state = "Preparing"
             /\ \E o \in Saves(r.store, [r.store.reg EXCEPT !.state = "CancelRequested"], "keep") :
                   /\ Saved(o)
                   /\ IF o.store.vis.state = "CancelRequested" THEN CancelFills(Sessions)
                                                               ELSE UNCHANGED fillVars
             /\ UNCHANGED canceller
          \/ /\ r.ok /\ r.store.vis.state = "Playable"
             /\ \E o \in Saves(r.store, EndedTask(r.store.reg), "destructive") :
                   /\ Saved(o)
                   /\ \/ /\ o.ok
                         /\ CancelFills(Sessions)
                         /\ canceller' = [pc |-> "draining", failed |-> {},
                                          todo |-> HlsSessions(r.store.reg)]
                      \/ ~o.ok /\ UNCHANGED <<fillVars, canceller>>
    /\ UNCHANGED <<cacheVars, planner, deleter, evictor, removal, reader, lease, startup,
                   crashes>>

\* cancel_task_and_wait returns.
CancelDrained ==
    /\ canceller.pc = "draining"
    /\ current = {}
    /\ CancelFills(Sessions)
    /\ canceller' = [canceller EXCEPT !.pc = "removing"]
    /\ UNCHANGED <<store, cacheVars, planner, deleter, evictor, removal, reader, lease,
                   startup, faults, crashes>>

\* remove_task_hls_sessions_after_cancel: begin_session_removal waits for the
\* clients of s; no lock is held.
CancelRemoves(s) ==
    /\ canceller.pc = "removing"
    /\ s \in canceller.todo \ reader
    /\ \E F \in Removals({s}) :
          /\ RemoveDirectories({s}, F)
          /\ StopServing({s} \ F)
          /\ canceller' = [canceller EXCEPT !.todo = @ \ {s}, !.failed = @ \cup F]
    /\ UNCHANGED <<store, pending, fillVars, planner, deleter, evictor, removal, reader,
                   lease, startup, crashes>>

CancelReturns ==
    /\ canceller.pc = "removing" /\ canceller.todo = {}
    /\ pending' = [pending EXCEPT ![[kind |-> "task", of |-> Primary]] = canceller.failed]
    /\ lost' = lost \cup (pending[[kind |-> "task", of |-> Primary]] \ canceller.failed)
    /\ canceller' = [pc |-> "idle", todo |-> {}, failed |-> {}]
    /\ UNCHANGED <<store, cache, runtime, retired, unsaved, outdated, fillVars, planner, deleter,
                   evictor, removal, reader, lease, startup, faults, crashes>>

-----------------------------------------------------------------------------
(* A quota pass: enforce_hls_cache_quota_until_cancelled, under Q.          *)

\* protected_hls_cache_session_ids
TaskProtected(t) == CASE t.state = "Completed" -> {s \in Sessions \ {Primary} : t.item[s] # "none"}
                      [] t.state \in {"Ended", "Gone"} -> {}
                      [] OTHER -> HlsSessions(t)

\* Pending cleanups are retried under D, then the directories are listed.
EvictBegin ==
    /\ QFree
    /\ \E F \in Removals(UNION {pending[k] : k \in Keys}) :
       LET S == UNION {pending[k] : k \in Keys}
       IN  /\ RemoveDirectories(S, F)
           /\ StopServing(S \ F)
           /\ pending' = [k \in Keys |-> pending[k] \cap F]
           /\ evictor' = [pc |-> "scan",
                          completed |-> {s \in Sessions : cache'[s] = "completed"},
                          partial |-> {s \in Sessions : cache'[s] = "partial"},
                          spared |-> lease \cup F,
                          stable |-> lease \cup F \cup TaskProtected(store.vis)]
    /\ UNCHANGED <<store, fillVars, planner, deleter, canceller, removal, reader, lease,
                   startup, crashes>>

\* completed_hls_cache_entry_is_evictable
Evictable(e) ==
    \/ store.vis.state = "Completed" /\ Uses(store.vis, e)
    \/ store.avail

Spared(e) == IF store.vis.state = "Completed" /\ Uses(store.vis, e)
             THEN evictor.spared ELSE evictor.stable

\* A completed entry goes with its group: the task lets go of it durably, and
\* nobody works on any of it.
EvictCompleted(e) ==
    LET S == Group(store.vis, e)
        owned == Ready(store.vis) /\ Uses(store.vis, e)
                 /\ (store.vis.state = "Completed" \/ SecondaryItem(store.vis, e))
        c == IF SecondaryItem(store.vis, e) THEN e ELSE Primary
        known == \/ store.reg.state = "Completed" /\ Uses(store.reg, c) /\ CompletedItem(store.reg, c)
                 \/ store.reg.state = "Playable" /\ store.reg.item[c] = "completed"
        evict == [by |-> "evictor", key |-> [kind |-> "item", of |-> e], sessions |-> S]
        next == [evictor EXCEPT !.completed = @ \ S, !.partial = @ \ S]
    IN
    /\ evictor.pc = "scan"
    /\ e \in evictor.completed
    /\ DFree
    /\ S \cap (Spared(e) \cup Protected) = {}
    /\ Evictable(e)
    /\ S \cap reader = {}
    /\ \/ /\ ~owned
          /\ removal' = evict /\ evictor' = next
          /\ UNCHANGED <<store, faults>>
       \/ /\ owned /\ ~known
          /\ evictor' = NoScan
          /\ UNCHANGED <<removal, store, faults>>
       \/ /\ owned /\ known
          /\ \E o \in Saves(store, RemovedTask(store.reg, c), "destructive") :
                /\ Saved(o)
                /\ \/ o.ok /\ removal' = evict /\ evictor' = next
                   \/ ~o.ok /\ evictor' = NoScan /\ UNCHANGED removal
    /\ UNCHANGED <<cacheVars, fillVars, planner, deleter, canceller, reader, lease, startup,
                   crashes>>

\* The media of an entry that was listed as partial go, whatever it is by now.
EvictPartial(e) ==
    /\ evictor.pc = "scan"
    /\ e \in evictor.partial
    /\ DFree
    /\ e \notin evictor.spared \cup Protected \cup reader
    /\ cache' = [cache EXCEPT ![e] = IF @ = "completed" THEN "partial" ELSE @]
    /\ outdated' = IF cache[e] = "completed" /\ e \in unsaved THEN outdated \cup {e} ELSE outdated
    /\ evictor' = [evictor EXCEPT !.completed = {}, !.partial = @ \ {e}]
    /\ UNCHANGED <<store, runtime, retired, pending, unsaved, lost, fillVars, planner, deleter,
                   canceller, removal, reader, lease, startup, faults, crashes>>

\* Enough was freed, nothing else may go, or the caller lost interest.
EvictEnd ==
    /\ evictor.pc = "scan"
    /\ DFree
    /\ evictor' = NoScan
    /\ UNCHANGED <<store, cacheVars, fillVars, planner, deleter, canceller, removal, reader,
                   lease, startup, faults, crashes>>

-----------------------------------------------------------------------------
(* Clients: hls_playback_session_for_serving, then range work.              *)

\* A result item is served while its task is playable or completed, the session
\* of a single video only online or with its files.
Authorized(t, s) ==
    IF s \in Items THEN Ready(t) /\ t.item[s] # "none"
    ELSE t.state = "Playable" \/ (t.state = "Completed" /\ cache[s] = "completed")

Servable(s) == \/ Authorized(store.vis, s)
               \/ CompletedItem(store.vis, s) /\ Ready(store.vis) /\ runtime[s] # "none"

\* The runtime session, or the one its directory can restore.
Restored(s) == CASE runtime[s] # "none" -> runtime[s]
                 [] CompletedItem(store.vis, s) /\ cache[s] = "completed" -> "local"
                 [] ~CompletedItem(store.vis, s) /\ cache[s] # "absent" -> "online"
                 [] OTHER -> "none"

Serve(s) ==
    /\ QFree
    /\ s \notin startup.quarantined \cup reader
    /\ Servable(s) /\ Restored(s) # "none"
    /\ runtime' = [runtime EXCEPT ![s] = Restored(s)]
    /\ lease' = lease \cup {s}
    /\ reader' = IF s \in retired THEN reader ELSE reader \cup {s}
    /\ UNCHANGED <<store, cache, retired, pending, unsaved, outdated, lost, fillVars, planner, deleter,
                   canceller, evictor, removal, startup, faults, crashes>>

\* Registered but not authorized any more: forget it.
ServeRefused(s) ==
    /\ QFree
    /\ s \notin startup.quarantined
    /\ runtime[s] # "none" /\ ~Servable(s)
    /\ StopServing({s})
    /\ UNCHANGED <<store, cache, retired, pending, unsaved, outdated, lost, fillVars, planner, deleter,
                   canceller, evictor, removal, reader, lease, startup, faults, crashes>>

\* Neither registered nor restorable: the task learns that the session is lost,
\* fail_unrestorable_playback_session_after_cache_restore.
ServeLost(s) ==
    /\ QFree
    /\ s \notin startup.quarantined
    /\ runtime[s] = "none"
    /\ ~(Servable(s) /\ Restored(s) # "none")
    /\ Ready(store.reg) /\ Uses(store.reg, s)
    /\ \E o \in SavesOnceDurable(UnrestorableTask(store.reg, s), "destructive") :
          /\ Saved(o)
          /\ lost' = IF o.ok THEN lost \cup (HlsSessions(store.reg) \ HlsSessions(o.store.reg))
                    ELSE lost
    /\ UNCHANGED <<cache, runtime, retired, pending, unsaved, outdated, fillVars, planner,
                   deleter, canceller, evictor, removal, reader, lease, startup, crashes>>

EndRead(s) ==
    /\ s \in reader
    /\ reader' = reader \ {s}
    /\ UNCHANGED <<store, cacheVars, fillVars, planner, deleter, canceller, evictor, removal,
                   lease, startup, faults, crashes>>

LeaseExpires(s) ==
    /\ s \in lease
    /\ lease' = lease \ {s}
    /\ UNCHANGED <<store, cacheVars, fillVars, planner, deleter, canceller, evictor, removal,
                   reader, startup, faults, crashes>>

-----------------------------------------------------------------------------
(* Crash and restart: AppState::from_options and what it starts.            *)

\* from_persisted_state: interrupted planning does not survive.
RestoredTask(t) == IF t.state \in {"Preparing", "CancelRequested"} THEN EndedTask(t) ELSE t

\* fail_unrestorable_playback_tasks
Reconciled(t) ==
    IF ~Ready(t) THEN t
    ELSE IF cache[Primary] = "absent" \/ (t.state = "Completed" /\ cache[Primary] # "completed")
    THEN EndedTask(t)
    ELSE [t EXCEPT !.item = [s \in Sessions |->
            IF \/ t.item[s] = "playable" /\ cache[s] # "absent"
               \/ t.item[s] = "completed" /\ cache[s] = "completed" THEN t.item[s] ELSE "none"]]

\* With a durable registry the directories nobody claims are removed, the
\* others are served; without one they are all quarantined.
Restart ==
    /\ crashes < MaxCrashes
    /\ crashes' = crashes + 1
    /\ LET t == Reconciled(RestoredTask(store.disk))
           b == [store EXCEPT !.reg = RestoredTask(store.disk), !.vis = RestoredTask(store.disk),
                              !.avail = TRUE]
           present == {s \in Sessions : cache[s] # "absent"}
           claimed == {s \in present : Authorized(t, s)}
       IN \E o \in IF t = store.disk THEN {[ok |-> TRUE, store |-> b]} ELSE Saves(b, t, "keep") :
          \E F \in IF ~o.ok THEN {present} ELSE
                   IF faults < MaxFaults THEN SUBSET (present \ claimed) ELSE {{}} :
             LET kept == IF o.ok THEN claimed ELSE present IN
             /\ store' = o.store
             /\ faults' = IF o.ok /\ F = {} THEN faults ELSE faults + 1
             /\ cache' = [s \in Sessions |-> IF s \in kept \cup F THEN cache[s] ELSE "absent"]
             /\ retired' = present \ (kept \cup F)
             /\ runtime' = [s \in Sessions |->
                    IF ~o.ok \/ s \notin claimed THEN "none"
                    ELSE IF CompletedItem(t, s) /\ cache[s] = "completed" THEN "local" ELSE "online"]
             /\ UNCHANGED outdated
             /\ unsaved' = {}
             /\ lost' = {}
             /\ startup' = [quarantined |-> F, owned |-> {}, resume |-> kept]
    /\ queued' = {} /\ current' = {} /\ revoked' = FALSE
    /\ worker' = [pc |-> "idle", outcome |-> "Finished"]
    /\ planner' = "done"
    /\ deleter' = [pc |-> "idle", item |-> Primary, sessions |-> {}]
    /\ canceller' = [pc |-> "idle", todo |-> {}, failed |-> {}]
    /\ evictor' = NoScan
    /\ removal' = NoRemoval
    /\ pending' = [k \in Keys |-> {}]
    /\ reader' = {} /\ lease' = {}

\* resume_incomplete_hls_cache_finalizers, for one restored session: complete
\* the item at once if all its files are there, else queue the fill.
Resume(s) ==
    /\ s \in startup.resume
    /\ LET wanted == PlayableSession(store.vis, s) /\ s \notin store.reg.failed
           direct == wanted /\ cache[s] = "completed" /\ store.avail
       IN \/ /\ ~wanted
             /\ startup' = [startup EXCEPT !.resume = @ \ {s}]
             /\ UNCHANGED <<store, runtime, queued, faults>>
          \/ /\ wanted /\ ~direct
             /\ startup' = [startup EXCEPT !.resume = @ \ {s}, !.owned = @ \cup {s}]
             /\ queued' = queued \cup {s}
             /\ UNCHANGED <<store, runtime, faults>>
          \/ /\ direct
             /\ startup' = [startup EXCEPT !.resume = @ \ {s}, !.owned = @ \cup {s}]
             /\ runtime' = [runtime EXCEPT ![s] = "local"]
             /\ \E o \in CompletionSaves(store, s) :
                   Saved(o) /\ queued' = IF o.ok THEN queued ELSE queued \cup {s}
    /\ UNCHANGED <<cache, retired, pending, unsaved, outdated, lost, current, revoked, worker, planner,
                   deleter, canceller, evictor, removal, reader, lease, crashes>>

\* The reconciliation task, for one quarantined session, under Q and D.
Reconcile(s) ==
    /\ s \in startup.quarantined
    /\ QFree /\ DFree
    /\ ~(s \in startup.owned /\ s \in queued \cup current)
    /\ \E r \in Recoveries :
          \/ /\ ~r.ok
             /\ Saved(r)
             /\ UNCHANGED <<cacheVars, startup>>
          \/ /\ r.ok /\ Authorized(r.store.vis, s)
             /\ Saved(r)
             /\ startup' = [startup EXCEPT !.quarantined = @ \ {s}]
             /\ UNCHANGED cacheVars
          \/ /\ r.ok /\ ~Authorized(r.store.vis, s)
             /\ \E F \in Removals({s}) :
                   /\ store' = r.store
                   /\ RemoveDirectories({s}, F)
                   /\ StopServing({s} \ F)
                   /\ startup' = [startup EXCEPT !.quarantined = (@ \ {s}) \cup F]
             /\ UNCHANGED pending
    /\ UNCHANGED <<fillVars, planner, deleter, canceller, evictor, removal, reader, lease,
                   crashes>>

-----------------------------------------------------------------------------

WorkerStep ==
    \/ Admit \/ Protect \/ FillCompletes \/ FillCancelled
    \/ \E outcome \in {"Preempted", "Retry", "Failed", "Finished"} : FillStops(outcome)
    \/ Publish \/ Settle \/ Discard \/ Decide \/ Finish

\* Startup resumes the finalizers before the server takes requests.
Next ==
    \/ Restart
    \/ \E s \in Sessions : Resume(s)
    \/ /\ startup.resume = {}
       /\ \/ PlanComplete \/ PlanAbandon \/ PlanCleanUp
          \/ WorkerStep
          \/ DeleteAgain \/ RemoveFiles
          \/ CancelTask \/ CancelDrained \/ CancelReturns
          \/ EvictBegin \/ EvictEnd
          \/ \E s \in Sessions :
                \/ PlanResult(s) \/ Take(s) \/ DeleteItem(s) \/ CancelRemoves(s)
                \/ EvictCompleted(s) \/ EvictPartial(s)
                \/ Serve(s) \/ ServeRefused(s) \/ ServeLost(s) \/ EndRead(s)
                \/ LeaseExpires(s) \/ Reconcile(s)

Spec == Init /\ [][Next]_vars

-----------------------------------------------------------------------------
(* Properties.                                                              *)

\* An item offered for offline playback has all of its media: no order of
\* deletion, eviction, cancellation, refill and crash leaves a completed item
\* visible without its files.
OfferedItemHasMedia ==
    \A s \in Sessions : CompletedItem(store.vis, s) =>
        cache[s] = "completed" \/ s \in outdated

\* A session served from local files has them.
LocalSessionHasMedia ==
    \A s \in Sessions : runtime[s] = "local" => cache[s] = "completed" \/ s \in outdated

\* Whatever is offered as complete or served locally has its media.
OfferedMediaExists == OfferedItemHasMedia /\ LocalSessionHasMedia

\* Files always have an owner that will use or delete them.
Owned(s) ==
    \/ Uses(store.vis, s) \/ Uses(store.reg, s)
    \/ \E k \in Keys : s \in pending[k]
    \/ s \in removal.sessions \cup canceller.todo \cup canceller.failed
    \/ s \in startup.quarantined \cup startup.resume
    \/ s \in current /\ worker.pc \in {"fill", "publish", "discard"}
    \/ planner # "done"
    \/ s \in lost

NoOrphanedFiles == \A s \in Sessions : cache[s] # "absent" => Owned(s)
=============================================================================
