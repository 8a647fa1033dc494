---------------------------- MODULE TaskRegistry ----------------------------
(***************************************************************************)
(* The task registry of the cache server (task_registry.rs), the snapshot  *)
(* store it commits to (task_store.rs), and the two kinds of background    *)
(* owner a task has: the download worker (bilibili_worker.rs) and the      *)
(* playback planner (grpc_services.rs).                                    *)
(*                                                                         *)
(* A lifecycle mutation holds the mutation lock from the moment it changes *)
(* the live tables until the save of the resulting snapshot has an         *)
(* outcome; txn is that lock together with what its holder still has to    *)
(* do.  Readers and subscribers take only the inner lock, so they run      *)
(* between those two moments and see the committed view.  A save renames a *)
(* temporary file over the snapshot and then syncs the directory, so a     *)
(* crash can leave more than one snapshot that a restart may load.         *)
(***************************************************************************)
EXTENDS Naturals, Sequences, FiniteSets, Queues

CONSTANTS
    Downloads,      \* ids of download tasks
    Playbacks,      \* ids of progressive playback tasks
    V2,             \* the tasks created through the v2 requests
    Keys, KeyOf,    \* the deduplication key of each task
    NoTask,
    Watchers,
    Capacity,       \* WATCHER_EVENT_BUFFER_CAPACITY
    Slots,          \* bound on concurrently running downloads
    MaxCrashes,     \* bound: restarts of the process
    MaxPermanent    \* bound: saves rejected as permanently invalid

Tasks == Downloads \cup Playbacks

ASSUME TaskAssumption ==
    /\ IsFiniteSet(Tasks) /\ Downloads \cap Playbacks = {}
    /\ V2 \subseteq Tasks
    /\ KeyOf \in [Tasks -> Keys]
    /\ NoTask \notin Tasks
    /\ Capacity \in Nat \ {0}
    /\ Slots \in Nat \ {0}
    /\ MaxCrashes \in Nat
    /\ MaxPermanent \in Nat

\* A download that was cancelled after some of its results were done keeps
\* their media: "partial" is TaskState::Cancelled with a successful result.
Terminal == {"succeeded", "failed", "cancelled", "partial", "completed"}
Active == {"queued", "running", "preparing", "cancel_requested"}
Served == {"playable", "completed"}          \* states that hand out an HLS session
States == {"absent", "playable"} \cup Active \cup Terminal

VARIABLES
    tasks,          \* tasks_by_id: the live state of every task
    queue,          \* queued_task_ids
    active,         \* active_task_ids_by_key
    registered,     \* running_ and planning_cancellations_by_id
    pending,        \* pending_publications_by_id
    visible,        \* visible_tasks_by_id: what reads and snapshots return
    watchers,       \* the subscriptions and what their clients have seen
    available,      \* TaskStatePersistence.available
    installed,      \* the snapshot file as the running system reads it
    recoverable,    \* the snapshots a power loss may leave in its place
    txn,            \* the holder of the mutation lock
    signalled,      \* tasks whose cancellation token was requested
    runner,         \* the worker or planner that owns the task
    deleted,        \* playback tasks whose HLS session some caller decided to delete
    quarantine,     \* sessions that await the startup reconciliation
    cleared,        \* the reconciliation has found the store durable
    crashes, permanents

inner == <<tasks, queue, active, registered, pending>>
store == <<available, installed, recoverable>>
owners == <<signalled, runner, deleted, quarantine, cleared>>
vars == <<inner, visible, watchers, store, txn, owners, crashes, permanents>>

Ops == {"none", "create", "claim", "claimRetry", "cancelPrep", "cancelMark", "cancel",
        "completePrep", "complete", "retry", "recover", "publish", "cachedPrep", "cached",
        "remove", "update", "rejectPrep", "reject", "tombstone", "start", "restore"}

Snapshots == [Tasks -> States]
Checkpoints == [tasks : Snapshots, queue : Seq(Downloads), active : [Keys -> Tasks \cup {NoTask}],
                registered : SUBSET Tasks, pending : SUBSET Tasks]

(***************************************************************************)
(* Restart: what from_persisted_state makes of a snapshot.                 *)
(***************************************************************************)
RestoredState(t, state) ==
    CASE state = "cancel_requested"                     -> "cancelled"
      [] state = "running" /\ t \in Downloads           -> "queued"
      [] state = "preparing" /\ t \in Playbacks         -> "failed"
      [] OTHER                                          -> state

Deduplicated(t) == t \in Downloads \/ t \in V2

\* Of several active records with one key only the first is restored; the
\* model leaves open which one that is.
Restorations(snapshot) ==
    LET restored == [t \in Tasks |-> RestoredState(t, snapshot[t])]
        contenders == {t \in Tasks : restored[t] \in Active /\ Deduplicated(t)}
        survivors == {keep \in SUBSET contenders :
                        \A t \in contenders :
                            \E k \in keep : {u \in keep : KeyOf[u] = KeyOf[t]} = {k}}
    IN {[t \in Tasks |-> IF t \in contenders \ keep THEN "absent" ELSE restored[t]] :
          keep \in survivors}

(***************************************************************************)
(* Publication to the subscribers.                                         *)
(***************************************************************************)
Closed == [open |-> FALSE, lagged |-> FALSE, buffer |-> <<>>, view |-> [t \in Tasks |-> "absent"]]

\* publish_locked, for a sequence of tasks: a full channel marks the watcher
\* lagged and drops it.
Delivered(w, events) ==
    LET room == Capacity - Len(w.buffer)
    IN CASE ~w.open -> w
         [] w.open /\ Len(events) <= room -> [w EXCEPT !.buffer = @ \o events]
         [] OTHER -> [w EXCEPT !.buffer = @ \o SubSeq(events, 1, room),
                               !.open = FALSE, !.lagged = TRUE]

\* publish_pending_locked: one event per staged task, in the map's order, with
\* the task's new committed state; a task that is gone is announced as failed.
Announcement(view, t) == [task |-> t, state |-> IF view[t] = "absent" THEN "failed" ELSE view[t]]

Publish(view) ==
    \E order \in [1..Cardinality(pending) -> pending] :
        /\ \A t \in pending : \E i \in DOMAIN order : order[i] = t
        /\ watchers' = [w \in Watchers |->
                Delivered(watchers[w], [i \in DOMAIN order |-> Announcement(view, order[i])])]

(***************************************************************************)
(* Taking the mutation lock and starting a save.  rollback says when the   *)
(* caller's checkpoint is restored: never, whenever the save is rejected,  *)
(* or only when it is rejected for good.  durable is set when the caller   *)
(* is about to delete data: an unsynced save is then rolled back as well.  *)
(***************************************************************************)
Checkpoint == [tasks |-> tasks, queue |-> queue, active |-> active,
               registered |-> registered, pending |-> pending]

Lock(op, t, rollback, durable, phase) ==
    txn' = [op |-> op, task |-> t, rollback |-> rollback, durable |-> durable,
            phase |-> phase, saved |-> Checkpoint]

Unlocked == txn.op = "none"

Unlock == txn' = [txn EXCEPT !.op = "none", !.task = NoTask, !.rollback = "never",
                             !.durable = FALSE, !.phase = "save",
                             !.saved = [tasks |-> [t \in Tasks |-> "absent"], queue |-> <<>>,
                                        active |-> [k \in Keys |-> NoTask],
                                        registered |-> {}, pending |-> {}]]

\* The mutation is written to the live tables and staged for publication.
Stage(t, state) ==
    /\ tasks' = [tasks EXCEPT ![t] = state]
    /\ pending' = pending \cup {t}

\* Tasks whose results change, some of which fail by it.
StageLoss(touched, failed) ==
    /\ tasks' = [t \in Tasks |-> IF t \in failed THEN "failed" ELSE tasks[t]]
    /\ pending' = pending \cup touched

\* clear_active_task_locked
ClearedActive(t) == [k \in Keys |-> IF active[k] = t THEN NoTask ELSE active[k]]

\* Mutant: a cancelled download stays in the queue.
ClearActive_KeepsQueue(t) ==
    /\ active' = ClearedActive(t)
    /\ registered' = registered \ {t}
    /\ UNCHANGED queue

ClearActive(t) ==
    /\ active' = ClearedActive(t)
    /\ registered' = registered \ {t}
    /\ queue' = Kept(queue, Downloads \ {t})

\* persist_current_state and the repair of pending state before an operation.
SaveOnly(op, t) ==
    /\ Lock(op, t, "never", FALSE, "save")
    /\ UNCHANGED <<inner, visible, watchers, store, owners, crashes, permanents>>

\* An operation that must first repair pending state enters its body with the
\* lock held; otherwise it takes the lock and runs on.
Entered(op, t) ==
    \/ Unlocked /\ available
    \/ txn.op = op /\ txn.task = t /\ txn.phase = "ready"

Untouched == UNCHANGED <<inner, visible, watchers, store, crashes, permanents>>

(***************************************************************************)
(* Creation, with its deduplication, and the worker's claim.               *)
(***************************************************************************)
Duplicate(t) ==
    /\ Deduplicated(t)
    /\ active[KeyOf[t]] # NoTask
    /\ tasks[active[KeyOf[t]]] \in Active

\* A new task has an id that nothing remembers.
Fresh(t) ==
    /\ \A s \in recoverable \cup {tasks, visible, installed} : s[t] = "absent"
    /\ runner[t].pc = "idle"
    /\ t \notin deleted \cup quarantine

\* create_bilibili_task and its v2 and playback variants.  The v2 variants look
\* at the availability flag before they take the lock, so it may be stale here.
Create(t) ==
    /\ Unlocked /\ Fresh(t) /\ ~Duplicate(t)
    /\ Stage(t, IF t \in Downloads THEN "queued" ELSE "preparing")
    /\ queue' = IF t \in Downloads THEN Append(queue, t) ELSE queue
    /\ active' = IF Deduplicated(t) THEN [active EXCEPT ![KeyOf[t]] = t] ELSE active
    /\ registered' = IF t \in Playbacks THEN registered \cup {t} ELSE registered
    /\ signalled' = signalled \ {t}
    /\ Lock("create", t, "rejected", FALSE, "save")
    /\ UNCHANGED <<visible, watchers, store, runner, deleted, quarantine, cleared, crashes, permanents>>

\* v2 downloads stay queued while the snapshot cannot be committed.
Claimable(t) == tasks[t] = "queued" /\ (t \in V2 => available)

RunningDownloads == {t \in Downloads : runner[t].pc # "idle"}

\* try_claim_next_bilibili_task: the entries before the claimed one go to the
\* back of the queue when they are held back and are dropped otherwise.
Claim(t) ==
    /\ Unlocked /\ Cardinality(RunningDownloads) < Slots
    /\ \E i \in DOMAIN queue :
        /\ queue[i] = t /\ Claimable(t)
        /\ \A j \in 1..(i - 1) : ~Claimable(queue[j])
        /\ queue' = SubSeq(queue, i + 1, Len(queue))
                        \o Kept(SubSeq(queue, 1, i - 1), {u \in Downloads : tasks[u] = "queued"})
    /\ Stage(t, "running")
    /\ registered' = registered \cup {t}
    /\ signalled' = signalled \ {t}
    /\ Lock("claim", t, "never", FALSE, "save")
    /\ UNCHANGED <<active, visible, watchers, store, runner, deleted, quarantine, cleared, crashes, permanents>>

\* claim_next_bilibili_task, when all that is queued waits for the store.
ClaimRetry ==
    /\ Unlocked /\ ~available /\ Cardinality(RunningDownloads) < Slots
    /\ \E i \in DOMAIN queue : queue[i] \in V2 /\ tasks[queue[i]] = "queued"
    /\ \A i \in DOMAIN queue : ~Claimable(queue[i])
    /\ SaveOnly("claimRetry", NoTask)

(***************************************************************************)
(* CancelTask.                                                             *)
(***************************************************************************)
CancelPrepare(t) ==
    /\ Unlocked /\ ~available /\ visible[t] # "absent"
    /\ SaveOnly("cancelPrep", t)

\* Nothing is left to cancel.
CancelSettled(t) ==
    /\ Entered("cancel", t)
    /\ visible[t] \in Terminal \cup {"absent"}
    /\ Unlock /\ Untouched /\ UNCHANGED owners

\* The owner is told to stop; a first request is also recorded.
CancelOwner(t) ==
    /\ Entered("cancel", t)
    /\ visible[t] \in {"running", "preparing", "cancel_requested"}
    /\ signalled' = signalled \cup ({t} \cap registered)
    /\ \/ /\ visible[t] = "cancel_requested"
          /\ Unlock /\ Untouched
       \/ /\ visible[t] # "cancel_requested"
          /\ tasks[t] # "absent"
          /\ Stage(t, "cancel_requested")
          /\ Lock("cancelMark", t, "never", FALSE, "save")
          /\ UNCHANGED <<queue, active, registered, visible, watchers, store, crashes, permanents>>
    /\ UNCHANGED <<runner, deleted, quarantine, cleared>>

\* Mutant: the session is deleted although the save was not synced.
DeletesHlsData_Never(t) == FALSE

DeletesHlsData(t) == t \in Playbacks

\* A task without an owner, queued or playable, is cancelled at once.
CancelNow(t) ==
    /\ Entered("cancel", t)
    /\ visible[t] \in {"queued", "playable"} /\ tasks[t] # "absent"
    /\ Stage(t, "cancelled")
    /\ ClearActive(t)
    /\ Lock("cancel", t, "rejected", DeletesHlsData(t), "save")
    /\ UNCHANGED <<visible, watchers, store, owners, crashes, permanents>>

(***************************************************************************)
(* The owners.  A runner record says where the worker or the planner       *)
(* stands: run (the adapter or the planner's own work), finish (it has a   *)
(* terminal state to record, through complete_task or, for a v2 download's *)
(* output, through commit_download_terminal), retry (it waits for the      *)
(* store), done (recorded, availability not yet checked), recover (a v2    *)
(* planner that waits for its creation to become durable).  armed is the   *)
(* planner's PlaybackPlanningCleanup.                                      *)
(***************************************************************************)
Idle == [pc |-> "idle", want |-> "failed", via |-> "complete", armed |-> FALSE]
Runs(t, pc) == [pc |-> pc, want |-> "failed", via |-> "complete", armed |-> t \in Playbacks]
Finishes(r, want, via) == [r EXCEPT !.pc = "finish", !.want = want, !.via = via]
At(r, pc) == [r EXCEPT !.pc = pc]

\* run_one_bilibili_task, once the adapter has returned or panicked.
AdapterReturns(t) ==
    /\ t \in Downloads /\ runner[t].pc = "run"
    /\ \E want \in {"succeeded", "failed", "cancelled", "partial"}, via \in {"complete", "commit"} :
        /\ via = "commit" => t \in V2
        /\ want = "succeeded" => (via = "commit" <=> t \in V2)
        /\ want = "partial" => via = "commit"
        /\ t \in signalled => want \in {"cancelled", "partial"}
        /\ runner' = [runner EXCEPT ![t] = Finishes(@, want, via)]
    /\ Untouched /\ UNCHANGED <<txn, signalled, deleted, quarantine, cleared>>

\* Planning failed, or was cancelled.
PlannerFails(t) ==
    /\ t \in Playbacks /\ runner[t].pc \in {"run", "recover"}
    /\ runner[t].pc = "recover" => t \in signalled
    /\ \E want \in {"failed", "cancelled"} :
        /\ want = "cancelled" => t \in signalled
        /\ runner[t].pc = "recover" => want = "cancelled"
        /\ runner' = [runner EXCEPT ![t] = Finishes(@, want, "complete")]
    /\ Untouched /\ UNCHANGED <<txn, signalled, deleted, quarantine, cleared>>

Settled(t) == tasks[t] \in Terminal \cup {"absent"}

\* publish_single_bilibili_hls_playback: the planner offers its session.
PlannerPublishes(t) ==
    /\ Unlocked /\ t \in Playbacks /\ runner[t].pc = "run"
    /\ visible[t] = "preparing" /\ ~Settled(t)
    /\ Stage(t, IF tasks[t] = "cancel_requested" THEN "cancelled" ELSE "playable")
    /\ Lock("publish", t, "permanent", FALSE, "save")
    /\ UNCHANGED <<queue, active, registered, visible, watchers, store, owners, crashes, permanents>>

\* The task is no longer preparing: the planner gives up its session.
PlannerTooLate(t) ==
    /\ t \in Playbacks /\ runner[t].pc = "run"
    /\ visible[t] # "preparing" \/ Settled(t)
    /\ Unlocked
    /\ runner' = [runner EXCEPT ![t] = Finishes(@, "cancelled", "complete")]
    /\ Untouched /\ UNCHANGED <<txn, signalled, deleted, quarantine, cleared>>

\* update_playback_results: the planner reports results while it works.
PlannerUpdates(t) ==
    /\ Unlocked /\ t \in Playbacks /\ runner[t].pc = "run"
    /\ ~Settled(t)
    /\ Stage(t, tasks[t])
    /\ Lock("update", t, "permanent", FALSE, "save")
    /\ UNCHANGED <<queue, active, registered, visible, watchers, store, owners, crashes, permanents>>

\* Mutant: the owner's result is recorded over a cancellation.
EffectiveState_OwnerWins(t) == runner[t].want

\* A cancellation that arrives before the completion wins over it.
EffectiveState(t) ==
    IF tasks[t] = "cancel_requested" /\ runner[t].want # "partial" THEN "cancelled" ELSE runner[t].want

Finishing(t, via) == runner[t].pc = "finish" /\ runner[t].via = via

FinishPrepare(t) ==
    /\ Unlocked /\ ~available /\ Finishing(t, "complete")
    /\ SaveOnly("completePrep", t)

\* Mutant: a task that is terminal already counts as not recorded yet.
FinishSettled_Again(t) ==
    /\ Finishing(t, "complete") /\ Entered("complete", t)
    /\ Settled(t)
    /\ runner' = [runner EXCEPT ![t] = IF tasks[t] = "absent" THEN Idle ELSE At(@, "retry")]
    /\ Unlock /\ Untouched /\ UNCHANGED <<signalled, deleted, quarantine, cleared>>

\* complete_task finds the task gone, or finished already.
FinishSettled(t) ==
    /\ Finishing(t, "complete") /\ Entered("complete", t)
    /\ Settled(t)
    /\ runner' = [runner EXCEPT ![t] = IF tasks[t] = "absent" THEN Idle ELSE At(@, "done")]
    /\ Unlock /\ Untouched /\ UNCHANGED <<signalled, deleted, quarantine, cleared>>

\* complete_task
Finish(t) ==
    /\ Finishing(t, "complete") /\ Entered("complete", t)
    /\ ~Settled(t)
    /\ Stage(t, EffectiveState(t))
    /\ ClearActive(t)
    /\ Lock("complete", t, "never", FALSE, "save")
    /\ UNCHANGED <<visible, watchers, store, owners, crashes, permanents>>

\* commit_staged_download_terminal, which repairs nothing first, keeps a
\* checkpoint, and yields to a cancellation instead of recording it.
Commit(t) ==
    /\ Finishing(t, "commit") /\ Unlocked
    /\ ~Settled(t)
    /\ tasks[t] = "cancel_requested" => runner[t].want \in {"cancelled", "partial"}
    /\ Stage(t, EffectiveState(t))
    /\ ClearActive(t)
    /\ Lock("complete", t, "rejected", FALSE, "save")
    /\ UNCHANGED <<visible, watchers, store, owners, crashes, permanents>>

CommitSettled(t) ==
    /\ Finishing(t, "commit") /\ Unlocked
    /\ runner' = [runner EXCEPT ![t] =
            CASE Settled(t) /\ tasks[t] # "absent" -> At(@, "done")
              [] tasks[t] = "cancel_requested" /\ @.want \notin {"cancelled", "partial"} ->
                    Finishes(@, "cancelled", "complete")
              [] OTHER -> Finishes(@, "failed", "complete")]   \* the output was refused
    /\ Untouched /\ UNCHANGED <<txn, signalled, deleted, quarantine, cleared>>

\* The owner lets go only when the store is durable again; a planner then
\* deletes the sessions of its terminal task.
FinishChecked(t) ==
    /\ runner[t].pc = "done"
    /\ IF available
       THEN /\ runner' = [runner EXCEPT ![t] = Idle]
            /\ deleted' = deleted \cup ({t} \cap Playbacks)
       ELSE /\ runner' = [runner EXCEPT ![t] = At(@, "retry")]
            /\ UNCHANGED deleted
    /\ Untouched /\ UNCHANGED <<txn, signalled, quarantine, cleared>>

OwnerRetry(t) ==
    /\ Unlocked
    /\ \/ runner[t].pc = "retry" /\ SaveOnly("retry", t)
       \/ runner[t].pc = "recover" /\ t \notin signalled /\ SaveOnly("recover", t)

(***************************************************************************)
(* The HLS side: a filled cache completes its task, and the library item   *)
(* of a completed task can be deleted.                                     *)
(***************************************************************************)
CachedPrepare(t) ==
    /\ Unlocked /\ ~available /\ tasks[t] = "playable"
    /\ SaveOnly("cachedPrep", t)

\* complete_playback_hls_session_cached
Cached(t) ==
    /\ Entered("cached", t) /\ tasks[t] = "playable"
    /\ Stage(t, "completed")
    /\ ClearActive(t)
    /\ Lock("cached", t, "never", FALSE, "save")
    /\ UNCHANGED <<visible, watchers, store, owners, crashes, permanents>>

\* remove_completed_playback_task
Remove(t) ==
    /\ Unlocked /\ t \in Playbacks /\ tasks[t] = "completed"
    /\ Stage(t, "absent")
    /\ registered' = registered \ {t}
    /\ Lock("remove", t, "rejected", TRUE, "save")
    /\ UNCHANGED <<queue, active, visible, watchers, store, owners, crashes, permanents>>

(***************************************************************************)
(* Media that is gone: the end of its task is revised.                     *)
(***************************************************************************)
\* fail_unrestorable_playback_tasks: before the server serves, it fails the
\* playbacks whose session the cache could not restore.
FailUnrestorable ==
    /\ txn.op = "restore" /\ txn.phase = "ready"
    /\ \E lost \in SUBSET {t \in Playbacks : tasks[t] \in Served} :
        /\ StageLoss(lost, lost)
        /\ IF lost = {} THEN Unlock ELSE Lock("restore", NoTask, "never", FALSE, "save")
    /\ UNCHANGED <<queue, active, registered, visible, watchers, store, owners, crashes, permanents>>

\* fail_unrestorable_playback_session_after_cache_restore, for a session that a
\* client asked for and that is not in the cache, or not the task's.
RejectPrepare(t) ==
    /\ Unlocked /\ ~available /\ t \in Playbacks /\ tasks[t] \in Served
    /\ SaveOnly("rejectPrep", t)

\* The task fails with its primary session; another session takes its result only.
Reject(t) ==
    /\ Entered("reject", t) /\ t \in Playbacks /\ tasks[t] \in Served
    /\ \/ Stage(t, "failed") /\ ClearActive(t)
       \/ Stage(t, tasks[t]) /\ UNCHANGED <<queue, active, registered>>
    /\ Lock("reject", t, "rejected", TRUE, "save")
    /\ UNCHANGED <<visible, watchers, store, owners, crashes, permanents>>

\* tombstone_library_item_before_delete: the results that stood for the item fail,
\* and with the last of its media a download does.
Tombstone ==
    /\ Unlocked
    /\ \E touched \in SUBSET {t \in Downloads : tasks[t] \in {"succeeded", "partial"}} \ {{}} :
        \E failed \in SUBSET touched : StageLoss(touched, failed)
    /\ Lock("tombstone", NoTask, "rejected", TRUE, "save")
    /\ UNCHANGED <<queue, active, registered, visible, watchers, store, owners, crashes, permanents>>

\* Startup reconciliation finds the store durable, then looks at each restored
\* session and deletes the ones no committed task authorizes.
Started == txn.op \notin {"start", "restore"}

Authorizes(t) == visible[t] \in Active \cup Served

ReconcileBegin ==
    /\ Started /\ available /\ quarantine # {} /\ ~cleared
    /\ cleared' = TRUE
    /\ Untouched /\ UNCHANGED <<txn, signalled, runner, deleted, quarantine>>

Reconcile(t) ==
    /\ cleared /\ t \in quarantine
    /\ quarantine' = quarantine \ {t}
    /\ deleted' = IF Authorizes(t) THEN deleted ELSE deleted \cup {t}
    /\ Untouched /\ UNCHANGED <<txn, signalled, runner, cleared>>

(***************************************************************************)
(* Progress, which is never saved, and the subscribers.                    *)
(***************************************************************************)
\* Mutant: progress is published although a lifecycle change is pending.
HeldBack_NewOnly(t) == visible[t] = "absent"

HeldBack(t) == t \in pending \/ visible[t] = "absent"

Progress(t) ==
    /\ Unlocked
    /\ tasks[t] \in (IF t \in Downloads THEN {"running", "cancel_requested"} ELSE {"playable"})
    /\ IF HeldBack(t)
       THEN pending' = pending \cup {t} /\ UNCHANGED <<visible, watchers>>
       ELSE /\ visible' = [visible EXCEPT ![t] = tasks[t]]
            /\ watchers' = [w \in Watchers |->
                    Delivered(watchers[w], <<[task |-> t, state |-> tasks[t]]>>)]
            /\ UNCHANGED pending
    /\ UNCHANGED <<tasks, queue, active, registered, store, txn, owners, crashes, permanents>>

WatcherStep(w, next) ==
    /\ watchers' = [watchers EXCEPT ![w] = next]
    /\ UNCHANGED <<inner, visible, store, txn, owners, crashes, permanents>>

\* subscribe: the watcher and its snapshot are taken under one inner lock.
\* Mutant: a subscription starts from the live tables.
Snapshot_Live == tasks

Snapshot == visible

Subscribe(w) ==
    /\ Started /\ ~watchers[w].open
    /\ WatcherStep(w, [open |-> TRUE, lagged |-> FALSE, buffer |-> <<>>, view |-> Snapshot])

Replayed(view, event) == [view EXCEPT ![event.task] = event.state]

Receive(w) ==
    /\ watchers[w].buffer # <<>>
    /\ WatcherStep(w, [watchers[w] EXCEPT !.buffer = Tail(@),
                                          !.view = Replayed(@, Head(watchers[w].buffer))])

Unsubscribe(w) ==
    /\ watchers[w].open \/ watchers[w].lagged
    /\ WatcherStep(w, Closed)

(***************************************************************************)
(* The save (persist_and_publish_pending_with_policy, save_snapshot and    *)
(* save_with_file_cleanup_intents) and what its caller does next.          *)
(***************************************************************************)
Committed(outcome) == outcome \in {"durable", "installed"}

\* Mutant: an owner whose save is rejected stops instead of retrying.
AfterRejection_Leaves(r) == Idle

AfterRejection(r) == At(r, "retry")

RunnerAfter(outcome) ==
    LET t == txn.task
        To(r) == [runner EXCEPT ![t] = r]
    IN CASE txn.op = "create" /\ t \in Playbacks /\ Committed(outcome) ->
                To(Runs(t, IF t \in V2 /\ outcome # "durable" THEN "recover" ELSE "run"))
         [] txn.op = "claim" -> To(Runs(t, "run"))
         [] txn.op = "complete" /\ Committed(outcome) -> To(At(runner[t], "done"))
         [] txn.op \in {"complete", "completePrep"} /\ ~Committed(outcome) ->
                To(AfterRejection(runner[t]))
         [] txn.op = "retry" /\ outcome = "durable" -> To(At(runner[t], "finish"))
         [] txn.op = "retry" /\ outcome = "permanent" ->
                To(IF runner[t].armed \/ runner[t].via = "commit"
                   THEN [Finishes(runner[t], "failed", "complete") EXCEPT !.armed = FALSE]
                   ELSE Idle)
         [] txn.op = "retry" /\ outcome \in {"installed", "rejected"} ->
                To(At(runner[t], IF t \in Playbacks THEN "finish" ELSE "retry"))
         [] txn.op = "recover" /\ outcome = "durable" -> To(At(runner[t], "run"))
         [] txn.op = "recover" /\ outcome = "permanent" -> To(Idle)
         [] txn.op = "publish" /\ outcome = "permanent" ->
                To(Finishes(runner[t], IF t \in signalled THEN "cancelled" ELSE "failed", "complete"))
         [] txn.op = "publish" /\ outcome # "permanent" ->
                To(IF tasks[t] = "playable" THEN Idle
                   ELSE Finishes(runner[t], "cancelled", "complete"))
         [] OTHER -> runner

Body(op) == CASE op = "cancelPrep" -> "cancel"
              [] op = "completePrep" -> "complete"
              [] op = "cachedPrep" -> "cached"
              [] op = "rejectPrep" -> "reject"
              [] op = "start" -> "restore"

Repaired(outcome) ==
    \/ txn.op \in {"cancelPrep", "cachedPrep", "rejectPrep"} /\ outcome = "durable"
    \/ txn.op = "completePrep" /\ Committed(outcome)
    \/ txn.op = "start"                 \* the start goes on whatever came of it

Conclude(outcome) ==
    /\ runner' = RunnerAfter(outcome)
    /\ deleted' = IF txn.op \in {"cancel", "remove"} /\ outcome = "durable"
                  THEN deleted \cup ({txn.task} \cap Playbacks) ELSE deleted
    /\ IF Repaired(outcome)
       THEN txn' = [txn EXCEPT !.op = Body(txn.op), !.phase = "ready"]
       ELSE Unlock
    /\ UNCHANGED <<signalled, quarantine, cleared, crashes>>

\* persist_playback_publication drops the planner's token and key after the save.
Keep ==
    /\ UNCHANGED <<tasks, queue>>
    /\ IF txn.op = "publish"
       THEN active' = ClearedActive(txn.task) /\ registered' = registered \ {txn.task}
       ELSE UNCHANGED <<active, registered>>

RollBack ==
    /\ tasks' = txn.saved.tasks
    /\ queue' = txn.saved.queue
    /\ active' = txn.saved.active
    /\ registered' = txn.saved.registered
    /\ pending' = txn.saved.pending

\* install_visible_live_state_locked and publish_pending_locked
Install ==
    /\ visible' = tasks
    /\ Publish(tasks)
    /\ pending' = {}
    /\ Keep

Saving(phase) == ~Unlocked /\ txn.phase = phase

RollsBack(outcome) ==
    \/ txn.rollback = "rejected" /\ outcome \in {"rejected", "permanent"}
    \/ txn.rollback = "permanent" /\ outcome = "permanent"
    \/ txn.durable /\ outcome = "installed"

AvailableAfter(outcome) == outcome = "durable"

SaveRejected ==
    /\ Saving("save")
    /\ \E outcome \in {"rejected", "permanent"} :
        /\ outcome = "permanent" => permanents < MaxPermanent
        /\ permanents' = IF outcome = "permanent" THEN permanents + 1 ELSE permanents
        /\ IF RollsBack(outcome) THEN RollBack ELSE Keep /\ UNCHANGED pending
        /\ available' = AvailableAfter(outcome)
        /\ Conclude(outcome)
    /\ UNCHANGED <<visible, watchers, installed, recoverable>>

\* The rename.
SaveRenamed ==
    /\ Saving("save")
    /\ installed' = tasks
    /\ recoverable' = recoverable \cup {tasks}
    /\ txn' = [txn EXCEPT !.phase = "renamed"]
    /\ UNCHANGED <<inner, visible, watchers, available, owners, crashes, permanents>>

SaveSynced ==
    /\ Saving("renamed")
    /\ available' = AvailableAfter("durable")
    /\ recoverable' = {installed}
    /\ Install
    /\ Conclude("durable")
    /\ UNCHANGED <<installed, permanents>>

SaveNotSynced ==
    /\ Saving("renamed")
    /\ available' = AvailableAfter("installed")
    /\ IF RollsBack("installed") THEN RollBack /\ UNCHANGED <<visible, watchers>> ELSE Install
    /\ Conclude("installed")
    /\ UNCHANGED <<installed, recoverable, permanents>>

(***************************************************************************)
(* A restart loads the installed snapshot; after a power loss the file may *)
(* also be an earlier one that was never superseded durably.               *)
(***************************************************************************)
Loadable(powerLoss) == IF powerLoss THEN recoverable ELSE {installed}

Restart ==
    /\ crashes < MaxCrashes
    /\ \E powerLoss \in BOOLEAN :
        \E loaded \in Loadable(powerLoss) :
            /\ installed' = loaded
            /\ recoverable' = IF powerLoss THEN {loaded} ELSE recoverable
            /\ tasks' \in Restorations(loaded)
            /\ quarantine' = {t \in Playbacks : loaded[t] # "absent"}
    /\ cleared' = FALSE
    /\ visible' = tasks'
    /\ LET again == {t \in Downloads : tasks'[t] = "queued"}
       IN \E order \in [1..Cardinality(again) -> again] :
            /\ \A t \in again : \E i \in DOMAIN order : order[i] = t
            /\ queue' = order
    /\ active' = [k \in Keys |->
            IF \E t \in Tasks : KeyOf[t] = k /\ Deduplicated(t) /\ tasks'[t] \in Active
            THEN CHOOSE t \in Tasks : KeyOf[t] = k /\ Deduplicated(t) /\ tasks'[t] \in Active
            ELSE NoTask]
    /\ registered' = {} /\ pending' = {} /\ signalled' = {}
    /\ watchers' = [w \in Watchers |-> Closed]
    /\ available' = TRUE
    /\ txn' = [op |-> "start", task |-> NoTask, rollback |-> "never", durable |-> FALSE,
               phase |-> "save",
               saved |-> [tasks |-> tasks', queue |-> queue', active |-> active',
                          registered |-> {}, pending |-> {}]]
    /\ runner' = [t \in Tasks |-> Idle]
    /\ crashes' = crashes + 1
    /\ UNCHANGED <<deleted, permanents>>

(***************************************************************************)
(* The first start, on an empty store.                                     *)
(***************************************************************************)
Nothing == [t \in Tasks |-> "absent"]

Init ==
    /\ tasks = Nothing /\ visible = Nothing
    /\ queue = <<>>
    /\ active = [k \in Keys |-> NoTask]
    /\ registered = {} /\ pending = {}
    /\ watchers = [w \in Watchers |-> Closed]
    /\ available = TRUE
    /\ installed = Nothing /\ recoverable = {Nothing}
    /\ txn = [op |-> "start", task |-> NoTask, rollback |-> "never", durable |-> FALSE,
              phase |-> "save", saved |-> Checkpoint]
    /\ signalled = {} /\ deleted = {} /\ quarantine = {} /\ cleared = FALSE
    /\ runner = [t \in Tasks |-> Idle]
    /\ crashes = 0 /\ permanents = 0

Request(t) ==
    \/ Create(t)
    \/ CancelPrepare(t) \/ CancelSettled(t) \/ CancelOwner(t) \/ CancelNow(t)
    \/ CachedPrepare(t) \/ Cached(t) \/ Remove(t)
    \/ RejectPrepare(t) \/ Reject(t)

Owner(t) ==
    \/ AdapterReturns(t) \/ PlannerFails(t) \/ PlannerPublishes(t) \/ PlannerTooLate(t)
    \/ PlannerUpdates(t)
    \/ FinishPrepare(t) \/ FinishSettled(t) \/ Finish(t) \/ Commit(t) \/ CommitSettled(t)
    \/ FinishChecked(t) \/ OwnerRetry(t)

Save == SaveRejected \/ SaveRenamed \/ SaveSynced \/ SaveNotSynced

Next ==
    \/ \E t \in Tasks : Request(t) \/ Owner(t) \/ Progress(t) \/ Reconcile(t)
    \/ \E t \in Downloads : Claim(t)
    \/ ClaimRetry \/ Tombstone \/ FailUnrestorable \/ ReconcileBegin
    \/ \E w \in Watchers : Subscribe(w) \/ Receive(w) \/ Unsubscribe(w)
    \/ Save
    \/ Restart

Spec == Init /\ [][Next]_vars

\* Whoever can take the mutation lock, and goes on being able to, takes it: the
\* lock is a plain mutex and promises no more.  An adapter or planner whose token
\* was requested returns, owners retry with a bounded delay, a save ends and the
\* disk recovers at last.  Mutations that end no task are finitely many: a task has
\* finitely many results to report and to lose, a library so many items to delete.
Stops(t) == t \in signalled /\ (AdapterReturns(t) \/ PlannerFails(t))

Ends(t) ==
    \/ FinishPrepare(t) \/ FinishSettled(t) \/ Finish(t)
    \/ Commit(t) \/ CommitSettled(t)
    \/ FinishChecked(t) \/ OwnerRetry(t)

\* The holder of the lock goes on.
Continues(t) ==
    /\ txn.phase = "ready"
    /\ CancelSettled(t) \/ CancelOwner(t) \/ CancelNow(t) \/ Cached(t) \/ Reject(t)

EndsNoTask ==
    /\ txn'.op \in {"update", "reject", "tombstone"}
    /\ txn'.phase = "save" /\ txn' # txn
    /\ tasks' = tasks

Fairness ==
    /\ \A t \in Tasks : WF_vars(Stops(t)) /\ WF_vars(Ends(t)) /\ WF_vars(Continues(t))
    /\ WF_vars(FailUnrestorable) /\ WF_vars(Save)
    /\ <>[][~EndsNoTask]_vars
    /\ <>[][~(SaveRejected \/ SaveNotSynced)]_vars

FairSpec == Spec /\ Fairness

-----------------------------------------------------------------------------
Runners == [pc : {"idle", "run", "finish", "retry", "done", "recover"},
            want : {"succeeded", "failed", "cancelled", "partial"},
            via : {"complete", "commit"}, armed : BOOLEAN]

\* The shape of every table, and the bound of every subscriber's buffer
\* (WATCHER_EVENT_BUFFER_CAPACITY), which publish_locked must never exceed.
TypeOK ==
    /\ tasks \in Snapshots /\ visible \in Snapshots
    /\ queue \in Seq(Downloads)
    /\ active \in [Keys -> Tasks \cup {NoTask}]
    /\ registered \subseteq Tasks /\ pending \subseteq Tasks
    /\ \A w \in Watchers :
        /\ watchers[w].open \in BOOLEAN /\ watchers[w].lagged \in BOOLEAN
        /\ watchers[w].view \in Snapshots
        /\ watchers[w].buffer \in Seq([task : Tasks, state : States])
        /\ Len(watchers[w].buffer) <= Capacity
    /\ available \in BOOLEAN
    /\ installed \in recoverable /\ recoverable \subseteq Snapshots
    /\ txn.op \in Ops /\ txn.task \in Tasks \cup {NoTask} /\ txn.saved \in Checkpoints
    /\ txn.rollback \in {"never", "rejected", "permanent"} /\ txn.durable \in BOOLEAN
    /\ txn.phase \in {"save", "renamed", "ready"}
    /\ signalled \subseteq Tasks /\ deleted \subseteq Playbacks /\ quarantine \subseteq Playbacks
    /\ cleared \in BOOLEAN
    /\ runner \in [Tasks -> Runners]
    /\ crashes \in 0..MaxCrashes /\ permanents \in 0..MaxPermanent

\* persistence_available() is what lets an owner go and lets HLS data be
\* deleted: while nobody mutates, it means that the live tables, the committed
\* view and every snapshot a restart could load are one and the same.
AvailableMeansSettled ==
    Unlocked /\ available => /\ tasks = visible
                             /\ pending = {}
                             /\ recoverable = {tasks}

\* Reads never run ahead of the disk: the committed view is a snapshot some
\* restart could load, or what a restart made of one.
VisibleIsCommitted ==
    \E s \in recoverable : visible = s \/ visible \in Restorations(s)

\* Readers, the store and those who rely on persistence_available agree,
\* through rejected, unsynced and retried saves and restarts.
ViewsAgree == AvailableMeansSettled /\ VisibleIsCommitted

\* HLS data is deleted only when no snapshot that a crash could bring back
\* would still serve it (persist_task_before_destructive_side_effect).
DeletedIsUnreferenced ==
    \A t \in deleted : \A s \in recoverable \cup {tasks, visible} : s[t] \notin Served

\* No accepted download is lost, and none is handed out twice: between
\* mutations the queue holds the live queued downloads, each of them once.
QueueHoldsQueued ==
    Unlocked => /\ \A t \in Downloads :
                    Cardinality({i \in DOMAIN queue : queue[i] = t})
                        = (IF tasks[t] = "queued" THEN 1 ELSE 0)

\* Active duplicate submissions are the same task, across cancellations,
\* rejected saves and restarts.
OneActivePerKey ==
    \A t, u \in {v \in Tasks : tasks[v] \in Active /\ Deduplicated(v)} :
        KeyOf[t] = KeyOf[u] => t = u

\* What is accepted is done once: queued downloads are neither lost nor handed
\* out twice, and a duplicate submission is not a second task.
AcceptedOnce == QueueHoldsQueued /\ OneActivePerKey

\* Unless a save is rejected for good, a task that claims to be under way has
\* an owner that will end it: no save outcome makes the owner leave early.
NoOrphanedWork ==
    Unlocked /\ permanents = 0 =>
        \A t \in Tasks : tasks[t] \in {"running", "preparing", "cancel_requested"}
                            => runner[t].pc # "idle"

Replay(view, events) ==
    LET after[i \in 0..Len(events)] == IF i = 0 THEN view ELSE Replayed(after[i - 1], events[i])
    IN after[Len(events)]

\* A subscriber that has not been told that it lags is exact: its snapshot and
\* the events still in its buffer lead to the committed view, whatever was
\* rejected, rolled back or published late in between.
WatcherConverges ==
    \A w \in Watchers : watchers[w].open =>
        \A t \in Tasks : visible[t] # "absent" =>
            Replay(watchers[w].view, watchers[w].buffer)[t] = visible[t]

\* A committed cancellation request ends: the owner stops and its cancelled
\* state is committed, however many saves failed on the way.
CancelTerminates ==
    \A t \in Tasks : visible[t] = "cancel_requested" ~> visible[t] \in {"cancelled", "partial"}

\* An owner that has its result always lets go, so its slot becomes free.
OwnersLetGo ==
    \A t \in Tasks : runner[t].pc \in {"finish", "retry", "done"} ~> runner[t].pc = "idle"

\* If the disk recovers at last, cancellations end and owners let go.
TasksEnd == CancelTerminates /\ OwnersLetGo

\* What may become of a published end when the media it stands for is deleted or
\* cannot be restored, and when a completed playback is removed.
Lapses(state) == CASE state \in {"succeeded", "partial"} -> {"failed"}
                   [] state = "completed" -> {"failed", "absent"}
                   [] OTHER -> {}

\* An end that clients have seen is final while the process lives, except that a
\* success lapses with its media: no task that failed or was cancelled comes to
\* anything else, none succeeds twice, and no end is undone.
TerminalIsFinal ==
    [][\A t \in Tasks : visible[t] \in Terminal /\ crashes' = crashes =>
          visible'[t] \in {visible[t]} \cup Lapses(visible[t])]_vars

\* A committed cancellation request is honoured: whatever the owner was about
\* to record, the task can only become cancelled, also over a restart.
CancelIsHonoured ==
    [][\A t \in Tasks : visible[t] = "cancel_requested" /\ (crashes' = crashes \/ available) =>
          visible'[t] \in {"cancel_requested", "cancelled", "partial"}]_vars

\* What clients were told of the end of a task is taken back only when its media
\* is gone.
EndsAreKept == TerminalIsFinal /\ CancelIsHonoured
=============================================================================
