--------------------------- MODULE PlaybackRestore ---------------------------
(***************************************************************************)
(* The start of the server with a playback task from an earlier life: the  *)
(* scan of the cached sessions, the tasks that cannot be restored, the     *)
(* sessions that no task authorizes, the sources that are refreshed, the   *)
(* finalizers that are resumed and the reconciliation of what could not be *)
(* decided while the state file was unavailable (lib.rs, task_registry.rs, *)
(* hls_cache.rs).  HlsItemLifecycle has the same start with one session of *)
(* a task and everything that may happen later; here a task has a primary  *)
(* session and the session of another result.                              *)
(*                                                                         *)
(* A task is [state, src, items, fill].  An item, of a session, is None or *)
(* [state, src]; "online" is a failed item that still plays online because *)
(* only its offline copy failed.  A source names the session ("id") or the *)
(* library item that it has become ("lib").  An owner that is completed    *)
(* has the library item of its session, and no other has one.              *)
(***************************************************************************)
EXTENDS Naturals, FiniteSets

CONSTANTS
    Primary, Other,   \* the session of the task and that of its second result
    Transcodes,       \* transcoding is configured
    MaxFaults,        \* bound: saves and removals that fail
    None

VARIABLES
    task, vis,   \* the task in memory and as it is visible
    avail,       \* persistence_available
    supported,   \* completed sessions can be played
    disk,        \* what is stored of a session
    reg,         \* HlsPlaybackRegistry: "no", "live" or "completed"
    boot,        \* [pc, scanned, found, completed, restorable, resume, retry, owned]
    fills,       \* sessions that the fill scheduler owns
    faults

vars == <<task, vis, avail, supported, disk, reg, boot, fills, faults>>

Sessions == {Primary, Other}
Loadable == {"partial", "complete", "source"}

\* A task as some earlier life left it.  The second result and the fill
\* statuses are where the crash found them.
Sourced(state, s) == [state |-> state, src |-> IF state = "completed" THEN "lib" ELSE "id"]
EarlierItems(state) ==
    {[s \in Sessions |-> None]}
    \cup {[s \in Sessions |-> IF s = Primary THEN Sourced(p, s)
                              ELSE IF q = "failed" THEN [state |-> q, src |-> None] ELSE Sourced(q, s)] :
            p \in (IF state = "completed" THEN {"completed"} ELSE {"playable", "online"}),
            q \in {"playable", "completed", "online", "failed"}}
EarlierTasks ==
    UNION {{[state |-> state, src |-> Sourced(state, Primary).src, items |-> i, fill |-> f] :
               i \in EarlierItems(state),
               f \in [Sessions -> {"none", "active", "unknown", "done", "failed"}]} :
           state \in {"playable", "completed"}}
\* A fill is only completed with its total: a status without one is that of an
\* owner which an older server completed.
Consistent(t) ==
    /\ \A s \in Sessions : t.items[s] # None =>
        (t.items[s].state = "online" <=> t.fill[s] = "failed") /\ t.fill[s] # "none"
    /\ \A s \in Sessions : t.fill[s] = "unknown" =>
        (IF t.items[s] # None THEN t.items[s].state ELSE t.state) = "completed"

Init ==
    /\ task \in {t \in EarlierTasks : Consistent(t) /\ (t.items[Other] = None => t.fill[Other] = "none")}
    /\ vis = task /\ avail \in BOOLEAN /\ supported \in BOOLEAN
    /\ disk \in [Sessions -> Loadable \cup {"none"}]
    /\ reg = [s \in Sessions |-> "no"]
    /\ boot = [pc |-> "scan", scanned |-> FALSE, found |-> {}, completed |-> {}, restorable |-> {},
               resume |-> {}, retry |-> {}, owned |-> {}]
    /\ fills = {} /\ faults = IF avail THEN 0 ELSE 1   \* loading saves, which may fail

-----------------------------------------------------------------------------
(* What the registry says of a task and a session.                         *)
Item(t, s) == IF t.items[s] = None THEN "none" ELSE t.items[s].state
Kept == {"playable", "completed"}

\* result_item_hls_session_ids: an item without source and session has none.
ItemUses(t, s) == Item(t, s) \notin {"none", "failed"}

\* task_uses_hls_session, playback_hls_session_ids
Uses(t, s) == (s = Primary /\ t.src # None) \/ ItemUses(t, s)

\* result_item_can_serve_online_playback_after_task_completion
ServesOnline(t, s) == Item(t, s) \in Kept \cup {"online"}

\* completed_task_has_playable_result_session
CompletedHasPlayable(t, s) == t.state = "completed" /\ ServesOnline(t, s)

\* playable_task_id_for_hls_session, task_has_playable_hls_session
PlayableFor(t, s) == (t.state = "playable" /\ Uses(t, s)) \/ CompletedHasPlayable(t, s)

\* playback_task_for_any_hls_session and playback_task_has_completed_hls_cache_item
HasCompletedItem(t, s) ==
    /\ t.state \in Kept /\ Uses(t, s)
    /\ (s = Primary /\ t.state = "completed") \/ Item(t, s) = "completed"

\* hls_fill_status_needs_verified_completion_repair
NeedsRepair(t, s) ==
    LET owner == IF ItemUses(t, s) THEN Item(t, s) ELSE IF s = Primary THEN t.state ELSE "none"
    IN \/ owner = "completed" /\ t.fill[s] = "unknown"
       \/ owner \in Kept /\ t.fill[s] = "active"

\* restored_hls_session_is_authorized, is_playback_result_session_playable
Authorized(t, s, available) ==
    IF s = Primary
    THEN IF t.state = "completed" THEN available ELSE PlayableFor(t, s) /\ t.state = "playable"
    ELSE (t.state = "playable" \/ (t.state = "completed" /\ supported)) /\ ServesOnline(t, s)

-----------------------------------------------------------------------------
(* The constructor of the state.                                           *)

\* load_sessions, or a scan that fails and says nothing of the sessions.
Scan ==
    /\ boot.pc = "scan"
    /\ \E ok \in BOOLEAN :
        boot' = [boot EXCEPT !.pc = "migrate", !.scanned = ok,
                             !.found = IF ok THEN {s \in Sessions : disk[s] \in Loadable} ELSE {}]
    /\ UNCHANGED <<task, vis, avail, supported, disk, reg, fills, faults>>

\* A session whose source is complete and that a task already has as completed
\* is stored as completed; then the completed ones that a task has are known.
Migrate ==
    /\ boot.pc = "migrate"
    /\ LET source == {s \in boot.found : supported /\ disk[s] = "source" /\ HasCompletedItem(vis, s)}
       IN \E failed \in SUBSET source :
            /\ faults + Cardinality(failed) <= MaxFaults /\ faults' = faults + Cardinality(failed)
            /\ disk' = [s \in Sessions |-> IF s \in source \ failed THEN "complete" ELSE disk[s]]
            /\ LET completed == {s \in boot.found : supported /\ disk'[s] = "complete"}
               IN boot' = [boot EXCEPT !.pc = "fail", !.completed = completed,
                               !.restorable = {s \in completed : HasCompletedItem(vis, s)}]
    /\ UNCHANGED <<task, vis, avail, supported, reg, fills>>

\* result_item_can_survive_restore_when_session_is_restorable
Survives(t, s) ==
    IF Item(t, s) = "completed" THEN s \in boot.restorable ELSE s \in boot.found

Gone == [state |-> "failed", src |-> None]
Emptied(i) == IF i = None THEN None ELSE Gone

\* clear_unrestorable_result_playback_metadata, clear_result_playback_metadata
Restored(t) ==
    LET primary == IF t.state = "completed" THEN Primary \in boot.restorable ELSE Primary \in boot.found
    IN IF t.state \notin Kept THEN t
       ELSE IF primary
       THEN [t EXCEPT !.items = [s \in Sessions |->
                IF ServesOnline(t, s) /\ ~Survives(t, s) THEN Gone ELSE t.items[s]]]
       ELSE [t EXCEPT !.state = "failed", !.src = None,
                      !.items = [s \in Sessions |-> Emptied(t.items[s])]]

\* A save without a checkpoint: the task in memory stays, whatever becomes of it.
Save(t) ==
    \/ task' = t /\ vis' = t /\ avail' = TRUE /\ UNCHANGED faults
    \/ task' = t /\ vis' = vis /\ avail' = FALSE /\ faults < MaxFaults /\ faults' = faults + 1

\* fail_unrestorable_playback_tasks
FailUnrestorable ==
    /\ boot.pc = "fail" /\ boot' = [boot EXCEPT !.pc = "authorize"]
    /\ IF boot.scanned /\ Restored(task) # task THEN Save(Restored(task))
       ELSE UNCHANGED <<task, vis, avail, faults>>
    /\ UNCHANGED <<supported, disk, reg, fills>>

\* filter_authorized_restored_hls_sessions: what nobody authorizes is removed,
\* or is removed later.  Nothing is decided before the tasks are durable.
Unauthorized == {s \in boot.found : ~Authorized(vis, s, s \in boot.restorable)}
Authorize ==
    /\ boot.pc = "authorize"
    /\ IF avail /\ boot.scanned
       THEN \E failed \in SUBSET Unauthorized :
              /\ faults + Cardinality(failed) <= MaxFaults /\ faults' = faults + Cardinality(failed)
              /\ disk' = [s \in Sessions |-> IF s \in Unauthorized \ failed THEN "none" ELSE disk[s]]
              /\ boot' = [boot EXCEPT !.pc = "refresh", !.resume = boot.found \ Unauthorized,
                                      !.retry = failed]
       ELSE /\ boot' = [boot EXCEPT !.pc = "resume", !.resume = boot.found, !.retry = boot.found]
            /\ UNCHANGED <<disk, faults>>
    /\ UNCHANGED <<task, vis, avail, supported, reg, fills>>

\* refresh_hls_playback_source_with_metadata
Refreshed(t, s) ==
    IF t.state \notin Kept THEN t
    ELSE [t EXCEPT !.src = IF s # Primary THEN @ ELSE IF t.state = "completed" THEN "lib" ELSE "id",
                   !.items[s] = IF ~ServesOnline(t, s) THEN @
                                ELSE [@ EXCEPT !.src = IF s \in boot.restorable THEN "lib" ELSE "id"]]

\* refresh_restored_hls_playback_source: an authorized session is registered, and
\* its sources name this server.
Refresh(s) ==
    /\ boot.pc = "refresh" /\ s \in boot.resume /\ reg[s] = "no" /\ UNCHANGED boot
    /\ reg' = [reg EXCEPT ![s] = IF s \in boot.restorable THEN "completed" ELSE "live"]
    /\ Save(Refreshed(task, s))
    /\ UNCHANGED <<supported, disk, fills>>
Registered ==
    /\ boot.pc = "refresh" /\ \A s \in boot.resume : reg[s] # "no"
    /\ boot' = [boot EXCEPT !.pc = "resume"]
    /\ UNCHANGED <<task, vis, avail, supported, disk, reg, fills, faults>>

-----------------------------------------------------------------------------
(* The runtime: finalizers and reconciliation.                             *)

\* startup_hls_finalizer_task_id, startup_hls_finalizer_task_is_current
Finalizes(s) ==
    (s \in boot.completed /\ HasCompletedItem(vis, s) /\ NeedsRepair(vis, s)) \/ PlayableFor(vis, s)

\* hls_cache_fill_status_is_terminal_failure
OnlineOnly(s) == task.fill[s] = "failed" /\ (s = Primary \/ ItemUses(task, s))

Mine(s) ==
    supported /\ Finalizes(s) /\ (disk[s] = "source" => Transcodes) /\ ~OnlineOnly(s)

\* complete_playback_hls_session_cached_inner
Cached(t, s) ==
    LET item == IF ItemUses(t, s) THEN Sourced("completed", s) ELSE t.items[s]
    IN IF t.state \notin Kept \/ (t.state = "completed" /\ ~CompletedHasPlayable(t, s)) THEN t
       ELSE IF s = Primary
       THEN [t EXCEPT !.state = "completed", !.src = "lib", !.items[s] = item]
       ELSE [t EXCEPT !.items[s] = item]

\* repair_restored_completed_hls_fill_total
Repaired(t, s) == IF NeedsRepair(t, s) THEN [t EXCEPT !.fill[s] = "done"] ELSE t

EnqueueFill(s) == fills' = fills \cup {s}

\* resume_incomplete_hls_cache_finalizers for one session
Finalize(s) ==
    /\ boot.pc = "resume" /\ s \in boot.resume
    /\ boot' = [boot EXCEPT !.resume = @ \ {s}, !.owned = IF Mine(s) THEN @ \cup {s} ELSE @]
    /\ IF ~Mine(s) THEN UNCHANGED <<task, vis, avail, reg, fills, faults>>
       ELSE IF s \in boot.completed /\ avail
       THEN /\ reg' = [reg EXCEPT ![s] = "completed"]
            /\ \/ Save(Cached(Repaired(task, s), s))
                  /\ IF avail' THEN UNCHANGED fills ELSE EnqueueFill(s)
               \* The repair is saved and the completion is not.
               \/ /\ faults < MaxFaults /\ faults' = faults + 1
                  /\ vis' = Repaired(task, s) /\ task' = Cached(vis', s) /\ avail' = FALSE
                  /\ EnqueueFill(s)
               \* The total is not available, or the manifest is not saved.
               \/ faults < MaxFaults /\ faults' = faults + 1 /\ UNCHANGED <<task, vis, avail>>
                  /\ EnqueueFill(s)
       ELSE EnqueueFill(s) /\ UNCHANGED <<task, vis, avail, reg, faults>>
    /\ UNCHANGED <<supported, disk>>

Resumed == boot.pc = "resume" /\ boot.resume = {}
Start ==
    /\ Resumed /\ boot' = [boot EXCEPT !.pc = "run"]
    /\ UNCHANGED <<task, vis, avail, supported, disk, reg, fills, faults>>

\* retry_pending_task_persistence
Recover ==
    /\ boot.pc = "run" /\ ~avail /\ avail' = TRUE /\ vis' = task
    /\ UNCHANGED <<task, supported, disk, reg, boot, fills, faults>>

Available(s) == s \in boot.restorable \/ disk[s] = "complete"

\* The reconciliation of one session by the startup worker
Reconcile(s) ==
    /\ boot.pc = "run" /\ avail /\ s \in boot.retry
    /\ ~(s \in boot.owned /\ s \in fills)
    /\ IF Authorized(vis, s, Available(s))
       THEN boot' = [boot EXCEPT !.retry = @ \ {s}] /\ UNCHANGED <<disk, reg, faults>>
       ELSE \/ /\ disk' = [disk EXCEPT ![s] = "none"] /\ reg' = [reg EXCEPT ![s] = "no"]
               /\ boot' = [boot EXCEPT !.retry = @ \ {s}] /\ UNCHANGED faults
            \/ /\ faults < MaxFaults /\ faults' = faults + 1 /\ UNCHANGED <<boot, disk, reg>>
    /\ UNCHANGED <<task, vis, avail, supported, fills>>

\* A resumed fill ends: its data is complete and is published, or its task is
\* left alone.
FillEnds(s) ==
    /\ boot.pc = "run" /\ s \in fills /\ avail /\ fills' = fills \ {s}
    /\ IF PlayableFor(vis, s) \/ HasCompletedItem(vis, s)
       THEN /\ disk[s] \in Loadable /\ disk' = [disk EXCEPT ![s] = "complete"]
            /\ reg' = [reg EXCEPT ![s] = "completed"]
            /\ LET done == Cached([task EXCEPT !.fill[s] = "done"], s)
               IN task' = done /\ vis' = done
       ELSE UNCHANGED <<task, vis, disk, reg>>
    /\ UNCHANGED <<avail, supported, boot, faults>>

\* A request for a session that is not registered: hls_playback_session_for_serving
Restores(s) ==
    IF s = Primary THEN IF vis.state = "completed" THEN supported /\ disk[s] = "complete"
                        ELSE PlayableFor(vis, s) /\ disk[s] \in Loadable
    ELSE \/ HasCompletedItem(vis, s) /\ supported /\ disk[s] = "complete"
         \/ Authorized(vis, s, FALSE) /\ disk[s] \in Loadable
Serve(s) ==
    /\ boot.pc = "run" /\ s \notin boot.retry /\ reg[s] = "no" /\ Restores(s)
    /\ reg' = [reg EXCEPT ![s] = IF HasCompletedItem(vis, s) THEN "completed" ELSE "live"]
    /\ UNCHANGED <<task, vis, avail, supported, disk, boot, fills, faults>>

Next ==
    \/ Scan \/ Migrate \/ FailUnrestorable \/ Authorize \/ Registered \/ Start \/ Recover
    \/ \E s \in Sessions : Refresh(s) \/ Finalize(s) \/ Reconcile(s) \/ FillEnds(s) \/ Serve(s)

Spec == Init /\ [][Next]_vars

-----------------------------------------------------------------------------
(* Properties.                                                             *)
Offers(t, s) == t.state \in Kept /\ (s = Primary \/ ServesOnline(t, s))
Settled == boot.pc = "run" /\ boot.scanned /\ avail

\* Once the server runs on a scanned cache and a saved state, what its task
\* offers is stored, and a session offered as completed is complete.
OffersAreStored ==
    Settled => \A s \in Sessions : Offers(vis, s) =>
        /\ disk[s] \in Loadable
        /\ HasCompletedItem(vis, s) => disk[s] = "complete"

\* What no task offers is removed, or the startup worker still has it.
NothingIsLeftOver ==
    Settled => \A s \in Sessions : disk[s] \in Loadable => Offers(vis, s) \/ s \in boot.retry

\* Only sessions that the visible task offers are registered.
RegisteredIsOffered ==
    boot.pc = "run" => \A s \in Sessions : reg[s] # "no" => Offers(vis, s)

\* A source names the library item exactly when its owner is completed.
SourcesMatch ==
    boot.pc = "run" =>
        /\ vis.state \in Kept => (vis.src = "lib") = (vis.state = "completed")
        /\ \A s \in Sessions : ServesOnline(vis, s) =>
              (vis.items[s].src = "lib") = (Item(vis, s) = "completed")

\* An owner that is completed says so in its fill status, with its total, or a
\* resumed fill will make it so.
CompletionsAreRepaired ==
    Settled /\ supported => \A s \in Sessions :
        HasCompletedItem(vis, s) /\ NeedsRepair(vis, s) => s \in fills

RestoreIsSound ==
    /\ OffersAreStored /\ NothingIsLeftOver /\ RegisteredIsOffered /\ SourcesMatch
    /\ CompletionsAreRepaired

\* Stored data is removed only when the saved state offers it no more.
RemovalIsAuthorized ==
    \A s \in Sessions : disk[s] # "none" /\ disk'[s] = "none" => avail /\ ~Offers(vis, s)
=============================================================================
