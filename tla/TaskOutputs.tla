---------------------------- MODULE TaskOutputs ----------------------------
(***************************************************************************)
(* The output of one v2 download task, from its acceptance to the deletion *)
(* of its media: the directories the download owns, the media and sidecar  *)
(* files in them, the resource bodies copied out of them, the task's       *)
(* results, the persisted cleanup intents, and the snapshots of all of     *)
(* this that a restart may load.                                           *)
(*                                                                         *)
(* Each save is one step: the registry holds its mutation lock from the    *)
(* change to the publication.  What the disk may hold after a crash is the *)
(* set `saved'.                                                            *)
(***************************************************************************)
EXTENDS Naturals, FiniteSets

CONSTANTS
    Cands,          \* the accepted candidates of the task
    MaxFaults,      \* bound: failing saves, renames, removals, downloads
    MaxCrashes      \* bound: crashes

VARIABLES
    live,       \* task, output and pending_file_cleanup_intents
    vis,        \* the visible counterpart readers see
    saved,      \* snapshots a restart may load
    avail,      \* persistence_available
    gate,       \* intents of the library publication gate
    dirs,       \* which of the two owned directories exist
    files,      \* media and sidecar files, <<directory, candidate, kind>>
    bodies,     \* resource bodies on disk, <<candidate, run>>
    staged,     \* staged_resource_owner_counts
    pend,       \* pending_resource_cleanup_ids
    dur,        \* durable_resource_cleanup_ids
    orphan,     \* orphan_resource_scan_pending
    storage,    \* resource_storage_available
    reval,      \* resource_storage_revalidation_ids
    sweep,      \* the cleanup of the bodies that is due: none, plain or scan
    lease,      \* resources of the snapshot a reader retains
    w,          \* the worker that runs the download
    defer,      \* deferred_local_library_cleanup_owner_ids
    d,          \* the deletion of a library item
    faults, crashes

vars == <<live, vis, saved, avail, gate, dirs, files, bodies, staged, pend, dur,
          orphan, storage, reval, sweep, lease, w, defer, d, faults, crashes>>

registry == <<live, vis, saved, avail, gate, pend, dur>>
disk     == <<dirs, files>>
stores   == <<bodies, staged, orphan, storage, reval, lease>>

Places    == {"staging", "published"}
Owned     == {<<"dir", p>> : p \in Places}
Terminal  == {"succeeded", "failed", "cancelled"}
Media(c)  == <<"published", c, "media">>
Side(c)   == <<"published", c, "side">>
None      == [c \in Cands |-> "none"]

Idle == [pc |-> "idle", out |-> None, err |-> FALSE, cancel |-> FALSE, seen |-> FALSE, lease |-> {}]

Init ==
    /\ live = [st |-> "queued", res |-> None, rs |-> {}, intents |-> {}]
    /\ vis = live /\ saved = {live} /\ avail = TRUE /\ gate = {}
    /\ dirs = {} /\ files = {} /\ bodies = {}
    /\ staged = {} /\ pend = {} /\ dur = {}
    /\ orphan = FALSE /\ storage = TRUE /\ reval = {} /\ sweep = "none" /\ lease = {}
    /\ w = Idle
    /\ defer = {} /\ d = [pc |-> "idle", item |-> {}]
    /\ faults = 0 /\ crashes = 0

Fault == faults < MaxFaults /\ faults' = faults + 1

(***************************************************************************)
(* Saves.                                                                  *)
(***************************************************************************)
\* Retention may drop a terminal task from any snapshot; its intents stay.
Pruned(t) == [t EXCEPT !.st = "gone", !.res = None, !.rs = {}]

Snapshots(t) == IF t.st \in Terminal THEN {t, Pruned(t)} ELSE {t}

\* reserved_resource_ids_locked, with `t' as the live output.
Reserved(t) == t.rs \cup vis.rs \cup lease \cup pend \cup dur \cup staged

\* resource_body_owner_ids_locked.
Owners_WithoutLeases == live.rs \cup vis.rs \cup staged

Owners == live.rs \cup vis.rs \cup lease \cup staged

\* cleanup_orphaned_resource_bodies_at_startup: what the first durable save
\* after a restart, which leaves `t', finds without an owner.
Stray(t) == IF orphan THEN bodies \ (t.rs \cup lease \cup staged) ELSE {}

\* A call of cleanup_durable_resource_bodies joins one that is already due.
Sweeping == IF sweep = "none" THEN "plain" ELSE sweep

\* persist_and_publish_pending_with_policy.  `new' is the changed live state,
\* `retired' what it no longer references, `drop' the claims the caller gives
\* up in the same step.
Save(new, retired, mustBeDurable, rollback, out) ==
    /\ out = "durable" \/ faults < MaxFaults
    /\ faults' = IF out = "durable" THEN faults ELSE faults + 1
    /\ avail' = (out = "durable")
    /\ \E t \in Snapshots(new) :
         LET ids == pend \cup retired \cup (new.rs \ t.rs)
         IN  \/ /\ out = "durable"
                /\ live' = t /\ vis' = t /\ saved' = {t}
                /\ gate' = t.intents
                /\ pend' = {} /\ dur' = dur \cup ids \cup Stray(t)
                /\ sweep' = IF orphan THEN "scan" ELSE "plain"
             \/ /\ out = "installed" /\ ~mustBeDurable
                /\ live' = t /\ vis' = t /\ saved' = saved \cup {t}
                /\ pend' = ids
                /\ UNCHANGED <<gate, dur, sweep>>
             \/ /\ out = "installed" /\ mustBeDurable
                /\ saved' = saved \cup {t}
                /\ UNCHANGED <<live, vis, gate, pend, dur, sweep>>
             \/ /\ out = "rejected" /\ t = new
                /\ live' = IF rollback THEN live ELSE new
                /\ pend' = IF rollback THEN pend ELSE pend \cup retired
                /\ dur' = IF rollback THEN dur \cup (new.rs \ Reserved(live)) ELSE dur
                /\ sweep' = IF dur' # dur THEN Sweeping ELSE sweep
                /\ UNCHANGED <<vis, saved, gate>>

Outcomes == {"durable", "installed", "rejected"}

\* A registration or a removal is only relied on once it is durable.
MustBeDurable(out) == out = "durable"

\* retry_pending_persistence, by the worker of the persistence or a reader.
RetryPersistence ==
    /\ ~avail
    /\ \E out \in Outcomes : Save(live, {}, FALSE, FALSE, out)
    /\ UNCHANGED <<dirs, files, bodies, staged, orphan, storage, reval, lease, w, defer, d, crashes>>

(***************************************************************************)
(* The download.                                                           *)
(***************************************************************************)
\* try_claim_next_bilibili_task holds a v2 task back while its directories
\* are still to be removed.
Claim ==
    /\ w.pc = "idle" /\ live.st = "queued" /\ avail
    /\ live.intents \cap Owned = {}
    /\ \E out \in Outcomes : Save([live EXCEPT !.st = "running"], {}, FALSE, FALSE, out)
    /\ w' = [Idle EXCEPT !.pc = "register"]
    /\ UNCHANGED <<disk, stores, defer, d, crashes>>

\* register_bilibili_owned_output_directories, before anything is created.
RegisterDirectories ==
    /\ w.pc = "register" /\ live.st = "running"
    /\ \E out \in Outcomes :
         /\ Save([live EXCEPT !.intents = @ \cup Owned], {}, TRUE, TRUE, out)
         /\ w' = [w EXCEPT !.pc = IF MustBeDurable(out) THEN "create" ELSE "fail"]
    /\ UNCHANGED <<disk, stores, defer, d, crashes>>

RegistrationRefused ==
    /\ w.pc = "register" /\ live.st # "running"
    /\ w' = [w EXCEPT !.pc = "fail"]
    /\ UNCHANGED <<registry, disk, stores, sweep, defer, d, faults, crashes>>

CreateStaging ==
    /\ w.pc = "create"
    /\ \/ /\ "staging" \notin dirs
          /\ dirs' = dirs \cup {"staging"}
          /\ w' = [w EXCEPT !.pc = "download"]
          /\ UNCHANGED faults
       \/ /\ Fault
          /\ w' = [w EXCEPT !.pc = "fail"]
          /\ UNCHANGED dirs
    /\ UNCHANGED <<registry, files, stores, sweep, defer, d, crashes>>

\* One candidate of the download loop: skipped after a cancellation or after
\* the output was spoilt, ...
Skip(c) ==
    /\ w.err \/ w.seen \/ w.cancel
    /\ w' = [w EXCEPT !.out[c] = "failed", !.seen = @ \/ w.cancel]
    /\ UNCHANGED <<files, faults>>

\* ... downloaded and muxed, ...
Succeed(c) ==
    /\ ~w.err /\ ~w.seen
    /\ files' = files \cup {<<"staging", c, "media">>, <<"staging", c, "side">>}
    /\ w' = [w EXCEPT !.out[c] = "ok"]
    /\ UNCHANGED faults

\* cleanup_failed_v2_candidate_output: a directory that can not be removed
\* spoils the whole output.
CleanFailed(c) ==
    \/ /\ w' = [w EXCEPT !.out[c] = "failed", !.seen = w.cancel]
       /\ UNCHANGED files
       /\ IF w.cancel THEN UNCHANGED faults ELSE Fault
    \/ /\ w' = [w EXCEPT !.out[c] = "failed", !.seen = w.cancel, !.err = TRUE]
       /\ files' = files \cup {<<"staging", c, "side">>}
       /\ Fault

\* ... or failed, or cancelled, in its plan, its transfer or its mux.
Fail(c) ==
    /\ ~w.err /\ ~w.seen
    /\ CleanFailed(c)

Download(c) ==
    /\ w.pc = "download" /\ w.out[c] = "none"
    /\ Skip(c) \/ Succeed(c) \/ Fail(c)
    /\ UNCHANGED <<registry, dirs, stores, sweep, defer, d, crashes>>

Downloaded == {c \in Cands : w.out[c] = "ok"}

\* publish_v2_output_directory renames the staging directory; the report is
\* validated again afterwards, so that the rename may succeed and the
\* publication still fail.
PublishDirectory ==
    /\ w.pc = "download" /\ \A c \in Cands : w.out[c] # "none"
    /\ \/ /\ w.err \/ Downloaded = {}
          /\ w' = [w EXCEPT !.pc = "map"]
          /\ UNCHANGED <<dirs, files, faults>>
       \/ /\ ~w.err /\ Downloaded # {} /\ "published" \notin dirs
          /\ dirs' = {"published"}
          /\ files' = {<<"published", f[2], f[3]>> : f \in files}
          /\ \/ w' = [w EXCEPT !.pc = "map"] /\ UNCHANGED faults
             \/ w' = [w EXCEPT !.pc = "map", !.err = TRUE] /\ Fault
       \/ /\ ~w.err /\ Downloaded # {} /\ Fault
          /\ w' = [w EXCEPT !.pc = "map", !.err = TRUE]
          /\ UNCHANGED <<dirs, files>>
    /\ UNCHANGED <<registry, stores, sweep, defer, d, crashes>>

\* finalize_v2_download_result for every downloaded candidate: a lease on the
\* library item, or the candidate's directory is removed again.  When that
\* removal fails too, the adapter returns an error.
MapResults ==
    /\ w.pc = "map"
    /\ \/ /\ w.err
          /\ w' = [w EXCEPT !.pc = "mapped", !.out = [c \in Cands |-> "failed"]]
          /\ UNCHANGED <<files, faults>>
       \/ /\ ~w.err
          /\ w' = [w EXCEPT !.pc = "mapped", !.lease = Downloaded]
          /\ UNCHANGED <<files, faults>>
       \/ /\ ~w.err /\ Fault
          /\ \E c \in Downloaded :
               /\ files' = files \ {Media(c), Side(c)}
               /\ w' = [w EXCEPT !.pc = "mapped", !.out[c] = "failed", !.lease = Downloaded \ {c}]
       \/ /\ ~w.err /\ Downloaded # {} /\ Fault
          /\ w' = [w EXCEPT !.pc = "fail"]
          /\ UNCHANGED files
    /\ UNCHANGED <<registry, dirs, stores, sweep, defer, d, crashes>>

(***************************************************************************)
(* The publication of the output by the worker.                            *)
(***************************************************************************)
Resources == {<<c, crashes>> : c \in Downloaded}

Verdict == IF w.seen THEN "cancelled" ELSE IF Downloaded # {} THEN "succeeded" ELSE "failed"

\* The directories that are still to be removed when the output is published.
CleanupPaths == IF Downloaded = {} THEN Owned ELSE {<<"dir", "staging">>}

\* validate_task_output_resource_claims_locked: an id is not taken over from
\* what readers see or retain, nor from what is still to be removed.
Conflict == (Resources \ live.rs) \cap (vis.rs \cup lease \cup pend \cup dur) # {}

\* run_one_bilibili_task: a cancellation that the adapter did not see discards
\* what it has downloaded.
Discard ==
    /\ w.pc = "mapped" /\ w.cancel /\ Verdict # "cancelled"
    /\ w' = [w EXCEPT !.pc = "fail"]
    /\ UNCHANGED <<registry, disk, stores, sweep, defer, d, faults, crashes>>

\* stage_task_output_replacement: claims on the resource ids, before bodies.
Stage ==
    /\ w.pc \in {"stage", "mapped"}
    /\ w.pc = "mapped" /\ w.cancel => Verdict = "cancelled"
    /\ \/ /\ storage /\ live.st # "gone" /\ ~Conflict
          /\ staged' = Resources
          /\ w' = [w EXCEPT !.pc = "bodies"]
       \/ /\ ~storage \/ live.st = "gone" \/ Conflict
          /\ w' = [w EXCEPT !.pc = "fail"]
          /\ UNCHANGED staged
    /\ UNCHANGED <<registry, disk, bodies, orphan, storage, reval, lease, sweep, defer, d, faults, crashes>>

\* create_staged_resource_bodies: one after the other, until a write fails or
\* the task is cancelled.
CreateBodies ==
    /\ w.pc = "bodies"
    /\ \/ /\ bodies' = bodies \cup Resources
          /\ w' = [w EXCEPT !.pc = "commit"]
          /\ UNCHANGED faults
       \/ /\ \E S \in SUBSET (Resources \ live.rs) :
               /\ S # Resources
               /\ bodies' = bodies \cup S
          /\ IF w.cancel THEN UNCHANGED faults ELSE Fault
          /\ w' = [w EXCEPT !.pc = "reject"]
    /\ UNCHANGED <<registry, disk, staged, orphan, storage, reval, lease, sweep, defer, d, crashes>>

\* reject_staged_task_output_resources, when the claim is dropped unused.
Unclaimed == staged \ (live.rs \cup vis.rs \cup lease \cup pend \cup dur)

Reject ==
    /\ w.pc = "reject"
    /\ staged' = {}
    /\ dur' = dur \cup Unclaimed
    /\ sweep' = IF Unclaimed # {} /\ ~orphan THEN Sweeping ELSE sweep
    /\ w' = [w EXCEPT !.pc = "fail"]
    /\ UNCHANGED <<live, vis, saved, avail, gate, pend, disk, bodies, orphan, storage, reval, lease,
                   defer, d, faults, crashes>>

\* commit_staged_download_terminal.
CommitTerminal ==
    LET new == [live EXCEPT !.st = IF @ = "cancelling" THEN "cancelled" ELSE Verdict,
                            !.res = [c \in Cands |-> IF c \in Downloaded THEN "ok" ELSE "failed"],
                            !.rs = Resources,
                            !.intents = (@ \ Owned) \cup CleanupPaths
                                          \cup {<<"side", c>> : c \in Downloaded}]
    IN  /\ w.pc = "commit" /\ live.st \notin Terminal \cup {"gone"}
        /\ live.st = "cancelling" => Verdict = "cancelled"
        /\ \E out \in Outcomes :
             /\ Save(new, live.rs \ Resources, FALSE, TRUE, out)
             /\ staged' = IF out = "rejected" THEN staged ELSE {}
             /\ w' = [w EXCEPT !.pc = CASE out = "durable" -> "sides"
                                        [] out = "installed" -> "again"
                                        [] out = "rejected" -> "undo"]
        /\ UNCHANGED <<disk, bodies, orphan, storage, reval, lease, defer, d, crashes>>

\* The save was rejected: the claim is dropped, the whole publication is
\* repeated once the store has recovered.
DropClaim ==
    /\ w.pc = "undo"
    /\ staged' = {}
    /\ dur' = dur \cup Unclaimed
    /\ sweep' = IF Unclaimed # {} /\ ~orphan THEN Sweeping ELSE sweep
    /\ w' = [w EXCEPT !.pc = "again"]
    /\ UNCHANGED <<live, vis, saved, avail, gate, pend, disk, bodies, orphan, storage, reval, lease,
                   defer, d, faults, crashes>>

PublishAgain ==
    /\ w.pc = "again" /\ avail
    /\ w' = [w EXCEPT !.pc = "stage"]
    /\ UNCHANGED <<registry, disk, stores, sweep, defer, d, faults, crashes>>

\* A repeated commit finds the task settled, or gone; a late cancellation wins.
CommitRefused ==
    /\ w.pc = "commit"
    /\ \/ /\ live.st \in Terminal
          /\ w' = [w EXCEPT !.pc = IF avail THEN "sides" ELSE "again"]
          /\ staged' = {}
       \/ /\ (live.st = "cancelling" /\ Verdict # "cancelled") \/ live.st = "gone"
          /\ w' = [w EXCEPT !.pc = "reject"]
          /\ UNCHANGED staged
    /\ UNCHANGED <<registry, disk, bodies, orphan, storage, reval, lease, sweep, defer, d, faults, crashes>>

\* complete_task_failed or complete_task_cancelled, repeated until it is durable.
CompleteTask ==
    /\ w.pc = "fail"
    /\ IF live.st \in Terminal \cup {"gone"}
       THEN /\ w' = [w EXCEPT !.pc = IF avail THEN "dirs" ELSE "fail"]
            /\ avail
            /\ UNCHANGED <<registry, sweep, faults>>
       ELSE /\ \E out \in Outcomes :
                 Save([live EXCEPT !.st = IF @ = "cancelling" THEN "cancelled" ELSE "failed"],
                      {}, FALSE, FALSE, out)
            /\ UNCHANGED w
    /\ UNCHANGED <<disk, stores, defer, d, crashes>>

(***************************************************************************)
(* Files go by intent: first the file, then the intent, durably.           *)
(***************************************************************************)
Victims(I) == {f \in files : \/ <<"dir", f[1]>> \in I
                             \/ f[3] = "side" /\ f[1] = "published" /\ <<"side", f[2]>> \in I
                             \/ f[3] = "media" /\ f[1] = "published" /\ <<"item", f[2]>> \in I}

\* retry_file_cleanup_intents for the intents I.  The directory of the last
\* published file goes with it.
Cleanup(I) ==
    \/ /\ I = {}
       /\ UNCHANGED <<registry, disk, sweep, faults>>
    \/ /\ I # {}
       /\ files' = files \ Victims(I)
       /\ dirs' = {p \in dirs : /\ <<"dir", p>> \notin I
                                /\ p = "published" => \E f \in files' : f[1] = p}
       /\ \E out \in Outcomes : Save([live EXCEPT !.intents = @ \ I], {}, TRUE, TRUE, out)
    \/ /\ I # {} /\ Fault       \* the files can not be removed
       /\ UNCHANGED <<registry, disk, sweep>>

OfKind(kinds) == {i \in live.intents : i[1] \in kinds}

\* After the publication the worker removes its sidecars, then its directories.
CleanSides ==
    /\ w.pc = "sides"
    /\ Cleanup(OfKind({"side"}))
    /\ w' = [w EXCEPT !.pc = "dirs"]
    /\ UNCHANGED <<stores, defer, d, crashes>>

CleanDirectories ==
    /\ w.pc = "dirs"
    /\ Cleanup(OfKind({"dir"}))
    /\ w' = Idle
    /\ UNCHANGED <<stores, defer, d, crashes>>

\* file_cleanup_intent_is_ready_for_global_retry.
Ready == {i \in live.intents : /\ i[1] = "item" => i[2] \notin defer
                               /\ i[1] = "dir" => live.st \notin {"running", "cancelling"}}

GlobalCleanup ==
    /\ Ready # {}
    /\ Cleanup(Ready)
    /\ UNCHANGED <<stores, w, defer, d, crashes>>

(***************************************************************************)
(* Resource bodies.                                                        *)
(***************************************************************************)
\* retain_task_output_snapshot and release_task_output_snapshots; both end
\* in a cleanup of the bodies.
Retain ==
    /\ lease = {} /\ vis.rs # {} /\ storage
    /\ lease' = vis.rs /\ sweep' = Sweeping
    /\ UNCHANGED <<registry, disk, bodies, staged, orphan, storage, reval, w, defer, d, faults, crashes>>

Release ==
    /\ lease # {}
    /\ lease' = {} /\ sweep' = Sweeping
    /\ UNCHANGED <<registry, disk, bodies, staged, orphan, storage, reval, w, defer, d, faults, crashes>>

\* open_task_resource: a body that can not be opened or validated closes the
\* whole storage until it has been validated again.
OpenBody(id) ==
    /\ id \in vis.rs \cup lease
    /\ \/ /\ reval' = reval \ {id} /\ sweep' = Sweeping
          /\ UNCHANGED <<storage, faults>>
       \/ /\ Fault
          /\ reval' = reval \cup {id} /\ storage' = FALSE
          /\ UNCHANGED sweep
    /\ UNCHANGED <<registry, disk, bodies, staged, orphan, lease, w, defer, d, crashes>>

\* cleanup_durable_resource_bodies, after the pending revalidations; the call
\* after an orphan scan ends that.
SweepBodies ==
    LET todo == dur \ Owners
    IN  /\ sweep # "none"
        /\ sweep' = "none"
        /\ \/ /\ bodies' = bodies \ todo
              /\ dur' = dur \ todo
              /\ reval' = {}
              /\ orphan' = (orphan /\ sweep = "plain")
              /\ storage' = ~orphan'
              /\ UNCHANGED faults
           \/ /\ reval # {} /\ Fault
              /\ bodies' = bodies \ todo
              /\ dur' = dur \ todo
              /\ storage' = FALSE
              /\ UNCHANGED <<reval, orphan>>
           \/ /\ todo # {} /\ Fault
              /\ storage' = FALSE
              /\ UNCHANGED <<bodies, dur, reval, orphan>>
        /\ UNCHANGED <<live, vis, saved, avail, gate, pend, disk, staged, lease, w, defer, d, crashes>>

(***************************************************************************)
(* Requests.                                                               *)
(***************************************************************************)
CancelTask ==
    /\ live.st \in {"queued", "running"}
    /\ \E out \in Outcomes :
         /\ Save([live EXCEPT !.st = IF @ = "queued" THEN "cancelled" ELSE "cancelling"],
                 {}, FALSE, TRUE, out)
         /\ w' = IF out # "rejected" /\ live.st = "running" THEN [w EXCEPT !.cancel = TRUE] ELSE w
    /\ UNCHANGED <<disk, stores, defer, d, crashes>>

\* prepare_item_deletion: the item is in the library (the gate does not hide
\* it) and no publication holds it.
PrepareDeletion(c) ==
    /\ d.pc = "idle" /\ Media(c) \in files
    /\ gate \cap {<<"dir", "published">>, <<"item", c>>} = {}
    /\ w.lease \cap {c} = {}
    /\ d' = [pc |-> "prepared", item |-> {c}]
    /\ UNCHANGED <<registry, disk, stores, sweep, w, defer, faults, crashes>>

\* tombstone_library_item_before_delete: the intent, the barrier against the
\* background cleanup and the results, in one durable save.
Tombstone ==
    LET left == [c \in Cands |-> IF c \in d.item /\ live.res[c] = "ok" THEN "deleted" ELSE live.res[c]]
        new == [live EXCEPT !.intents = @ \cup {<<"item", c>> : c \in d.item},
                            !.res = left,
                            !.st = IF left = live.res THEN @
                                   ELSE IF \E c \in Cands : left[c] = "ok" THEN @ ELSE "failed"]
    IN  /\ d.pc = "prepared"
        /\ \E out \in Outcomes :
             /\ Save(new, {}, TRUE, TRUE, out)
             /\ IF MustBeDurable(out)
                THEN d' = [d EXCEPT !.pc = "unlink"] /\ defer' = defer \cup d.item
                ELSE d' = [pc |-> "idle", item |-> {}] /\ UNCHANGED defer
        /\ UNCHANGED <<disk, stores, w, crashes>>

\* PreparedLibraryItemDeletion::delete.
Unlink ==
    /\ d.pc = "unlink"
    /\ defer' = defer \ d.item
    /\ Cleanup({<<"item", c>> : c \in d.item} \cap live.intents)
    /\ d' = [pc |-> "idle", item |-> {}]
    /\ UNCHANGED <<stores, w, crashes>>

(***************************************************************************)
(* A crash, and the restart from what the disk holds.                      *)
(***************************************************************************)
\* restore_persisted_record.
Restored(t) ==
    [t EXCEPT !.st = CASE @ = "running" -> "queued" [] @ = "cancelling" -> "cancelled" [] OTHER -> @]

Restart ==
    /\ crashes < MaxCrashes
    /\ crashes' = crashes + 1
    /\ \E t \in saved :
         /\ live' = Restored(t) /\ vis' = Restored(t)
         /\ saved' = {t} /\ gate' = t.intents
    /\ avail' = FALSE       \* until persist_current_state has succeeded
    /\ staged' = {} /\ pend' = {} /\ dur' = {} /\ lease' = {}
    /\ orphan' = TRUE /\ storage' = FALSE /\ reval' = {} /\ sweep' = "none"
    /\ w' = Idle /\ defer' = {} /\ d' = [pc |-> "idle", item |-> {}]
    /\ UNCHANGED <<dirs, files, bodies, faults>>

Next ==
    \/ RetryPersistence \/ Claim \/ RegisterDirectories \/ RegistrationRefused \/ CreateStaging
    \/ \E c \in Cands : Download(c) \/ PrepareDeletion(c)
    \/ PublishDirectory \/ MapResults \/ Discard \/ Stage \/ CreateBodies \/ Reject
    \/ CommitTerminal \/ DropClaim \/ PublishAgain \/ CommitRefused \/ CompleteTask
    \/ CleanSides \/ CleanDirectories \/ GlobalCleanup
    \/ Retain \/ Release \/ SweepBodies
    \/ \E id \in bodies : OpenBody(id)
    \/ CancelTask \/ Tombstone \/ Unlink
    \/ Restart

Spec == Init /\ [][Next]_vars

(***************************************************************************)
(* What must hold.                                                         *)
(***************************************************************************)
Snapshot == saved \cup {live, vis}

\* Whatever readers see now and whatever a restart may load, a result that
\* succeeded has its media on disk and no cleanup of the same snapshot will
\* take it away, and every resource of the output, or of an output that a
\* reader retains, has its body.
OutputIsBacked ==
    /\ \A t \in Snapshot :
          /\ \A c \in Cands : t.res[c] = "ok" =>
                /\ Media(c) \in files
                /\ t.intents \cap {<<"dir", "published">>, <<"item", c>>} = {}
          /\ t.rs \subseteq bodies
    /\ lease \subseteq bodies

\* Whatever a restart may load, it knows what to do with each file of the
\* download: a result that offers it or an intent that removes it.  (Media
\* outlives the task that retention has dropped: it stays in the library.)
\* Every body that the running server does not use is due for removal.
NothingIsOrphaned ==
    /\ \A t \in saved \cup {live} : \A f \in files :
          \/ <<"dir", f[1]>> \in t.intents
          \/ f[1] = "published" /\ f[3] = "side" /\ <<"side", f[2]>> \in t.intents
          \/ f[1] = "published" /\ f[3] = "media" /\
               (t.res[f[2]] = "ok" \/ <<"item", f[2]>> \in t.intents \/ t.st = "gone")
    /\ bodies \subseteq Owners \cup dur \cup pend \/ orphan
=============================================================================
