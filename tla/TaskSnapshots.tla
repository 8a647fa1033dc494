--------------------------- MODULE TaskSnapshots ---------------------------
(***************************************************************************)
(* The task state file (task_store.rs) and the output record of a task     *)
(* (task_output.rs): how an output is replaced, edited and retired, how    *)
(* the record of a task is encoded, saved and made durable, and what an    *)
(* older or this version of the server loads from it after a crash.        *)
(*                                                                         *)
(* There is one task with at most two results "a" and "b"; its output may  *)
(* own the resource "r", and a result may be backed by a library item      *)
(* ("lib").  Sizes in bytes are left out.                                  *)
(***************************************************************************)
EXTENDS Naturals, Sequences, FiniteSets

CONSTANTS
    Schema,    \* TASK_STATE_SCHEMA_VERSION
    Legacy,     \* files that older versions may have left
    MaxSnaps,   \* bound: output snapshots
    MaxSyncFaults,  \* bound: failing directory syncs
    Absent

VARIABLES
    rec,        \* the task in memory, Absent once it is deleted
    intents,    \* pending file cleanup intents: <<kind, owner is the task>>
    store,      \* "loading", "ready", "dirty", "saving", "renamed" or "disabled"
    pending,    \* pending_directory_syncs
    vol, dur,   \* the directories and the file, as they are and as synced
    acked,      \* the last state that was reported as durable and those saved
                \* since, none before the first report
    snaps, faults

snapshotsVars == <<rec, intents, store, pending, vol, dur, acked, snaps, faults>>

(***************************************************************************)
(* Records.                                                                *)
(***************************************************************************)
Names == {"a", "b"}
ItemRecord == [id : Names, st : {"run", "ok", "fail"}, played : BOOLEAN]
ResultRecord ==
    [id : Names, st : {"run", "ok", "fail"}, art : {"none", "avail", "gone"}, back : {"none", "lib", "r"}]
ResourceSet == SUBSET [id : {"r"}, bound : BOOLEAN]
OutputRecord ==
    [snap : Nat, rev : Nat, primary : Names \cup {"none"}, results : Seq(ResultRecord),
     resources : ResourceSet, legacy : BOOLEAN]
TaskRecord ==
    [cands : Seq(Names), active : BOOLEAN, frozen : BOOLEAN, items : Seq(ItemRecord), out : OutputRecord]

\* A task has items, each of another name, and is active while one of them runs.
HasItems(task) ==
    /\ task.items # << >>
    /\ Cardinality({task.items[i].id : i \in DOMAIN task.items}) = Len(task.items)
    /\ task.active = \E i \in DOMAIN task.items : task.items[i].st = "run"

\* The state that is saved, and the file that it is saved in.
IntentSet == SUBSET ({"file"} \X BOOLEAN)
StateRecord == [rec : TaskRecord \cup {Absent}, intents : IntentSet]
FileRecord ==
    [schema : Nat, pend : IntentSet, root : BOOLEAN, tombs : SUBSET {"task"},
     task : TaskRecord \cup {Absent}, of : StateRecord \cup {Absent}]

\* The files of older versions hold snapshots that this version did not make.
ASSUME OlderVersions ==
    /\ Schema \in Nat /\ Schema > 7
    /\ Absent \notin TaskRecord /\ Absent \notin FileRecord
    /\ Legacy \subseteq FileRecord
    /\ \A f \in Legacy :
          /\ f.schema \in 1 .. (Schema - 1)
          /\ f.task # Absent =>
                /\ HasItems(f.task)
                /\ f.task.out.snap = 0
                /\ f.task.out.legacy \/ f.task.out.results # << >>

(***************************************************************************)
(* The output of a task.                                                   *)
(***************************************************************************)
\* A result: its state, its artifact and what backs the artifact.
Result(id, st, art, back) == [id |-> id, st |-> st, art |-> art, back |-> back]

Successful(r) == r.st = "ok"
Ids(results) == {results[i].id : i \in DOMAIN results}

\* inferred_primary_result_id.
InferredPrimary(results) ==
    IF results = << >> THEN "none"
    ELSE LET good == {i \in DOMAIN results : Successful(results[i])}
             i    == IF good = {} THEN 1 ELSE CHOOSE k \in good : \A j \in good : k <= j
         IN  results[i].id

\* legacy_task_results: one result per item of the task.
LegacyResults(items) == [i \in DOMAIN items |-> Result(items[i].id, items[i].st, "none", "none")]

\* legacy_primary_result_id: the item being played, if there is one.
LegacyPrimary(items, results) ==
    LET played == {i \in DOMAIN items : items[i].played}
    IN  IF played # {} THEN items[CHOOSE i \in played : TRUE].id ELSE InferredPrimary(results)

\* validate_and_bind_resources, validate_result_ids.
Referenced(results) == {results[i].back : i \in DOMAIN results} \ {"none", "lib"}
Valid(results, resources) ==
    /\ Cardinality(Ids(results)) = Len(results)
    /\ \A i \in DOMAIN results : results[i].art = "avail" => results[i].back # "none"
    /\ Referenced(results) = {r.id : r \in resources}
    /\ \A r, s \in resources : r.id = s.id => r = s

NewOutput(snap, rev, primary, results, resources, legacy) ==
    [snap |-> snap, rev |-> rev, primary |-> primary, results |-> results,
     resources |-> resources, legacy |-> legacy]

Unchanged_IgnoresPrimary(old, primary, results, resources) ==
    old.results = results /\ old.resources = resources /\ ~old.legacy

Unchanged(old, primary, results, resources) ==
    old.results = results /\ old.resources = resources /\ old.primary = primary /\ ~old.legacy

\* The primary result stays while it is as good as the others.
KeptPrimary(old, results) ==
    LET kept == \E i \in DOMAIN results :
                   /\ results[i].id = old.primary
                   /\ (\E j \in DOMAIN results : Successful(results[j])) => Successful(results[i])
    IN  IF kept THEN old.primary ELSE InferredPrimary(results)

\* replace_with_primary_result.
Replaced(old, results, resources, preferred, fresh) ==
    LET primary == IF preferred = "none" THEN KeptPrimary(old, results) ELSE preferred
        same    == Unchanged(old, primary, results, resources)
    IN  NewOutput(IF same THEN old.snap ELSE fresh, IF same THEN old.rev ELSE old.rev + 1,
                  primary, results, resources, FALSE)

\* validate_resource_representations: an id is never another representation.
SameRepresentation(old, resources) == \A r \in old.resources, s \in resources : r.id = s.id => r = s

\* reconcile_legacy_task.
Reconciled(old, items, fresh) ==
    LET results == LegacyResults(items)
        primary == LegacyPrimary(items, results)
    IN  IF ~old.legacy \/ (old.results = results /\ old.primary = primary) THEN old
        ELSE NewOutput(fresh, old.rev + 1, primary, results, old.resources, TRUE)

\* retire_expired_resources_except.
Retired(old, fresh) ==
    LET drop(r) == IF r.back = "r" THEN [r EXCEPT !.back = "none", !.art = IF @ = "avail" THEN "gone" ELSE @] ELSE r
    IN  IF old.resources = {} THEN old
        ELSE NewOutput(fresh, old.rev + 1, old.primary,
                       [i \in DOMAIN old.results |-> drop(old.results[i])], {}, old.legacy)

\* What is left of a result whose media was deleted; a deleted library item
\* leaves other artifacts alone, the deletion of a playback cache takes them.
DeletedResult(r, how) ==
    [r EXCEPT !.st = "fail", !.art = IF @ = "avail" \/ how = "library" THEN "gone" ELSE @,
              !.back = IF r.art = "avail" \/ how = "library" THEN "none" ELSE @]

Deletes(r, how, id) == IF how = "playback" THEN r.id = id ELSE r.back = "lib"

\* mark_playback_cache_deleted, mark_library_item_deleted.
Deleted(old, how, id, fresh) ==
    LET hit     == {i \in DOMAIN old.results : Deletes(old.results[i], how, id)}
        results == [i \in DOMAIN old.results |-> IF i \in hit THEN DeletedResult(old.results[i], how) ELSE old.results[i]]
        primary == IF how = "library" /\ \E i \in hit : old.results[i].id = old.primary
                   THEN InferredPrimary(results) ELSE old.primary
    IN  IF old.legacy \/ hit = {} THEN old
        ELSE NewOutput(fresh, old.rev + 1, primary, results,
                       {r \in old.resources : r.id \in Referenced(results)}, FALSE)

(***************************************************************************)
(* Encoding and decoding.                                                  *)
(***************************************************************************)
Present(r) == r # Absent

\* PersistedTaskFile::from and PersistedTaskOutput::from: the results of a
\* legacy-managed output are not written.
EncodedOutput(out) == [out EXCEPT !.results = IF out.legacy THEN << >> ELSE @]

\* derive_bilibili_cleanup_owner_tombstones: the owners without a task.
Tombstones(task, pend) == IF ~Present(task) /\ \E i \in pend : i[2] THEN {"task"} ELSE {}

\* serialize_task_snapshot_with_file_cleanup_intents_and_limit; `of' is the
\* state that the file stands for.
Encoded(task, pend) ==
    [schema |-> Schema, pend |-> pend, root |-> pend # {}, tombs |-> Tombstones(task, pend),
     task |-> IF Present(task) THEN [task EXCEPT !.out = EncodedOutput(task.out)] ELSE Absent,
     of |-> [rec |-> task, intents |-> pend]]

\* validate_executable_bilibili_v2_download_state, with its frozen options.
Executable(schema, task) == schema >= 4 /\ task.cands # << >> /\ task.active => task.frozen

\* validate_bilibili_task_candidate_alignment.
Aligned(task) ==
    task.cands # << >> =>
        /\ Len(task.cands) = Len(task.items)
        /\ \A i \in DOMAIN task.cands : task.cands[i] = task.items[i].id
        /\ Cardinality({task.cands[i] : i \in DOMAIN task.cands}) = Len(task.cands)

\* PersistedTaskSequenceValidator.
Serializable(task) == Present(task) => Executable(Schema, task) /\ Aligned(task)

\* migrate_legacy_executable_bilibili_v2_download_state.
Migrated(schema, task) ==
    IF schema < 4 /\ task.cands # << >> /\ task.active THEN [task EXCEPT !.frozen = TRUE] ELSE task

\* TaskOutputRecord::restored of what into_output derived.
RestoredOutput(schema, task, fresh) ==
    LET legacy  == LegacyResults(task.items)
        results == IF schema = 1 \/ task.out.legacy THEN legacy ELSE task.out.results
        primary == IF schema = 1 \/ task.out.primary = "none" THEN InferredPrimary(results) ELSE task.out.primary
    IN  NewOutput(IF schema = 1 THEN fresh ELSE task.out.snap, IF schema = 1 THEN 1 ELSE task.out.rev,
                  primary, results, IF schema = 1 THEN {} ELSE task.out.resources,
                  schema = 1 \/ task.out.legacy)

\* into_record fails, for the task of a file of this schema.
TaskLoads(schema, task) ==
    LET out == RestoredOutput(schema, task, 0)
    IN  /\ schema < 3 => task.cands = << >>
        /\ schema < 4 => ~task.frozen
        /\ Executable(schema, Migrated(schema, task)) /\ Aligned(task)
        /\ schema > 1 => /\ task.out.legacy => task.out.resources = {}
                         /\ \A r \in task.out.resources : r.bound \/ schema < 6
        /\ Valid(out.results, out.resources)
        /\ out.primary \in Ids(out.results) \cup {"none"}

\* load_state, validate_file_cleanup_root_binding and
\* validate_bilibili_cleanup_owner_bindings.
Loads(file) ==
    LET tombs == IF file.schema < 8 THEN Tombstones(file.task, file.pend) ELSE file.tombs
    IN  /\ file.schema \in 1 .. Schema
        /\ file.schema < 7 => file.pend = {} /\ ~file.root
        /\ file.schema < 8 => file.tombs = {}
        /\ file.root = (file.pend # {})
        /\ tombs = Tombstones(file.task, file.pend)
        /\ Present(file.task) => TaskLoads(file.schema, file.task)

\* migrate_pending_task_resource_body_identities.
Bind(out) == [out EXCEPT !.resources = {[r EXCEPT !.bound = TRUE] : r \in @}]

\* from_persisted_state: the migrated task, reconciled.
Restored(file, fresh) ==
    LET task == Migrated(file.schema, file.task)
        out  == RestoredOutput(file.schema, task, fresh)
    IN  IF ~Present(file.task) THEN Absent
        ELSE [task EXCEPT !.out = Bind(Reconciled(out, task.items, fresh))]

(***************************************************************************)
(* The file system: the directory of the file may have to be created in    *)
(* its parent.                                                             *)
(***************************************************************************)
Disk(made, file) == [made |-> made, file |-> file]

\* A sync makes the entries of a directory durable.
Synced(d, dir) ==
    CASE dir = "parent" -> [d EXCEPT !.made = vol.made]
      [] dir = "dir"    -> [d EXCEPT !.file = vol.file]

\* What a crash may leave: each directory as it was synced, or as it is.
AfterCrash ==
    {Disk(m, IF m THEN f ELSE Absent) : m \in {vol.made, dur.made}, f \in {vol.file, dur.file}}

\* parent_directory_sync_chain: from the directory to one that exists.
SyncChain == IF vol.made THEN {"dir"} ELSE {"dir", "parent"}

SnapshotsInit ==
    /\ rec = Absent /\ intents = {}
    /\ store = "loading"
    /\ pending = {"dir", "parent"}
    /\ vol \in {Disk(TRUE, f) : f \in Legacy} \cup {Disk(made, Absent) : made \in BOOLEAN}
    /\ dur = vol
    /\ acked = {}
    /\ snaps = 0 /\ faults = 0

Same == UNCHANGED <<pending, vol, dur, acked, faults>>

\* with_persistence_path_retention_resource_root_and_publication_gate: a state
\* that does not load disables the store, and the file stays.
Load ==
    LET file == vol.file
    IN  /\ store = "loading"
        /\ IF ~Present(file) \/ ~Loads(file)
           THEN /\ store' = IF Present(file) THEN "disabled" ELSE "dirty"
                /\ rec' = Absent /\ intents' = {} /\ UNCHANGED snaps
           ELSE /\ store' = "dirty"
                /\ rec' = Restored(file, snaps + 1)
                /\ intents' = file.pend
                /\ snaps' = IF Present(rec') /\ rec'.out.snap > snaps THEN snaps + 1 ELSE snaps
        /\ snaps' <= MaxSnaps
        /\ Same

Crash ==
    /\ store # "loading"
    /\ \E d \in AfterCrash : /\ vol' = d /\ dur' = d
                             /\ acked' = IF acked # {} /\ Present(d.file) THEN {d.file.of} ELSE acked
    /\ store' = "loading" /\ rec' = Absent /\ intents' = {}
    /\ pending' = {"dir", "parent"}
    /\ UNCHANGED <<snaps, faults>>

\* The state changes of the registry; each is followed by a save.
Change(task, pend) ==
    /\ store = "ready"
    /\ <<task, pend>> # <<rec, intents>>
    /\ rec' = task /\ intents' = pend
    /\ snaps' = IF Present(task) /\ task.out.snap > snaps THEN snaps + 1 ELSE snaps
    /\ snaps' <= MaxSnaps
    /\ store' = "dirty" /\ Same

WithOutput(out) == Change([rec EXCEPT !.out = out], intents)

Create(v2, items) ==
    /\ ~Present(rec) /\ intents = {}
    /\ Change([cands |-> IF v2 THEN [i \in DOMAIN items |-> items[i].id] ELSE << >>,
               active |-> TRUE, frozen |-> v2, items |-> items,
               out |-> NewOutput(snaps + 1, 1, LegacyPrimary(items, LegacyResults(items)),
                                 LegacyResults(items), {}, TRUE)], {})

\* update_task: an item makes progress, and reconcile_task_output_locked.
ItemProgress(i, st) ==
    /\ Present(rec) /\ i \in DOMAIN rec.items
    /\ LET items == [rec.items EXCEPT ![i].st = st, ![i].played = st = "ok"]
       IN  Change([rec EXCEPT !.items = items, !.active = \E k \in DOMAIN items : items[k].st = "run",
                              !.out = Reconciled(@, items, snaps + 1)], intents)

PublishOutput(results, preferred) ==
    LET resources == {[id |-> r, bound |-> TRUE] : r \in Referenced(results)}
    IN  /\ Present(rec)
        /\ Valid(results, resources) /\ SameRepresentation(rec.out, resources)
        /\ preferred \in Ids(results) \cup {"none"}
        /\ WithOutput(Replaced(rec.out, results, resources, preferred, snaps + 1))

Retire == Present(rec) /\ WithOutput(Retired(rec.out, snaps + 1))

Delete(how, id) == Present(rec) /\ WithOutput(Deleted(rec.out, how, id, snaps + 1))

\* The task is removed; its files are cleaned up later.
RemoveTask(pend) == Present(rec) /\ ~rec.active /\ Change(Absent, intents \cup pend)
CleanedUp(i) == i \in intents /\ Change(rec, intents \ {i})

Remembered_OnlyNew(chain) == chain

\* remember_pending_directory_syncs.
Remembered(chain) == pending \cup chain

\* save_with_file_cleanup_intents, up to the rename: the directories are
\* remembered before they are created.  A save that was not durable is retried.
SaveStarts ==
    /\ store = "dirty" \/ (store = "ready" /\ pending # {})
    /\ Serializable(rec)
    /\ store' = "saving"
    /\ pending' = Remembered(SyncChain)
    /\ vol' = [vol EXCEPT !.made = TRUE]
    /\ UNCHANGED <<rec, intents, dur, acked, snaps, faults>>

SaveRenames ==
    /\ store = "saving"
    /\ store' = "renamed"
    /\ vol' = [vol EXCEPT !.file = Encoded(rec, intents)]
    /\ acked' = IF acked = {} THEN {} ELSE acked \cup {Encoded(rec, intents).of}
    /\ UNCHANGED <<rec, intents, pending, dur, snaps, faults>>

\* sync_directories: all of them, or some and an error (what the registry then
\* makes of its own state is part of TaskRegistry).
SaveSyncs(done) ==
    /\ store = "renamed" /\ done \subseteq pending
    /\ store' = "ready"
    /\ dur' = Disk(IF "parent" \in done THEN Synced(dur, "parent").made ELSE dur.made,
                   IF "dir" \in done THEN Synced(dur, "dir").file ELSE dur.file)
    /\ IF done = pending
       THEN pending' = {} /\ acked' = {Encoded(rec, intents).of} /\ UNCHANGED faults
       ELSE /\ faults < MaxSyncFaults /\ faults' = faults + 1
            /\ UNCHANGED <<pending, acked>>
    /\ UNCHANGED <<rec, intents, vol, snaps>>

\* The items and results of the small instances.
TaskItems == {<<[id |-> "a", st |-> "run", played |-> FALSE]>>,
          <<[id |-> "a", st |-> "run", played |-> FALSE], [id |-> "b", st |-> "run", played |-> FALSE]>>}
Artifacts == {<<"ok", "avail", "r">>, <<"ok", "avail", "lib">>, <<"fail", "none", "none">>}
PublishedResults ==
    {<<Result("a", x[1], x[2], x[3])>> : x \in Artifacts}
    \cup {<<Result("a", x[1], x[2], x[3]), Result("b", y[1], y[2], y[3])>> : x \in Artifacts, y \in Artifacts \ {<<"ok", "avail", "lib">>}}

SnapshotsNext ==
    \/ Load \/ Crash \/ Retire \/ SaveStarts \/ SaveRenames
    \/ \E v2 \in BOOLEAN, items \in TaskItems : Create(v2, items)
    \/ \E i \in {1, 2}, st \in {"ok", "fail"} : ItemProgress(i, st)
    \/ \E results \in PublishedResults, preferred \in {"a", "b", "none"} : PublishOutput(results, preferred)
    \/ Delete("library", "lib") \/ \E id \in {"a", "b"} : Delete("playback", id)
    \/ \E own \in BOOLEAN : RemoveTask({<<"file", own>>})
    \/ \E i \in intents : CleanedUp(i)
    \/ \E done \in SUBSET {"dir", "parent"} : SaveSyncs(done)

SnapshotsSpec == SnapshotsInit /\ [][SnapshotsNext]_snapshotsVars

(***************************************************************************)
(* What must hold.                                                         *)
(***************************************************************************)
\* Whatever this server saved it can load, and gets back as it was.
SavedIsRestored ==
    /\ store = "dirty" => Serializable(rec)
    /\ Present(vol.file) /\ vol.file.schema = Schema =>
          /\ Loads(vol.file)
          /\ Restored(vol.file, 0) = vol.file.of.rec
          /\ vol.file.pend = vol.file.of.intents

\* A state that was reported as durable is what a crash leaves, or a state
\* that was saved later: also if syncs of its directories failed.
DurableSurvives == acked # {} => \A d \in AfterCrash : Present(d.file) /\ d.file.of \in acked

\* The output of a task is well formed.
OutputsAreSound ==
    Present(rec) => /\ Valid(rec.out.results, rec.out.resources)
                    /\ rec.out.primary \in Ids(rec.out.results)

\* What the server saved it can load and gets back unchanged, what it reported
\* as durable survives a crash, and outputs are well formed
\* (save_with_file_cleanup_intents, load_state, from_persisted_state).
SavedStateSurvives == OutputsAreSound /\ SavedIsRestored /\ DurableSurvives

\* Whoever holds a snapshot id and a revision holds what they stand for
\* (replace_with_primary_result, reconcile_task_output_locked).
SnapshotStep ==
    Present(rec) /\ Present(rec') =>
        IF rec'.out.snap = rec.out.snap THEN rec'.out = rec.out ELSE rec'.out.rev > rec.out.rev

SnapshotsAreSound == [][SnapshotStep]_snapshotsVars
=============================================================================
