---------------------------- MODULE MediaLibrary ----------------------------
(***************************************************************************)
(* The local media library: a directory tree below the cache root that     *)
(* readers scan, that API requests delete items from, that downloads are   *)
(* published into by a rename, and that owned directories are removed      *)
(* from.  A publication gate hides what is not published yet; a read-write *)
(* lock per item keeps a deletion and a publication of it apart.           *)
(*                                                                         *)
(* A path is a sequence of names.  `fs' is the tree as the process sees    *)
(* it, `disk' what is certain to survive a crash: an entry becomes durable *)
(* when its parent directory is synchronised.                              *)
(***************************************************************************)
EXTENDS Naturals, Sequences, FiniteSets, SequencesExt

CONSTANTS
    Paths,          \* every path of the instance
    Tree,           \* the initial tree: from Paths to node kinds
    Internal,       \* INTERNAL_CACHE_DIR
    Source, Target, \* the directory that is renamed, and where to
    Gates,          \* sets of blocked paths the task registry may install
    Readers,        \* clients that list the library
    Users,          \* clients that delete an item or publish one
    Items,          \* the item paths they know
    MaxAttempts,    \* MAX_PUBLICATION_GATE_STABILIZATION_ATTEMPTS
    MaxInstalls,    \* bound: changes of the gate
    MaxFaults       \* bound: synchronisations that fail, and crashes

VARIABLES
    fs,         \* node kinds: none, dir, file (a media file), link
    disk,       \* the durable counterpart of fs
    gate,       \* LibraryPublicationGate.state, with its identity
    reader,     \* what each reader does
    user,       \* what each user does
    locks,      \* item_mutation_locks: the lock object of each item, or 0
    cleaner,    \* the publication or the removal of an owned directory
    removed,    \* paths whose removal has been reported
    faults

vars == <<fs, disk, gate, reader, user, locks, cleaner, removed, faults>>

NoGate == [id |-> 0, known |-> FALSE, blocked |-> {}]
NoReader  == [pc |-> "idle", seen |-> NoGate, from |-> 0, tries |-> 0, found |-> {}, result |-> {},
              present |-> {}]
NoUser    == [pc |-> "idle", item |-> <<>>, lock |-> 0, seen |-> 0, tries |-> 0]

Init ==
    /\ fs = Tree /\ disk = Tree
    /\ gate = NoGate
    /\ reader = [r \in Readers |-> NoReader]
    /\ user = [u \in Users |-> NoUser]
    /\ locks = [p \in Paths |-> 0]
    /\ cleaner = [pc |-> "idle", dir |-> <<>>]
    /\ removed = {} /\ faults = 0

(***************************************************************************)
(* The tree.                                                               *)
(***************************************************************************)
Parent(p)     == Front(p)
Ancestors(p)  == {SubSeq(p, 1, n) : n \in 1..Len(p)}
Below(d)      == {p \in Paths : d \in Ancestors(p)}
Children(d)   == {p \in Paths : Len(p) = Len(d) + 1 /\ SubSeq(p, 1, Len(d)) = d}

\* open_read_no_follow and path_contains_link: no component is a link.
Reaches(f, p) == \A a \in Ancestors(p) \ {p} : f[a] = "dir"

IsInternal(p) == p[1] = Internal

\* try_create_media_file.
IsMedia(f, p) == f[p] = "file" /\ Reaches(f, p) /\ ~IsInternal(p)

Media(f) == {p \in Paths : IsMedia(f, p)}

\* LibraryPublicationGateState::blocks.  Before the task state is restored
\* the whole root is blocked.
Blocks(g, p) == ~g.known \/ Ancestors(p) \cap g.blocked # {}

\* An entry whose directory is missing is missing.
Consistent(f) == [p \in Paths |-> IF Reaches(f, p) \/ f[p] = "none" THEN f[p] ELSE "none"]

\* The tree without P; File::sync_all on directory d; both.
Without(f, P) == [p \in Paths |-> IF p \in P THEN "none" ELSE f[p]]
Synced(f, d)  == [p \in Paths |-> IF p \in Children(d) THEN f[p] ELSE disk[p]]

(***************************************************************************)
(* The gate.                                                               *)
(***************************************************************************)
\* install_durable_blocked_paths; the identity of the state is its generation.
Install(B) ==
    /\ gate.id < MaxInstalls
    /\ ~gate.known \/ gate.blocked # B
    /\ gate' = [id |-> gate.id + 1, known |-> TRUE, blocked |-> B]
    /\ UNCHANGED <<fs, disk, reader, user, locks, cleaner, removed, faults>>

\* The state readers and deletions have taken a snapshot of is kept by them;
\* it is told apart from the current one by its identity.
Current(seen) == gate.id = seen

(***************************************************************************)
(* Reading: with_stable_snapshot around a scan and the projection of it.   *)
(* `from' is the identity of the gate when the request came.               *)
(***************************************************************************)
StartRead(r) ==
    /\ reader[r].pc \in {"idle", "retry"}
    /\ reader' = [reader EXCEPT ![r] =
                    [NoReader EXCEPT !.pc = "scan", !.seen = gate, !.present = Media(fs),
                                     !.tries = reader[r].tries,
                                     !.from = IF reader[r].pc = "retry" THEN reader[r].from ELSE gate.id]]
    /\ UNCHANGED <<fs, disk, gate, user, locks, cleaner, removed, faults>>

\* collect_media_candidates: links, internal and blocked directories pruned.
Scan(r) ==
    /\ reader[r].pc = "scan"
    /\ reader' = [reader EXCEPT ![r].pc = "project",
                                ![r].found = {p \in Media(fs) : ~Blocks(reader[r].seen, p)}]
    /\ UNCHANGED <<fs, disk, gate, user, locks, cleaner, removed, faults>>

\* What was found may be gone, and is looked up again.
Project(r) ==
    /\ reader[r].pc = "project"
    /\ reader' = [reader EXCEPT ![r].pc = "check",
                                ![r].result = {p \in @ \cup reader[r].found :
                                                 IsMedia(fs, p) /\ ~Blocks(reader[r].seen, p)}]
    /\ UNCHANGED <<fs, disk, gate, user, locks, cleaner, removed, faults>>

MayAnswer_Always(r) == TRUE

MayAnswer(r) == Current(reader[r].seen.id)

Answer(r) ==
    /\ reader[r].pc = "check" /\ MayAnswer(r)
    /\ reader' = [reader EXCEPT ![r].pc = "answer"]
    /\ UNCHANGED <<fs, disk, gate, user, locks, cleaner, removed, faults>>

\* The scan is repeated ...
Unstable(r) ==
    /\ reader[r].pc = "check" /\ ~MayAnswer(r)
    /\ reader[r].tries + 1 < MaxAttempts
    /\ reader' = [reader EXCEPT ![r] = [NoReader EXCEPT !.pc = "retry", !.from = reader[r].from,
                                                       !.tries = reader[r].tries + 1]]
    /\ UNCHANGED <<fs, disk, gate, user, locks, cleaner, removed, faults>>

Exhausted_LastScan(r) == [reader[r] EXCEPT !.pc = "answer"]

\* ... and after the last attempt the answer is an empty page, a count of 0, no
\* item or no file: what was found under a gate that has changed is not shown.
Exhausted(r) == [reader[r] EXCEPT !.pc = "answer", !.result = {}]

GiveUp(r) ==
    /\ reader[r].pc = "check" /\ ~MayAnswer(r)
    /\ reader[r].tries + 1 = MaxAttempts
    /\ reader' = [reader EXCEPT ![r] = Exhausted(r)]
    /\ UNCHANGED <<fs, disk, gate, user, locks, cleaner, removed, faults>>

Done(r) ==
    /\ reader[r].pc = "answer"
    /\ reader' = [reader EXCEPT ![r] = NoReader]
    /\ UNCHANGED <<fs, disk, gate, user, locks, cleaner, removed, faults>>

\* What a reader may no longer be expected to show.
Forget(P) == reader' = [r \in Readers |-> [reader[r] EXCEPT !.present = @ \ P]]

(***************************************************************************)
(* The lock of an item lives as long as somebody refers to it.             *)
(***************************************************************************)
Referred(obj) == \E u \in Users : user[u].lock = obj

FreshLock == CHOOSE n \in 1..Cardinality(Users) : ~Referred(n)

\* item_mutation_lock.
ItemMutationLock_Fresh(p) == FreshLock

ItemMutationLock(p) == IF locks[p] # 0 /\ Referred(locks[p]) THEN locks[p] ELSE FreshLock

Reading(obj) == {u \in Users : user[u].lock = obj /\ user[u].pc \in {"lease", "relook"}}
Writing(obj) == {u \in Users : user[u].lock = obj /\ user[u].pc \in {"prepared", "resolved"}}

\* reserve_media_path_for_publication: look up, lock, look up again.
Reserve(u, p) ==
    /\ user[u].pc = "idle" /\ IsMedia(fs, p)
    /\ user' = [user EXCEPT ![u] = [NoUser EXCEPT !.pc = "wait_read", !.item = p,
                                                  !.lock = ItemMutationLock(p)]]
    /\ locks' = [locks EXCEPT ![p] = ItemMutationLock(p)]
    /\ UNCHANGED <<fs, disk, gate, reader, cleaner, removed, faults>>

GrantRead(u) ==
    /\ user[u].pc = "wait_read" /\ Writing(user[u].lock) = {}
    /\ user' = [user EXCEPT ![u].pc = "relook"]
    /\ UNCHANGED <<fs, disk, gate, reader, locks, cleaner, removed, faults>>

Lease(u) ==
    /\ user[u].pc = "relook"
    /\ user' = [user EXCEPT ![u] = IF IsMedia(fs, @.item) THEN [@ EXCEPT !.pc = "lease"] ELSE NoUser]
    /\ UNCHANGED <<fs, disk, gate, reader, locks, cleaner, removed, faults>>

ReleaseLease(u) ==
    /\ user[u].pc = "lease"
    /\ user' = [user EXCEPT ![u] = NoUser]
    /\ UNCHANGED <<fs, disk, gate, reader, locks, cleaner, removed, faults>>

(***************************************************************************)
(* Deleting an item.                                                       *)
(***************************************************************************)
\* prepare_item_deletion, under a stable snapshot: a media file that is not
\* blocked, or one that is missing already.
PrepareDeletion(u, p) ==
    /\ user[u].pc = "idle"
    /\ ~IsInternal(p) /\ ~Blocks(gate, p)
    /\ \/ IsMedia(fs, p)
       \/ fs[p] = "none" /\ \A a \in Ancestors(p) \ {p} : fs[a] \in {"dir", "none"}
    /\ user' = [user EXCEPT ![u] = [NoUser EXCEPT !.pc = "wait_write", !.item = p,
                                                  !.lock = ItemMutationLock(p)]]
    /\ locks' = [locks EXCEPT ![p] = ItemMutationLock(p)]
    /\ UNCHANGED <<fs, disk, gate, reader, cleaner, removed, faults>>

GrantWrite(u) ==
    /\ user[u].pc = "wait_write"
    /\ Writing(user[u].lock) = {} /\ Reading(user[u].lock) = {}
    /\ user' = [user EXCEPT ![u].pc = "prepared"]
    /\ UNCHANGED <<fs, disk, gate, reader, locks, cleaner, removed, faults>>

\* delete_item_blocking: the item is resolved under a snapshot of the gate ...
Resolve(u) ==
    /\ user[u].pc = "prepared"
    /\ user' = [user EXCEPT ![u] = IF IsMedia(fs, @.item) /\ ~Blocks(gate, @.item)
                                   THEN [@ EXCEPT !.pc = "resolved", !.seen = gate.id] ELSE NoUser]
    /\ UNCHANGED <<fs, disk, gate, reader, locks, cleaner, removed, faults>>

\* ... and unlinked while the gate can not change, if it has not changed.
\* remove_entry_no_follow_at: the parent is synchronised whether or not the
\* entry was still there; without that the removal is not reported.
Unlink(u) ==
    LET p == user[u].item
    IN  /\ user[u].pc = "resolved" /\ Current(user[u].seen)
        /\ Reaches(fs, p)
        /\ fs' = Without(fs, {p}) /\ Forget({p})
        /\ \/ disk' = Synced(fs', Parent(p)) /\ removed' = removed \cup {p} /\ UNCHANGED faults
           \/ faults < MaxFaults /\ faults' = faults + 1 /\ UNCHANGED <<disk, removed>>
        /\ user' = [user EXCEPT ![u] = NoUser]
        /\ UNCHANGED <<gate, locks, cleaner>>

\* The directory of the item went away in the meantime.
UnlinkMissing(u) ==
    LET p == user[u].item
        d == CHOOSE a \in {<<>>} \cup Ancestors(p) :
                  /\ a = <<>> \/ (fs[a] = "dir" /\ Reaches(fs, a))
                  /\ \A b \in Ancestors(p) : Len(b) = Len(a) + 1 => fs[b] = "none"
    IN  /\ user[u].pc = "resolved" /\ Current(user[u].seen)
        /\ ~Reaches(fs, p)
        /\ disk' = Consistent(Synced(fs, d))
        /\ removed' = removed \cup {p}
        /\ user' = [user EXCEPT ![u] = NoUser]
        /\ UNCHANGED <<fs, gate, reader, locks, cleaner, faults>>

\* The gate has changed: once more, or the deletion is refused.
ResolveAgain(u) ==
    /\ user[u].pc = "resolved" /\ ~Current(user[u].seen)
    /\ user' = [user EXCEPT ![u] = IF @.tries + 1 < MaxAttempts
                                   THEN [@ EXCEPT !.pc = "prepared", !.seen = 0, !.tries = @ + 1]
                                   ELSE NoUser]
    /\ UNCHANGED <<fs, disk, gate, reader, locks, cleaner, removed, faults>>

(***************************************************************************)
(* Owned directories.                                                      *)
(***************************************************************************)
Moved(f) == [p \in Paths |->
                IF Target \in Ancestors(p)
                THEN LET q == Source \o SubSeq(p, Len(Target) + 1, Len(p))
                     IN  IF q \in Paths THEN f[q] ELSE "none"
                ELSE IF Source \in Ancestors(p) THEN "none" ELSE f[p]]

\* rename_directory_no_replace_no_follow: the tree is made durable, ...
SyncTree ==
    /\ cleaner.pc = "idle" /\ fs[Source] = "dir" /\ Reaches(fs, Source)
    /\ \A p \in Below(Source) : fs[p] # "link"
    /\ disk' = [p \in Paths |-> IF p \in Below(Source) \ {Source} THEN fs[p] ELSE disk[p]]
    /\ cleaner' = [pc |-> "synced", dir |-> Source]
    /\ UNCHANGED <<fs, gate, reader, user, locks, removed, faults>>

\* ... renamed, never over something else, ...
Rename ==
    /\ cleaner.pc = "synced" /\ fs[Target] = "none" /\ Reaches(fs, Target)
    /\ fs' = Moved(fs) /\ Forget(Below(Source))
    /\ removed' = removed \ Below(Target)
    /\ cleaner' = [cleaner EXCEPT !.pc = "renamed"]
    /\ UNCHANGED <<disk, gate, user, locks, faults>>

RenameRefused ==
    /\ cleaner.pc = "synced" /\ (fs[Target] # "none" \/ ~Reaches(fs, Target))
    /\ cleaner' = [pc |-> "idle", dir |-> <<>>]
    /\ UNCHANGED <<fs, disk, gate, reader, user, locks, removed, faults>>

\* ... and both parents are synchronised.
SyncParents ==
    /\ cleaner.pc = "renamed"
    /\ \/ /\ disk' = [p \in Paths |-> IF p \in Below(Source) \cup Below(Target) THEN fs[p] ELSE disk[p]]
          /\ UNCHANGED faults
       \/ faults < MaxFaults /\ faults' = faults + 1 /\ UNCHANGED disk
    /\ cleaner' = [pc |-> "idle", dir |-> <<>>]
    /\ UNCHANGED <<fs, gate, reader, user, locks, removed>>

\* remove_directory_tree_no_follow: entry by entry, links unlinked and never
\* followed, then the directory, then its parent is synchronised.
StartRemoval(d) ==
    /\ cleaner.pc = "idle" /\ d \in gate.blocked
    /\ \A a \in Ancestors(d) \ {d} : fs[a] \in {"dir", "none"}
    /\ cleaner' = [pc |-> "empty", dir |-> d]
    /\ UNCHANGED <<fs, disk, gate, reader, user, locks, removed, faults>>

RemoveEntry(p) ==
    /\ cleaner.pc = "empty" /\ p \in Below(cleaner.dir) \ {cleaner.dir} /\ fs[p] # "none"
    /\ Reaches(fs, p)
    /\ \A q \in Children(p) : fs[q] = "none"
    /\ fs' = Without(fs, {p}) /\ Forget({p})
    /\ UNCHANGED <<disk, gate, user, locks, cleaner, removed, faults>>

RemovalFails ==
    /\ cleaner.pc = "empty" /\ faults < MaxFaults
    /\ faults' = faults + 1
    /\ cleaner' = [pc |-> "idle", dir |-> <<>>]
    /\ UNCHANGED <<fs, disk, gate, reader, user, locks, removed>>

\* The parent is synchronised whether or not the directory was still there.
SyncedRemoval(d) == Synced(Without(fs, {d}), Parent(d))

FinishRemoval ==
    LET d == cleaner.dir
    IN  /\ cleaner.pc = "empty" /\ fs[d] \in {"dir", "none"}
        /\ \A p \in Children(d) : fs[p] = "none"
        /\ fs' = Without(fs, {d}) /\ Forget({d})
        /\ \/ /\ disk' = Consistent(SyncedRemoval(d))
              /\ removed' = removed \cup Below(d)
              /\ UNCHANGED faults
           \/ faults < MaxFaults /\ faults' = faults + 1 /\ UNCHANGED <<disk, removed>>
        /\ cleaner' = [pc |-> "idle", dir |-> <<>>]
        /\ UNCHANGED <<gate, user, locks>>

(***************************************************************************)
(* A crash keeps every entry that is durable, and any change that is not.  *)
(***************************************************************************)
Crash ==
    /\ faults < MaxFaults /\ faults' = faults + 1
    /\ \E kept \in SUBSET {p \in Paths : fs[p] # disk[p]} :
         LET f == Consistent([p \in Paths |-> IF p \in kept THEN fs[p] ELSE disk[p]])
         IN  fs' = f /\ disk' = f
    /\ gate' = [NoGate EXCEPT !.id = gate.id]
    /\ reader' = [r \in Readers |-> NoReader] /\ user' = [u \in Users |-> NoUser]
    /\ locks' = [p \in Paths |-> 0] /\ cleaner' = [pc |-> "idle", dir |-> <<>>]
    /\ UNCHANGED removed

Next ==
    \/ \E B \in Gates : Install(B)
    \/ \E r \in Readers : StartRead(r) \/ Scan(r) \/ Project(r) \/ Answer(r)
                             \/ Unstable(r) \/ GiveUp(r) \/ Done(r)
    \/ \E u \in Users :
          \/ \E p \in Items : Reserve(u, p) \/ PrepareDeletion(u, p)
          \/ GrantRead(u) \/ Lease(u) \/ ReleaseLease(u)
          \/ GrantWrite(u) \/ Resolve(u) \/ Unlink(u) \/ UnlinkMissing(u) \/ ResolveAgain(u)
    \/ SyncTree \/ Rename \/ RenameRefused \/ SyncParents
    \/ \E d \in Paths : StartRemoval(d) \/ RemoveEntry(d)
    \/ RemovalFails \/ FinishRemoval
    \/ Crash

Spec == Init /\ [][Next]_vars

\* How many readers, users and cleaners are busy, for bounds.
Busy == Cardinality({r \in Readers : reader[r].pc # "idle"})
        + Cardinality({u \in Users : user[u].pc # "idle"})
        + (IF cleaner.pc = "idle" THEN 0 ELSE 1)

(***************************************************************************)
(* What must hold.                                                         *)
(***************************************************************************)
\* A page of the library is true of the gate it is answered under: it shows
\* nothing that is blocked then, and misses no media file that is not
\* blocked and was there all the time, however the gate changed meanwhile.
\* Only a request during which the gate has changed MaxAttempts times is
\* answered as if the library were empty.
AnswersHonourGate ==
    \A r \in Readers : reader[r].pc = "check" /\ reader'[r].pc = "answer" =>
        /\ \A p \in reader'[r].result : ~Blocks(gate, p)
        /\ \/ \A p \in reader[r].present : Blocks(gate, p) \/ p \in reader'[r].result
           \/ reader'[r].result = {} /\ gate.id - reader[r].from >= MaxAttempts

ReadsHonourGate == [][AnswersHonourGate]_vars

\* A deletion never takes away media that a download still owns or that a
\* publication holds a lease on, and never has company on the same item.
DeletionIsExclusive ==
    /\ \A u \in Users : user[u].pc = "resolved" /\ Current(user[u].seen) => ~Blocks(gate, user[u].item)
    /\ \A u, v \in Users :
          u # v /\ user[u].pc \in {"prepared", "resolved"} /\ user[v].item = user[u].item =>
             user[v].pc \notin {"lease", "prepared", "resolved"}

\* What was reported as removed is gone for good: no crash brings it back,
\* even when an earlier attempt removed it without making that durable.
RemovalIsDurable == \A p \in removed : disk[p] = "none"
=============================================================================
