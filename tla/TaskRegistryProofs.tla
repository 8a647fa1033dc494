------------------------- MODULE TaskRegistryProofs -------------------------
(***************************************************************************)
(* Proofs about the task registry, its queue of downloads and what its     *)
(* subscribers are told, for any sets of tasks, keys and watchers and any  *)
(* bounds.                                                                 *)
(***************************************************************************)
EXTENDS TaskRegistry, InductionFacts

-----------------------------------------------------------------------------
(* The inductive invariant.                                                 *)

\* States that hand out no session, have no owner and are never left.
Over == {"absent", "succeeded", "failed", "cancelled", "partial"}

\* States in which some owner works on the task.
Working == {"running", "preparing", "cancel_requested"}

\* A mutation is in the live tables and its save has no outcome yet.
Held == ~Unlocked /\ txn.phase # "ready"

\* Downloads and playbacks go through different states.
OfKind(s) ==
    \A t \in Tasks : /\ t \in Downloads => s[t] \notin {"preparing", "playable", "completed"}
                     /\ t \in Playbacks => s[t] \notin {"queued", "running", "succeeded", "partial"}

\* What owners of the two kinds may have to record.
Wants(t, r) == /\ r.want \in {"succeeded", "partial"} => t \in Downloads
               /\ r.want = "partial" => r.via = "commit"

KindSnapshots == {s \in Snapshots : OfKind(s)}

Tables ==
    /\ tasks \in KindSnapshots /\ visible \in KindSnapshots
    /\ recoverable \subseteq KindSnapshots /\ installed \in recoverable
    /\ active \in [Keys -> Tasks \cup {NoTask}]
    /\ pending \subseteq Tasks
    /\ available \in BOOLEAN /\ cleared \in BOOLEAN
    /\ quarantine \subseteq Playbacks /\ deleted \subseteq Playbacks
    /\ runner \in [Tasks -> Runners]
    /\ \A t \in Tasks : Wants(t, runner[t])
    /\ crashes \in Nat /\ permanents \in Nat

Txn ==
    /\ txn = [op |-> txn.op, task |-> txn.task, rollback |-> txn.rollback,
               durable |-> txn.durable, phase |-> txn.phase, saved |-> txn.saved]
    /\ txn.op \in Ops /\ txn.task \in Tasks \cup {NoTask}
    /\ txn.rollback \in {"never", "rejected", "permanent"} /\ txn.durable \in BOOLEAN
    /\ txn.phase \in {"save", "renamed", "ready"}
    /\ txn.saved.tasks \in KindSnapshots
    /\ txn.saved.active \in [Keys -> Tasks \cup {NoTask}]
    /\ txn.saved.pending \subseteq Tasks

\* The ends that the loss of its media may revise.
Fails(op, t, state) ==
    \/ op = "restore" /\ t \in Playbacks /\ state \in Served
    \/ op = "tombstone" /\ t \in Downloads /\ state \in {"succeeded", "partial"}

\* What the holder of the lock has done to the tasks it works on.
OpInv ==
    Held =>
        /\ \A u \in Tasks \ {txn.task} :
              \/ tasks[u] = txn.saved.tasks[u]
              \/ tasks[u] = "failed" /\ Fails(txn.op, u, txn.saved.tasks[u])
        /\ txn.op \in {"cancel", "remove"} => txn.task \in Tasks /\ tasks[txn.task] \in Over
        /\ txn.op = "complete" =>
              txn.task \in Tasks /\ tasks[txn.task] \in {"succeeded", "failed", "cancelled", "partial"}
        /\ txn.op = "create" =>
              /\ txn.task \in Tasks \ quarantine
              /\ tasks[txn.task] \in {"queued", "preparing"}
              /\ txn.saved.tasks[txn.task] = "absent"
              /\ txn.rollback = "rejected"
        /\ txn.op = "claim" => txn.task \in Downloads
        /\ txn.op = "publish" =>
              /\ txn.task \in Playbacks
              /\ tasks[txn.task] \in {"playable", "cancelled"}
              /\ txn.rollback = "permanent"
        /\ txn.durable => /\ txn.rollback = "rejected"
                          /\ txn.op \in {"cancel", "remove", "reject", "tombstone"}
        /\ txn.op \in {"start", "restore"} => txn.rollback = "never"
        /\ txn.op = "start" => txn.saved.tasks = tasks

\* An owner that waits for a save of its own has not let go.
HolderInv ==
    txn.op \in {"completePrep", "complete", "retry", "recover", "publish", "update"} =>
        txn.task \in Tasks /\ runner[txn.task].pc \notin {"idle", "done"}

\* How the live tables, the committed view and the store are related.
Views ==
    /\ \A t \in Tasks \ pending : tasks[t] = visible[t]
    /\ Held => \A t \in Tasks \ txn.saved.pending : txn.saved.tasks[t] = visible[t]
    /\ ~Held /\ available => tasks = visible /\ pending = {} /\ recoverable = {tasks}
    /\ Held /\ available /\ txn.op # "start" =>
          /\ txn.saved.tasks = visible /\ txn.saved.pending = {}
          /\ recoverable \subseteq {visible, tasks}
    /\ Held /\ txn.phase = "renamed" => installed = tasks
    /\ ~Unlocked /\ txn.phase = "ready" =>
          /\ txn.op \in {"cancel", "complete", "cached", "reject", "restore"}
          /\ tasks = visible /\ pending = {}
          /\ txn.op \notin {"complete", "restore"} => available
    /\ txn.op = "restore" => ~cleared
    /\ txn.op = "start" =>
          /\ txn.phase # "ready" /\ ~cleared
          /\ tasks = visible /\ pending = {}
          /\ \A t \in Tasks : runner[t].pc = "idle" /\ visible[t] # "cancel_requested"
    /\ VisibleIsCommitted

\* What a committed state may have become in the live tables.
Follows(old, new) ==
    /\ old \in Terminal => new \in {old} \cup Lapses(old)
    /\ old = "cancel_requested" => new \in {"cancel_requested", "cancelled", "partial"}

\* What was committed as ended stays so in the live tables, also when they are
\* rolled back.
KeepsEnds(s) == \A t \in Tasks : Follows(visible[t], s[t])

Ends0 == KeepsEnds(tasks) /\ (Held => KeepsEnds(txn.saved.tasks))

\* A cancelled download with media is in the tables only while it is committed,
\* or it would fail unseen when that media is deleted.
PartialInv ==
    \A t \in Tasks :
        /\ tasks[t] = "partial" =>
              \/ visible[t] = "partial"
              \/ Held /\ txn.op = "complete" /\ txn.task = t /\ txn.rollback = "rejected"
        /\ Held /\ txn.saved.tasks[t] = "partial" => visible[t] = "partial"

\* An active task that takes part in deduplication is the one its key names.
Named(s, a) == \A t \in Tasks : Deduplicated(t) /\ s[t] \in Active => a[KeyOf[t]] = t

KeysInv == Named(tasks, active) /\ (Held => Named(txn.saved.tasks, txn.saved.active))

\* A task with an owner is not served yet, and one whose owner is done is over.
OwnersInv ==
    \A t \in Tasks :
        /\ runner[t].pc # "idle" =>
              /\ t \notin quarantine
              /\ visible[t] \notin Served
              /\ tasks[t] \notin Served \/ (Held /\ txn.op = "publish" /\ txn.task = t)
              /\ Held => txn.saved.tasks[t] \notin Served
        /\ runner[t].pc = "done" =>
              tasks[t] \in Over /\ (Held => txn.saved.tasks[t] \in Over)

\* Nothing can bring the session of t back.
Gone(t) ==
    /\ tasks[t] \in Over /\ visible[t] \in Over
    /\ \A s \in recoverable : s[t] \in Over
    /\ Held => txn.saved.tasks[t] \in Over

DeletedInv ==
    /\ \A t \in deleted : Gone(t)
    /\ \A t \in quarantine :
          /\ {tasks[t], visible[t]} \subseteq Served \cup Over
          /\ visible[t] \in Over => tasks[t] \in Over
          /\ cleared /\ tasks[t] \in Over => visible[t] \in Over \/ (Held /\ txn.durable)
          /\ Held => /\ txn.saved.tasks[t] \in Served \cup Over
                     /\ visible[t] \in Over => txn.saved.tasks[t] \in Over
                     /\ cleared /\ txn.saved.tasks[t] \in Over => visible[t] \in Over
                     /\ tasks[t] \in Over /\ txn.saved.tasks[t] \in Served =>
                           txn.durable \/ txn.op = "restore"
          /\ cleared /\ visible[t] \in Over => Gone(t)

WorkInv ==
    permanents = 0 => \A t \in Tasks :
        /\ tasks[t] \in Working =>
              runner[t].pc # "idle" \/ (Held /\ txn.op \in {"create", "claim"} /\ txn.task = t)
        /\ Held /\ txn.saved.tasks[t] \in Working => runner[t].pc # "idle"

IInv ==
    /\ Tables /\ Txn /\ OpInv /\ HolderInv /\ Views
    /\ Ends0 /\ PartialInv /\ KeysInv /\ OwnersInv /\ DeletedInv /\ WorkInv

-----------------------------------------------------------------------------
(* The lock.                                                                *)

\* Letting the mutation lock go leaves an empty transaction.
LEMMA Unlocking ==
    ASSUME TaskAssumption, Txn, Unlock
    PROVE  Txn' /\ txn'.op = "none" /\ ~Held'
<1>1. /\ txn'.op = "none" /\ txn'.task = NoTask /\ txn'.rollback = "never"
      /\ txn'.durable = FALSE /\ txn'.phase = "save"
      /\ txn'.saved = [tasks |-> [t \in Tasks |-> "absent"], queue |-> <<>>,
                       active |-> [k \in Keys |-> NoTask],
                       registered |-> {}, pending |-> {}]
      /\ txn' = [op |-> txn'.op, task |-> txn'.task, rollback |-> txn'.rollback,
                 durable |-> txn'.durable, phase |-> txn'.phase, saved |-> txn'.saved]
  BY DEF Unlock, Txn
<1>2. [t \in Tasks |-> "absent"] \in KindSnapshots
  BY DEF KindSnapshots, Snapshots, OfKind, States, Tasks
<1>3. txn'.saved.tasks \in KindSnapshots /\ txn'.saved.active \in [Keys -> Tasks \cup {NoTask}]
      /\ txn'.saved.pending \subseteq Tasks
  BY <1>1, <1>2
<1>4. Txn'
  BY <1>1, <1>3 DEF Txn, Ops
<1> QED
  BY <1>1, <1>4 DEF Held, Unlocked

\* Taking the mutation lock records who took it and the checkpoint to go back to.
LEMMA Locking ==
    ASSUME Tables, NEW op \in Ops \ {"none"}, NEW t \in Tasks \cup {NoTask},
           NEW rollback \in {"never", "rejected", "permanent"}, NEW durable \in BOOLEAN,
           Lock(op, t, rollback, durable, "save")
    PROVE  /\ Txn' /\ Held'
           /\ txn'.op = op /\ txn'.task = t /\ txn'.rollback = rollback
           /\ txn'.durable = durable /\ txn'.phase = "save"
           /\ txn'.saved.tasks = tasks /\ txn'.saved.active = active
           /\ txn'.saved.pending = pending
<1>1. /\ txn'.op = op /\ txn'.task = t /\ txn'.rollback = rollback
      /\ txn'.durable = durable /\ txn'.phase = "save" /\ txn'.saved = Checkpoint
      /\ txn' = [op |-> txn'.op, task |-> txn'.task, rollback |-> txn'.rollback,
                 durable |-> txn'.durable, phase |-> txn'.phase, saved |-> txn'.saved]
  BY DEF Lock
<1>2. txn'.saved.tasks = tasks /\ txn'.saved.active = active /\ txn'.saved.pending = pending
  BY <1>1 DEF Checkpoint
<1>3. Txn'
  BY <1>1, <1>2 DEF Txn, Tables
<1> QED
  BY <1>1, <1>2, <1>3 DEF Held, Unlocked

-----------------------------------------------------------------------------
(* A mutation of the live tables.                                           *)

\* The holder of the lock gives task t the state new and starts its save.
Mutation(op, t, new, rollback, durable) ==
    /\ tasks' = [tasks EXCEPT ![t] = new]
    /\ pending' = pending \cup {t}
    /\ Lock(op, t, rollback, durable, "save")
    /\ UNCHANGED <<visible, available, installed, recoverable, runner, deleted, quarantine,
                   cleared, crashes, permanents>>

\* What every caller sees to before it does so.
Legal(op, t, new, rollback, durable) ==
    /\ t \in Downloads => new \notin {"preparing", "playable", "completed"}
    /\ t \in Playbacks => new \notin {"queued", "running", "succeeded", "partial"}
    /\ Follows(visible[t], new)
    /\ new = "partial" => op = "complete" /\ rollback = "rejected"
    /\ new \in Served => op = "publish" \/ runner[t].pc = "idle"
    /\ runner[t].pc = "done" => new \in Over
    /\ t \in deleted => new \in Over
    /\ t \in quarantine =>
          /\ new \in Served \cup Over
          /\ visible[t] \in Over => new \in Over
          /\ new \in Over => visible[t] \in Over \/ durable
    /\ new \in Working /\ permanents = 0 => runner[t].pc # "idle" \/ op \in {"create", "claim"}
    /\ op \in {"cancel", "remove"} => new \in Over
    /\ op = "complete" => new \in {"succeeded", "failed", "cancelled", "partial"}
    /\ op = "create" => /\ t \notin quarantine /\ new \in {"queued", "preparing"}
                        /\ tasks[t] = "absent" /\ rollback = "rejected"
    /\ op = "claim" => t \in Downloads
    /\ op = "publish" => /\ t \in Playbacks /\ new \in {"playable", "cancelled"}
                         /\ rollback = "permanent"
    /\ durable => rollback = "rejected" /\ op \in {"cancel", "remove", "reject"}
    /\ op \in {"complete", "publish", "update"} => runner[t].pc \notin {"idle", "done"}

\* Every change of one task under the fresh lock keeps the invariant.
LEMMA MutationStep ==
    ASSUME IInv, ~Held, txn.op # "start",
           NEW op \in {"create", "claim", "cancelMark", "cancel", "complete", "publish", "cached",
                       "remove", "update", "reject"},
           NEW t \in Tasks, NEW new \in States,
           NEW rollback \in {"never", "rejected", "permanent"}, NEW durable \in BOOLEAN,
           active' \in [Keys -> Tasks \cup {NoTask}], Named(tasks', active'),
           Mutation(op, t, new, rollback, durable), Legal(op, t, new, rollback, durable)
    PROVE  IInv'
<1>1. /\ Txn' /\ Held'
      /\ txn'.op = op /\ txn'.task = t /\ txn'.rollback = rollback
      /\ txn'.durable = durable /\ txn'.phase = "save"
      /\ txn'.saved.tasks = tasks /\ txn'.saved.active = active
      /\ txn'.saved.pending = pending
  BY Locking DEF Mutation, IInv, Ops
<1>2. /\ tasks \in [Tasks -> States] /\ tasks' \in [Tasks -> States]
      /\ tasks'[t] = new /\ \A u \in Tasks \ {t} : tasks'[u] = tasks[u]
      /\ pending' = pending \cup {t}
      /\ UNCHANGED <<visible, available, installed, recoverable, runner, deleted, quarantine,
                   cleared, crashes, permanents>>
  BY DEF Mutation, IInv, Tables, KindSnapshots, Snapshots
<1>3. Tables'
  BY <1>2 DEF IInv, Tables, KindSnapshots, Snapshots, OfKind, Legal
<1>4. OpInv'
  BY <1>1, <1>2 DEF IInv, OpInv, Legal
<1>5. HolderInv'
  BY <1>1, <1>2 DEF IInv, HolderInv, Legal
<1>6. Views'
  <2>1. VisibleIsCommitted'
    BY <1>2 DEF IInv, Views, VisibleIsCommitted
  <2>2. txn'.op # "start"
    BY <1>1
  <2> HIDE DEF VisibleIsCommitted
  <2> QED BY <1>1, <1>2, <2>1, <2>2 DEF IInv, Views, Tables, KindSnapshots, Snapshots
<1>7. Ends0' /\ PartialInv'
  <2>1. Ends0'
    BY <1>1, <1>2 DEF IInv, Ends0, KeepsEnds, Legal
  <2>2. PartialInv'
    BY <1>1, <1>2 DEF IInv, PartialInv, Legal
  <2> QED BY <2>1, <2>2
<1>8. KeysInv'
  BY <1>1, <1>2 DEF IInv, KeysInv
<1>9. OwnersInv'
  BY <1>1, <1>2 DEF IInv, OwnersInv, Legal
<1>10. DeletedInv'
  <2>1. deleted \subseteq Tasks /\ quarantine \subseteq Tasks
    BY DEF IInv, Tables, Tasks
  <2>2. \A u \in deleted : Gone(u)'
    BY <1>1, <1>2, <2>1 DEF IInv, DeletedInv, Gone, Legal
  <2>3. ASSUME NEW u \in quarantine, cleared, visible[u] \in Over PROVE Gone(u)'
    BY <1>1, <1>2, <2>1, <2>3 DEF IInv, DeletedInv, Gone, Legal
  <2> QED
    BY <1>1, <1>2, <2>1, <2>2, <2>3 DEF IInv, DeletedInv, Legal, Served, Over
<1>11. WorkInv'
  BY <1>1, <1>2 DEF IInv, WorkInv, Legal
<1> QED
  BY <1>1, <1>3, <1>4, <1>5, <1>6, <1>7, <1>8, <1>9, <1>10, <1>11 DEF IInv

\* The holder of the lock fails some tasks whose media is gone and starts its save.
LEMMA LossStep ==
    ASSUME TaskAssumption, IInv, ~Held, txn.op # "start",
           NEW op \in {"restore", "tombstone"}, NEW touched \in SUBSET Tasks,
           NEW failed \in SUBSET touched, \A t \in failed : Fails(op, t, tasks[t]),
           StageLoss(touched, failed),
           NEW rollback \in {"never", "rejected"}, NEW durable \in BOOLEAN,
           Lock(op, NoTask, rollback, durable, "save"),
           op = "restore" => rollback = "never" /\ ~durable /\ ~cleared,
           op = "tombstone" => rollback = "rejected",
           UNCHANGED <<active, visible, available, installed, recoverable, runner, deleted,
                       quarantine, cleared, crashes, permanents>>
    PROVE  IInv'
<1>1. /\ Txn' /\ Held'
      /\ txn'.op = op /\ txn'.task = NoTask /\ txn'.rollback = rollback
      /\ txn'.durable = durable /\ txn'.phase = "save"
      /\ txn'.saved.tasks = tasks /\ txn'.saved.active = active
      /\ txn'.saved.pending = pending
  BY Locking DEF IInv, Ops
<1>2. /\ tasks \in [Tasks -> States] /\ tasks' \in [Tasks -> States]
      /\ \A t \in Tasks : tasks'[t] = tasks[t] \/ (tasks'[t] = "failed" /\ Fails(op, t, tasks[t]))
      /\ \A t \in Tasks \ touched : tasks'[t] = tasks[t]
      /\ pending' = pending \cup touched
  BY DEF StageLoss, IInv, Tables, KindSnapshots, Snapshots, States, Terminal
<1>3. ASSUME NEW t \in Tasks, tasks'[t] # tasks[t]
      PROVE  /\ tasks'[t] = "failed" /\ tasks[t] \in {"playable", "completed", "succeeded", "partial"}
             /\ t \in quarantine => op = "restore"
  BY <1>2, <1>3 DEF Fails, Served, IInv, Tables, TaskAssumption
<1>4. Tables'
  BY <1>2, <1>3 DEF IInv, Tables, KindSnapshots, Snapshots, OfKind
<1>5. OpInv'
  BY <1>1, <1>2 DEF OpInv
<1>6. HolderInv'
  BY <1>1 DEF HolderInv
<1>7. Views'
  <2>1. VisibleIsCommitted'
    BY DEF IInv, Views, VisibleIsCommitted
  <2>2. txn'.op # "start"
    BY <1>1
  <2> HIDE DEF VisibleIsCommitted
  <2> QED BY <1>1, <1>2, <2>1, <2>2 DEF IInv, Views, Tables, KindSnapshots, Snapshots
<1>8. Ends0'
  <2>1. ASSUME NEW t \in Tasks PROVE Follows(visible[t], tasks'[t])
    <3>1. Follows(visible[t], tasks[t]) /\ (tasks[t] = "partial" => visible[t] = "partial")
      BY DEF IInv, Ends0, KeepsEnds, PartialInv
    <3> QED BY <1>3, <3>1 DEF Follows, Lapses, Terminal
  <2> QED BY <1>1, <2>1 DEF IInv, Ends0, KeepsEnds
<1>9. PartialInv'
  BY <1>1, <1>3 DEF IInv, PartialInv
<1>10. KeysInv'
  BY <1>1, <1>3 DEF IInv, KeysInv, Named, Active
<1>11. OwnersInv'
  BY <1>1, <1>3 DEF IInv, OwnersInv, Served, Over
<1>12. DeletedInv'
  <2>1. deleted \subseteq Tasks /\ quarantine \subseteq Tasks
    BY DEF IInv, Tables, Tasks
  <2>2. \A u \in Tasks : Gone(u) => Gone(u)'
    BY <1>1, <1>3 DEF Gone, Over
  <2> QED
    BY <1>1, <1>3, <2>1, <2>2 DEF IInv, DeletedInv, Served, Over
<1>13. WorkInv'
  BY <1>1, <1>3 DEF IInv, WorkInv, Working
<1> QED
  BY <1>1, <1>4, <1>5, <1>6, <1>7, <1>8, <1>9, <1>10, <1>11, <1>12, <1>13 DEF IInv

-----------------------------------------------------------------------------
(* Steps that leave the task tables alone.                                  *)

\* So does a save that is due before, or without, a change of a task.
LEMMA SaveOnlyStep ==
    ASSUME IInv, ~Held, txn.op # "start",
           NEW op \in {"claimRetry", "cancelPrep", "completePrep", "retry", "recover", "cachedPrep",
                       "rejectPrep"},
           NEW t \in Tasks \cup {NoTask}, SaveOnly(op, t),
           op \in {"completePrep", "retry", "recover"} =>
               t \in Tasks /\ runner[t].pc \notin {"idle", "done"}
    PROVE  IInv'
<1>1. /\ Txn' /\ Held'
      /\ txn'.op = op /\ txn'.task = t /\ txn'.rollback = "never"
      /\ txn'.durable = FALSE /\ txn'.phase = "save"
      /\ txn'.saved.tasks = tasks /\ txn'.saved.active = active
      /\ txn'.saved.pending = pending
  BY Locking DEF SaveOnly, IInv, Ops
<1>2. UNCHANGED <<tasks, active, pending, visible, available, installed, recoverable, runner,
                  deleted, quarantine, cleared, crashes, permanents>>
  BY DEF SaveOnly, inner, store, owners
<1>3. Tables'
  BY <1>2 DEF IInv, Tables
<1>4. OpInv' /\ HolderInv'
  BY <1>1, <1>2 DEF IInv, OpInv, HolderInv
<1>5. Views'
  <2>1. VisibleIsCommitted'
    BY <1>2 DEF IInv, Views, VisibleIsCommitted
  <2> HIDE DEF VisibleIsCommitted
  <2> QED BY <1>1, <1>2, <2>1 DEF IInv, Views
<1>6. Ends0' /\ PartialInv' /\ KeysInv'
  BY <1>1, <1>2 DEF IInv, Ends0, KeepsEnds, PartialInv, KeysInv, Named
<1>7. OwnersInv' /\ WorkInv'
  BY <1>1, <1>2 DEF IInv, OwnersInv, WorkInv
<1>8. DeletedInv'
  BY <1>1, <1>2 DEF IInv, DeletedInv, Gone, Served, Over
<1> QED
  BY <1>1, <1>3, <1>4, <1>5, <1>6, <1>7, <1>8 DEF IInv

\* The lock is let go and nothing else changes.
LEMMA UnlockStep ==
    ASSUME TaskAssumption, IInv, ~Held, txn.op # "start", Unlock,
           UNCHANGED <<tasks, active, pending, visible, available, installed, recoverable, runner,
                       deleted, quarantine, cleared, crashes, permanents>>
    PROVE  IInv'
<1>1. Txn' /\ txn'.op = "none" /\ ~Held'
  BY Unlocking DEF IInv
<1>2. Tables' /\ OpInv' /\ HolderInv'
  BY <1>1 DEF IInv, Tables, OpInv, HolderInv
<1>3. Views'
  <2>1. VisibleIsCommitted'
    BY DEF IInv, Views, VisibleIsCommitted
  <2> HIDE DEF VisibleIsCommitted
  <2> QED BY <1>1, <2>1 DEF IInv, Views, Unlocked
<1>4. Ends0' /\ PartialInv' /\ KeysInv'
  BY <1>1 DEF IInv, Ends0, KeepsEnds, PartialInv, KeysInv, Named
<1>5. OwnersInv' /\ WorkInv' /\ DeletedInv'
  BY <1>1 DEF IInv, OwnersInv, WorkInv, DeletedInv, Gone
<1> QED BY <1>1, <1>2, <1>3, <1>4, <1>5 DEF IInv

\* An owner moves, or an operation finds nothing to do and gives up the lock.
LEMMA QuietStep ==
    ASSUME TaskAssumption, IInv, Untouched, UNCHANGED <<quarantine, cleared>>,
           (txn' = txn) \/ (~Held /\ txn.op # "start" /\ Unlock),
           NEW t \in Tasks, NEW r \in Runners, runner' = [runner EXCEPT ![t] = r],
           Wants(t, r),
           r.pc # "idle" => runner[t].pc # "idle",
           r.pc # runner[t].pc /\ r.pc \in {"idle", "done"} =>
               /\ tasks[t] \in Over /\ (Held => txn.saved.tasks[t] \in Over)
               /\ txn'.op = "none" \/ runner[t].pc = "done",
           \A u \in deleted' :
               u \in deleted \/ (u = t /\ t \in Playbacks /\ available /\ runner[t].pc = "done")
    PROVE  IInv'
<1>1. UNCHANGED <<tasks, active, pending, visible, available, installed, recoverable,
                  quarantine, cleared, crashes, permanents>>
  BY DEF Untouched, inner, store
<1>2. /\ runner' \in [Tasks -> Runners]
      /\ runner'[t] = r /\ \A u \in Tasks \ {t} : runner'[u] = runner[u]
  BY DEF IInv, Tables
<1>3. /\ Txn'
      /\ txn' = txn \/ (~Held /\ txn.op # "start" /\ txn'.op = "none")
      /\ Held' => Held /\ txn' = txn
  <2>1. CASE txn' = txn
    BY <2>1 DEF IInv, Txn, Held, Unlocked
  <2>2. CASE ~Held /\ txn.op # "start" /\ Unlock
    BY <2>2, Unlocking DEF IInv
  <2> QED BY <2>1, <2>2
<1>4. Tables'
  BY <1>1, <1>2 DEF IInv, Tables
<1>5. OpInv'
  BY <1>1, <1>3 DEF IInv, OpInv
<1>6. HolderInv'
  BY <1>1, <1>2, <1>3 DEF IInv, HolderInv
<1>7. Views'
  <2>1. VisibleIsCommitted'
    BY <1>1 DEF IInv, Views, VisibleIsCommitted
  <2>2. ~Held' => ~Held \/ txn' = txn
    BY <1>3
  <2>3. txn' = txn => (Held' <=> Held) /\ (Unlocked' <=> Unlocked)
    BY DEF Held, Unlocked
  <2> HIDE DEF VisibleIsCommitted
  <2>4. CASE txn' = txn
    BY <1>1, <1>2, <2>1, <2>3, <2>4 DEF IInv, Views
  <2>5. CASE ~Held /\ txn.op # "start" /\ txn'.op = "none"
    BY <1>1, <1>2, <1>3, <2>1, <2>5 DEF IInv, Views, Unlocked
  <2> QED BY <1>3, <2>4, <2>5
<1>8. Ends0' /\ PartialInv' /\ KeysInv'
  <2>1. Ends0' /\ KeysInv'
    BY <1>1, <1>3 DEF IInv, Ends0, KeepsEnds, KeysInv, Named
  <2>2. ASSUME NEW u \in Tasks
        PROVE  /\ tasks'[u] = "partial" =>
                     \/ visible'[u] = "partial"
                     \/ Held' /\ txn'.op = "complete" /\ txn'.task = u /\ txn'.rollback = "rejected"
               /\ Held' /\ txn'.saved.tasks[u] = "partial" => visible'[u] = "partial"
    <3>1. /\ tasks[u] = "partial" =>
                \/ visible[u] = "partial"
                \/ Held /\ txn.op = "complete" /\ txn.task = u /\ txn.rollback = "rejected"
          /\ Held /\ txn.saved.tasks[u] = "partial" => visible[u] = "partial"
      BY DEF IInv, PartialInv
    <3>2. CASE txn' = txn
      BY <1>1, <1>3, <3>1, <3>2 DEF Held, Unlocked
    <3>3. CASE ~Held
      BY <1>1, <1>3, <3>1, <3>3
    <3> QED BY <1>3, <3>2, <3>3
  <2>3. PartialInv'
    BY <2>2 DEF PartialInv
  <2> QED BY <2>1, <2>3
<1>9. OwnersInv'
  <2>1. CASE txn' = txn
    BY <1>1, <1>2, <2>1 DEF IInv, OwnersInv, Held, Unlocked
  <2>2. CASE ~Held /\ ~Held'
    BY <1>1, <1>2, <2>2 DEF IInv, OwnersInv
  <2> QED BY <1>3, <2>1, <2>2 DEF Held, Unlocked
<1>10. DeletedInv'
  <2>1. ASSUME NEW u \in Tasks, Gone(u) PROVE Gone(u)'
    BY <1>1, <1>3, <2>1 DEF Gone
  <2>2. ASSUME available, runner[t].pc = "done" PROVE Gone(t)
    <3>1. tasks[t] \in Over /\ (Held => txn.saved.tasks[t] \in Over) /\ txn.op # "start"
      BY <2>2 DEF IInv, OwnersInv, Views
    <3>2. CASE ~Held
      BY <2>2, <3>1, <3>2 DEF IInv, Views, Gone
    <3>3. CASE Held
      BY <2>2, <3>1, <3>3 DEF IInv, Views, Gone
    <3> QED BY <3>2, <3>3
  <2>3. deleted \subseteq Tasks /\ quarantine \subseteq Tasks
    BY DEF IInv, Tables, Tasks
  <2>4. \A u \in deleted' : Gone(u)'
    BY <2>1, <2>2, <2>3 DEF IInv, DeletedInv
  <2>5. ASSUME NEW u \in quarantine', cleared', visible'[u] \in Over PROVE Gone(u)'
    BY <1>1, <2>1, <2>3, <2>5 DEF IInv, DeletedInv
  <2>6. CASE txn' = txn
    BY <1>1, <2>4, <2>5, <2>6 DEF IInv, DeletedInv, Held, Unlocked
  <2>7. CASE ~Held /\ ~Held'
    BY <1>1, <2>4, <2>5, <2>7 DEF IInv, DeletedInv
  <2> QED BY <1>3, <2>6, <2>7 DEF Held, Unlocked
<1>11. WorkInv'
  <2>1. CASE txn' = txn
    BY <1>1, <1>2, <2>1 DEF IInv, WorkInv, Held, Unlocked, Over, Working
  <2>2. CASE ~Held /\ ~Held'
    BY <1>1, <1>2, <2>2 DEF IInv, WorkInv, Over, Working
  <2> QED BY <1>3, <2>1, <2>2 DEF Held, Unlocked
<1> QED
  BY <1>3, <1>4, <1>5, <1>6, <1>7, <1>8, <1>9, <1>10, <1>11 DEF IInv

-----------------------------------------------------------------------------
(* The requests.                                                            *)

\* Entered: a request's body runs with no save open and, if it waited for one, available.
LEMMA Bodies ==
    ASSUME IInv, NEW op \in {"cancel", "complete", "cached", "reject"}, NEW t, Entered(op, t)
    PROVE  ~Held /\ txn.op # "start" /\ (op # "complete" => available /\ tasks = visible)
<1>1. CASE Unlocked /\ available
  BY <1>1 DEF IInv, Views, Held, Unlocked
<1>2. CASE txn.op = op /\ txn.task = t /\ txn.phase = "ready"
  BY <1>2 DEF IInv, Views, Held, Unlocked
<1> QED BY <1>1, <1>2 DEF Entered

\* Clearing a task's deduplication key, or keeping it, keeps the keys exact.
LEMMA NamesKept ==
    ASSUME TaskAssumption, IInv, NEW t \in Tasks, NEW new \in States,
           tasks' = [tasks EXCEPT ![t] = new],
           \/ active' = active /\ (new \in Active => tasks[t] \in Active)
           \/ active' = ClearedActive(t) /\ new \notin Active
    PROVE  active' \in [Keys -> Tasks \cup {NoTask}] /\ Named(tasks', active')
<1>1. /\ tasks \in [Tasks -> States] /\ KeyOf \in [Tasks -> Keys]
      /\ active \in [Keys -> Tasks \cup {NoTask}]
      /\ Named(tasks, active)
  BY DEF IInv, Tables, KindSnapshots, Snapshots, KeysInv, TaskAssumption
<1>2. CASE active' = active /\ (new \in Active => tasks[t] \in Active)
  BY <1>1, <1>2 DEF Named
<1>3. CASE active' = ClearedActive(t) /\ new \notin Active
  BY <1>1, <1>3 DEF Named, ClearedActive
<1> QED BY <1>2, <1>3

\* create_bilibili_task and its playback twin, with the deduplication of active tasks.
LEMMA CreateStep ==
    ASSUME TaskAssumption, IInv, NEW t \in Tasks, Create(t)
    PROVE  IInv'
<1> DEFINE new == IF t \in Downloads THEN "queued" ELSE "preparing"
<1>1. ~Held /\ txn.op # "start"
  BY DEF Create, Held, Unlocked
<1>2. /\ tasks \in [Tasks -> States] /\ KeyOf \in [Tasks -> Keys]
      /\ active \in [Keys -> Tasks \cup {NoTask}]
      /\ Named(tasks, active)
  BY DEF IInv, Tables, KindSnapshots, Snapshots, KeysInv, TaskAssumption
<1>3. tasks' = [tasks EXCEPT ![t] = new]
  BY DEF Create, Stage
<1>4. active' = IF Deduplicated(t) THEN [active EXCEPT ![KeyOf[t]] = t] ELSE active
  BY DEF Create
<1>5. Deduplicated(t) => \A u \in Tasks \ {t} :
          Deduplicated(u) /\ tasks[u] \in Active => KeyOf[u] # KeyOf[t]
  BY <1>2, TaskAssumption DEF Create, Duplicate, Named, TaskAssumption
<1>6. active' \in [Keys -> Tasks \cup {NoTask}] /\ Named(tasks', active')
  BY <1>2, <1>3, <1>4, <1>5 DEF Named
<1>7. new \in States
  BY DEF States, Active
<1>8. Mutation("create", t, new, "rejected", FALSE)
  BY DEF Create, Mutation, Stage, store
<1>9. Legal("create", t, new, "rejected", FALSE)
  BY DEF Create, Fresh, Legal, Follows, TaskAssumption, Tasks, Terminal, Served, Over, Working
<1> HIDE DEF new
<1> QED BY <1>1, <1>6, <1>7, <1>8, <1>9, MutationStep

\* cancel_task, from its preparing save to the token of the owner.
LEMMA CancelStep ==
    ASSUME TaskAssumption, IInv, NEW t \in Tasks,
           CancelPrepare(t) \/ CancelSettled(t) \/ CancelOwner(t) \/ CancelNow(t)
    PROVE  IInv'
<1>1. /\ tasks \in [Tasks -> States] /\ runner \in [Tasks -> Runners]
      /\ runner = [runner EXCEPT ![t] = runner[t]]
      /\ Wants(t, runner[t])
  BY DEF IInv, Tables, KindSnapshots, Snapshots
<1>2. CASE CancelPrepare(t)
  <2>1. ~Held /\ txn.op # "start"
    BY <1>2 DEF CancelPrepare, Held, Unlocked
  <2> QED BY <1>2, <2>1, SaveOnlyStep DEF CancelPrepare
<1>3. CASE CancelSettled(t)
  <2>1. ~Held /\ txn.op # "start"
    BY <1>3, Bodies DEF CancelSettled
  <2>2. Unlock /\ Untouched /\ UNCHANGED <<quarantine, cleared, runner, deleted>>
    BY <1>3 DEF CancelSettled, owners
  <2> QED BY <1>1, <2>1, <2>2, QuietStep
<1>4. CASE CancelOwner(t)
  <2>1. /\ ~Held /\ txn.op # "start" /\ available /\ tasks = visible
        /\ UNCHANGED <<runner, deleted, quarantine, cleared>>
    BY <1>4, Bodies DEF CancelOwner
  <2>2. CASE visible[t] = "cancel_requested"
    <3>1. Unlock /\ Untouched
      BY <1>4, <2>2 DEF CancelOwner
    <3> QED BY <1>1, <2>1, <3>1, QuietStep
  <2>3. CASE visible[t] # "cancel_requested"
    <3>1. /\ visible[t] \in {"running", "preparing"} /\ tasks[t] \in {"running", "preparing"}
          /\ Stage(t, "cancel_requested")
          /\ Lock("cancelMark", t, "never", FALSE, "save")
          /\ UNCHANGED <<queue, active, registered, visible, watchers, store, crashes, permanents>>
      BY <1>4, <2>1, <2>3 DEF CancelOwner
    <3>2. Mutation("cancelMark", t, "cancel_requested", "never", FALSE)
      BY <2>1, <3>1 DEF Mutation, Stage, store
    <3>3. active' \in [Keys -> Tasks \cup {NoTask}] /\ Named(tasks', active')
      BY <3>1, NamesKept DEF Stage, States, Active
    <3>4. Legal("cancelMark", t, "cancel_requested", "never", FALSE)
      BY <2>1, <3>1 DEF Legal, Follows, Terminal, Served, Over, Working, IInv, OwnersInv, DeletedInv, Gone, WorkInv
    <3>5. "cancel_requested" \in States
      BY DEF States, Active
    <3> QED BY <2>1, <3>2, <3>3, <3>4, <3>5, MutationStep
  <2> QED BY <2>2, <2>3
<1>5. CASE CancelNow(t)
  <2>1. ~Held /\ txn.op # "start" /\ available /\ tasks = visible
    BY <1>5, Bodies DEF CancelNow
  <2>2. DeletesHlsData(t) \in BOOLEAN
    BY DEF DeletesHlsData
  <2>3. Mutation("cancel", t, "cancelled", "rejected", DeletesHlsData(t))
    BY <1>5 DEF CancelNow, Mutation, Stage, store, owners
  <2>4. "cancelled" \in States /\ "cancelled" \notin Active
    BY DEF States, Active, Terminal
  <2>5. active' \in [Keys -> Tasks \cup {NoTask}] /\ Named(tasks', active')
    BY <1>5, <2>4, NamesKept DEF CancelNow, Stage, ClearActive
  <2>6. Legal("cancel", t, "cancelled", "rejected", DeletesHlsData(t))
    BY <1>5, <2>1 DEF CancelNow, DeletesHlsData, Legal, Follows, Terminal, Served, Over, Working, IInv, Tables
  <2> QED BY <2>1, <2>2, <2>3, <2>4, <2>5, <2>6, MutationStep
<1> QED BY <1>2, <1>3, <1>4, <1>5

\* Cache updates and remove_completed_playback_task: how HLS data leaves a task.
LEMMA CachedStep ==
    ASSUME TaskAssumption, IInv, NEW t \in Tasks, CachedPrepare(t) \/ Cached(t) \/ Remove(t)
    PROVE  IInv'
<1>1. CASE CachedPrepare(t)
  <2>1. ~Held /\ txn.op # "start"
    BY <1>1 DEF CachedPrepare, Held, Unlocked
  <2> QED BY <1>1, <2>1, SaveOnlyStep DEF CachedPrepare
<1>2. CASE Cached(t)
  <2>1. ~Held /\ txn.op # "start" /\ available /\ tasks = visible /\ tasks[t] = "playable"
    BY <1>2, Bodies DEF Cached
  <2>2. Mutation("cached", t, "completed", "never", FALSE)
    BY <1>2 DEF Cached, Mutation, Stage, store, owners
  <2>3. "completed" \in States /\ "completed" \notin Active
    BY DEF States, Active, Terminal
  <2>4. active' \in [Keys -> Tasks \cup {NoTask}] /\ Named(tasks', active')
    BY <1>2, <2>3, NamesKept DEF Cached, Stage, ClearActive
  <2>5. Legal("cached", t, "completed", "never", FALSE)
    BY <2>1 DEF Legal, Follows, Terminal, Served, Over, Working, IInv, OwnersInv, DeletedInv, Gone, Tables,
                KindSnapshots, OfKind
  <2> QED BY <2>1, <2>2, <2>3, <2>4, <2>5, MutationStep
<1>3. CASE Remove(t)
  <2>1. ~Held /\ txn.op # "start" /\ t \in Playbacks /\ tasks[t] = "completed"
    BY <1>3 DEF Remove, Held, Unlocked
  <2>2. Mutation("remove", t, "absent", "rejected", TRUE)
    BY <1>3 DEF Remove, Mutation, Stage, store, owners
  <2>3. "absent" \in States /\ "absent" \notin Active
    BY DEF States, Active
  <2>4. active' \in [Keys -> Tasks \cup {NoTask}] /\ Named(tasks', active')
    BY <1>3, <2>3, NamesKept DEF Remove, Stage
  <2>5. Legal("remove", t, "absent", "rejected", TRUE)
    BY <2>1 DEF Legal, Follows, Lapses, Terminal, Served, Over, Working, IInv, Ends0, KeepsEnds
  <2> QED BY <2>1, <2>2, <2>3, <2>4, <2>5, MutationStep
<1> QED BY <1>1, <1>2, <1>3

\* fail_unrestorable_playback_session_after_cache_restore: a playback fails with
\* its session, or only its results change.
LEMMA RejectStep ==
    ASSUME TaskAssumption, IInv, NEW t \in Tasks, RejectPrepare(t) \/ Reject(t)
    PROVE  IInv'
<1>1. CASE RejectPrepare(t)
  <2>1. ~Held /\ txn.op # "start"
    BY <1>1 DEF RejectPrepare, Held, Unlocked
  <2> QED BY <1>1, <2>1, SaveOnlyStep DEF RejectPrepare
<1>2. CASE Reject(t)
  <2>1. /\ ~Held /\ txn.op # "start" /\ tasks = visible
        /\ t \in Playbacks /\ tasks[t] \in Served /\ tasks \in [Tasks -> States]
    BY <1>2, Bodies DEF Reject, IInv, Tables, KindSnapshots, Snapshots
  <2>2. /\ t \notin Downloads /\ runner[t].pc = "idle" /\ tasks[t] \notin Over
        /\ tasks[t] \notin Active /\ t \notin deleted
    BY <2>1 DEF TaskAssumption, IInv, OwnersInv, DeletedInv, Gone, Served, Over, Active
  <2>3. CASE Stage(t, "failed") /\ ClearActive(t)
    <3>1. Mutation("reject", t, "failed", "rejected", TRUE)
      BY <1>2, <2>3 DEF Reject, Mutation, Stage, store, owners
    <3>2. "failed" \in States /\ "failed" \notin Active
      BY DEF States, Active, Terminal
    <3>3. active' \in [Keys -> Tasks \cup {NoTask}] /\ Named(tasks', active')
      BY <2>3, <3>2, NamesKept DEF Stage, ClearActive
    <3>4. Legal("reject", t, "failed", "rejected", TRUE)
      BY <2>1, <2>2 DEF Legal, Follows, Lapses, Terminal, Served, Over, Working
    <3> QED BY <2>1, <3>1, <3>2, <3>3, <3>4, MutationStep
  <2>4. CASE Stage(t, tasks[t]) /\ UNCHANGED <<queue, active, registered>>
    <3> DEFINE new == tasks[t]
    <3>1. Mutation("reject", t, new, "rejected", TRUE)
      BY <1>2, <2>4 DEF Reject, Mutation, Stage, store, owners
    <3>2. new \in States
      BY <2>1
    <3>3. active' \in [Keys -> Tasks \cup {NoTask}] /\ Named(tasks', active')
      BY <2>2, <2>4, <3>2, NamesKept DEF Stage
    <3>4. Legal("reject", t, new, "rejected", TRUE)
      BY <2>1, <2>2 DEF Legal, Follows, Served, Over, Working
    <3> HIDE DEF new
    <3> QED BY <2>1, <3>1, <3>2, <3>3, <3>4, MutationStep
  <2> QED BY <1>2, <2>3, <2>4 DEF Reject
<1> QED BY <1>1, <1>2

\* tombstone_library_item_before_delete: downloads fail with the last of their media.
LEMMA TombstoneStep ==
    ASSUME TaskAssumption, IInv, Tombstone
    PROVE  IInv'
<1>1. PICK touched \in SUBSET {t \in Downloads : tasks[t] \in {"succeeded", "partial"}} :
          \E failed \in SUBSET touched : StageLoss(touched, failed)
  BY DEF Tombstone
<1>2. PICK failed \in SUBSET touched : StageLoss(touched, failed)
  BY <1>1
<1>3. touched \in SUBSET Tasks /\ \A t \in failed : Fails("tombstone", t, tasks[t])
  BY DEF Tasks, Fails
<1>4. /\ ~Held /\ txn.op # "start" /\ Lock("tombstone", NoTask, "rejected", TRUE, "save")
      /\ UNCHANGED <<active, visible, available, installed, recoverable, runner, deleted,
                     quarantine, cleared, crashes, permanents>>
  BY DEF Tombstone, Held, Unlocked, store, owners
<1> QED BY <1>2, <1>3, <1>4, LossStep

\* fail_unrestorable_playback_tasks: the start goes on without the sessions that
\* the cache could not restore.
LEMMA FailUnrestorableStep ==
    ASSUME TaskAssumption, IInv, FailUnrestorable
    PROVE  IInv'
<1>1. PICK lost \in SUBSET {t \in Playbacks : tasks[t] \in Served} :
          /\ StageLoss(lost, lost)
          /\ IF lost = {} THEN Unlock ELSE Lock("restore", NoTask, "never", FALSE, "save")
  BY DEF FailUnrestorable
<1>2. /\ ~Held /\ txn.op = "restore" /\ ~cleared
      /\ UNCHANGED <<active, visible, available, installed, recoverable, runner, deleted,
                     quarantine, cleared, crashes, permanents>>
  BY DEF FailUnrestorable, Held, IInv, Views, store, owners
<1>3. CASE lost = {}
  <2>1. Unlock /\ UNCHANGED <<tasks, pending>>
    BY <1>1, <1>3 DEF StageLoss, IInv, Tables, KindSnapshots, Snapshots
  <2> QED BY <1>2, <2>1, UnlockStep
<1>4. CASE lost # {}
  <2>1. lost \in SUBSET Tasks /\ \A t \in lost : Fails("restore", t, tasks[t])
    BY DEF Tasks, Fails
  <2>2. StageLoss(lost, lost) /\ Lock("restore", NoTask, "never", FALSE, "save") /\ lost \in SUBSET lost
    BY <1>1, <1>4
  <2> HIDE DEF Lock, StageLoss
  <2> QED BY <1>2, <2>1, <2>2, LossStep
<1> QED BY <1>3, <1>4

-----------------------------------------------------------------------------
(* The owners.                                                              *)

\* claim_next_bilibili_task: the worker becomes the owner of a queued download.
LEMMA ClaimStep ==
    ASSUME TaskAssumption, IInv, NEW t \in Downloads, Claim(t)
    PROVE  IInv'
<1>1. t \in Tasks /\ ~Held /\ txn.op # "start" /\ tasks[t] = "queued"
  BY DEF Claim, Claimable, Held, Unlocked, Tasks
<1>2. Mutation("claim", t, "running", "never", FALSE)
  BY DEF Claim, Mutation, Stage, store
<1>3. "running" \in States /\ tasks[t] \in Active
  BY <1>1 DEF States, Active
<1>4. active' \in [Keys -> Tasks \cup {NoTask}] /\ Named(tasks', active')
  BY <1>1, <1>3, NamesKept DEF Claim, Stage
<1>5. t \notin Playbacks /\ t \notin deleted /\ t \notin quarantine
  BY DEF TaskAssumption, IInv, Tables
<1>6. Legal("claim", t, "running", "never", FALSE)
  BY <1>1, <1>5 DEF Legal, Follows, Lapses, Terminal, Served, Over, Working, IInv, OwnersInv, Ends0,
                    KeepsEnds
<1> QED BY <1>1, <1>2, <1>3, <1>4, <1>6, MutationStep

\* What complete_task and commit_staged_download_terminal record.
LEMMA FinishIsLegal ==
    ASSUME TaskAssumption, IInv, ~Held, NEW t \in Tasks, runner[t].pc = "finish", ~Settled(t),
           NEW rollback, runner[t].want = "partial" => rollback = "rejected"
    PROVE  /\ EffectiveState(t) \in {"succeeded", "failed", "cancelled", "partial"}
           /\ Legal("complete", t, EffectiveState(t), rollback, FALSE)
<1>1. runner[t].want \in {"succeeded", "failed", "cancelled", "partial"} /\ Wants(t, runner[t])
  BY DEF IInv, Tables, Runners
<1>2. /\ EffectiveState(t) \in {"succeeded", "failed", "cancelled", "partial"}
      /\ EffectiveState(t) \in {"succeeded", "partial"} => t \in Downloads
      /\ EffectiveState(t) = "partial" => rollback = "rejected"
      /\ tasks[t] = "cancel_requested" => EffectiveState(t) \in {"cancelled", "partial"}
  BY <1>1 DEF EffectiveState, Wants
<1>3. /\ visible[t] \notin Terminal
      /\ visible[t] = "cancel_requested" => tasks[t] = "cancel_requested"
  BY DEF IInv, Ends0, KeepsEnds, Follows, Lapses, Settled, Terminal
<1>4. t \notin deleted /\ t \notin quarantine
  BY DEF IInv, OwnersInv, DeletedInv, Gone, Settled, Terminal, Over
<1>5. t \in Downloads => t \notin Playbacks
  BY DEF TaskAssumption
<1> HIDE DEF EffectiveState
<1> QED BY <1>2, <1>3, <1>4, <1>5 DEF Legal, Follows, Served, Over, Working

\* complete_task_succeeded and its siblings: an owner records the end of its task.
LEMMA FinishStep ==
    ASSUME TaskAssumption, IInv, NEW t \in Tasks, Finish(t) \/ Commit(t)
    PROVE  IInv'
<1>1. /\ ~Held /\ txn.op # "start" /\ runner[t].pc = "finish" /\ ~Settled(t)
      /\ Stage(t, EffectiveState(t)) /\ ClearActive(t)
      /\ UNCHANGED <<visible, watchers, store, owners, crashes, permanents>>
  <2>1. CASE Finish(t)
    BY <2>1, Bodies DEF Finish, Finishing
  <2>2. CASE Commit(t)
    BY <2>2 DEF Commit, Finishing, Held, Unlocked
  <2> QED BY <2>1, <2>2
<1>2. PICK rollback \in {"never", "rejected"} :
          /\ Lock("complete", t, rollback, FALSE, "save")
          /\ runner[t].want = "partial" => rollback = "rejected"
  <2>1. runner[t].want = "partial" => runner[t].via = "commit"
    BY DEF IInv, Tables, Wants
  <2> QED BY <2>1 DEF Finish, Commit, Finishing
<1> DEFINE new == EffectiveState(t)
<1>3. Mutation("complete", t, new, rollback, FALSE)
  BY <1>1, <1>2 DEF Mutation, Stage, store, owners
<1>4. /\ new \in {"succeeded", "failed", "cancelled", "partial"}
      /\ Legal("complete", t, new, rollback, FALSE)
  BY <1>1, <1>2, FinishIsLegal
<1>5. new \in States /\ new \notin Active
  BY <1>4 DEF States, Active, Terminal
<1>6. active' \in [Keys -> Tasks \cup {NoTask}] /\ Named(tasks', active')
  BY <1>1, <1>5, NamesKept DEF Stage, ClearActive
<1> HIDE DEF new
<1>7. CASE rollback = "never"
  BY <1>1, <1>3, <1>4, <1>5, <1>6, <1>7, MutationStep
<1>8. CASE rollback = "rejected"
  BY <1>1, <1>3, <1>4, <1>5, <1>6, <1>8, MutationStep
<1> QED BY <1>2, <1>7, <1>8

\* A planner publishes its task or updates it.
LEMMA PlannerStep ==
    ASSUME TaskAssumption, IInv, NEW t \in Tasks, PlannerPublishes(t) \/ PlannerUpdates(t)
    PROVE  IInv'
<1>1. /\ ~Held /\ txn.op # "start" /\ t \in Playbacks /\ runner[t].pc = "run" /\ ~Settled(t)
      /\ tasks \in [Tasks -> States]
  BY DEF PlannerPublishes, PlannerUpdates, Held, Unlocked, IInv, Tables, KindSnapshots, Snapshots
<1>2. t \notin Downloads /\ t \notin deleted /\ t \notin quarantine /\ tasks[t] \notin Served
  BY <1>1 DEF TaskAssumption, IInv, OwnersInv, DeletedInv, Gone, Settled, Terminal, Over
<1>3. CASE PlannerPublishes(t)
  <2> DEFINE new == IF tasks[t] = "cancel_requested" THEN "cancelled" ELSE "playable"
  <2>1. Mutation("publish", t, new, "permanent", FALSE)
    BY <1>3 DEF PlannerPublishes, Mutation, Stage, store, owners
  <2>2. new \in States /\ new \notin Active /\ new \in {"playable", "cancelled"}
    BY DEF States, Active, Terminal
  <2>3. active' \in [Keys -> Tasks \cup {NoTask}] /\ Named(tasks', active')
    BY <1>3, <2>2, NamesKept DEF PlannerPublishes, Stage
  <2>4. visible[t] = "preparing"
    BY <1>3 DEF PlannerPublishes
  <2> HIDE DEF new
  <2>5. Legal("publish", t, new, "permanent", FALSE)
    BY <1>1, <1>2, <2>2, <2>4 DEF Legal, Follows, Terminal, Over, Working
  <2> QED BY <1>1, <2>1, <2>2, <2>3, <2>5, MutationStep
<1>4. CASE PlannerUpdates(t)
  <2>1. Mutation("update", t, tasks[t], "permanent", FALSE)
    BY <1>4 DEF PlannerUpdates, Mutation, Stage, store, owners
  <2>2. active' \in [Keys -> Tasks \cup {NoTask}] /\ Named(tasks', active')
    BY <1>1, <1>4, NamesKept DEF PlannerUpdates, Stage
  <2>3. Legal("update", t, tasks[t], "permanent", FALSE)
    BY <1>1, <1>2 DEF Legal, IInv, Tables, KindSnapshots, OfKind, Ends0, KeepsEnds
  <2> QED BY <1>1, <2>1, <2>2, <2>3, MutationStep
<1> QED BY <1>3, <1>4

\* An owner goes from its work to recording the result.
LEMMA OwnerMoveStep ==
    ASSUME TaskAssumption, IInv, NEW t \in Tasks,
           \/ AdapterReturns(t) \/ PlannerFails(t) \/ PlannerTooLate(t)
           \/ CommitSettled(t) \/ FinishChecked(t) \/ FinishSettled(t)
    PROVE  IInv'
<1>1. runner \in [Tasks -> Runners] /\ Wants(t, runner[t])
  BY DEF IInv, Tables
<1>2. ASSUME NEW pc \in {"finish", "retry", "done"}
      PROVE  /\ At(runner[t], pc) \in Runners /\ At(runner[t], pc).pc = pc
             /\ Wants(t, At(runner[t], pc))
  BY <1>1, <1>2 DEF At, Runners, Wants
<1>3. ASSUME NEW want \in {"succeeded", "failed", "cancelled", "partial"},
             NEW via \in {"complete", "commit"}
      PROVE  /\ Finishes(runner[t], want, via) \in Runners
             /\ Finishes(runner[t], want, via).pc = "finish"
             /\ (want \in {"succeeded", "partial"} => t \in Downloads)
                  /\ (want = "partial" => via = "commit") => Wants(t, Finishes(runner[t], want, via))
  <2>1. /\ Finishes(runner[t], want, via) \in Runners
        /\ Finishes(runner[t], want, via).pc = "finish"
        /\ Finishes(runner[t], want, via).want = want
        /\ Finishes(runner[t], want, via).via = via
    BY <1>1, <1>3 DEF Finishes, Runners
  <2> HIDE DEF Finishes
  <2> QED BY <2>1 DEF Wants
<1>4. Idle \in Runners /\ Idle.pc = "idle" /\ Wants(t, Idle)
  BY DEF Idle, Runners, Wants
<1> HIDE DEF At, Finishes, Idle, Runners, Wants
<1>5. CASE AdapterReturns(t)
  <2>1. PICK want \in {"succeeded", "failed", "cancelled", "partial"}, via \in {"complete", "commit"} :
            /\ want = "partial" => via = "commit"
            /\ runner' = [runner EXCEPT ![t] = Finishes(runner[t], want, via)]
    BY <1>5 DEF AdapterReturns
  <2>2. /\ t \in Downloads /\ runner[t].pc = "run" /\ Untouched
        /\ UNCHANGED <<txn, deleted, quarantine, cleared>>
    BY <1>5 DEF AdapterReturns
  <2>3. /\ Finishes(runner[t], want, via) \in Runners
        /\ Finishes(runner[t], want, via).pc = "finish"
        /\ Wants(t, Finishes(runner[t], want, via))
    BY <1>3, <2>1, <2>2
  <2> QED BY <2>1, <2>2, <2>3, QuietStep
<1>6. CASE PlannerFails(t)
  <2>1. PICK want \in {"failed", "cancelled"} :
            runner' = [runner EXCEPT ![t] = Finishes(runner[t], want, "complete")]
    BY <1>6 DEF PlannerFails
  <2>2. /\ runner[t].pc # "idle" /\ Untouched
        /\ UNCHANGED <<txn, deleted, quarantine, cleared>>
    BY <1>6 DEF PlannerFails
  <2>3. /\ Finishes(runner[t], want, "complete") \in Runners
        /\ Finishes(runner[t], want, "complete").pc = "finish"
        /\ Wants(t, Finishes(runner[t], want, "complete"))
    BY <1>3
  <2> QED BY <2>1, <2>2, <2>3, QuietStep
<1>7. CASE PlannerTooLate(t)
  <2>1. runner' = [runner EXCEPT ![t] = Finishes(runner[t], "cancelled", "complete")]
    BY <1>7 DEF PlannerTooLate
  <2>2. /\ runner[t].pc # "idle" /\ Untouched
        /\ UNCHANGED <<txn, deleted, quarantine, cleared>>
    BY <1>7 DEF PlannerTooLate
  <2>3. /\ Finishes(runner[t], "cancelled", "complete") \in Runners
        /\ Finishes(runner[t], "cancelled", "complete").pc = "finish"
        /\ Wants(t, Finishes(runner[t], "cancelled", "complete"))
    BY <1>3
  <2> QED BY <2>1, <2>2, <2>3, QuietStep
<1>8. CASE CommitSettled(t)
  <2>1. /\ runner[t].pc = "finish" /\ Untouched /\ Unlocked
        /\ UNCHANGED <<txn, deleted, quarantine, cleared>>
    BY <1>8 DEF CommitSettled, Finishing
  <2>2. ~Held /\ txn'.op = "none"
    BY <2>1 DEF Held, Unlocked
  <2>3. CASE Settled(t) /\ tasks[t] # "absent"
    <3>1. runner' = [runner EXCEPT ![t] = At(runner[t], "done")]
      BY <1>8, <2>3 DEF CommitSettled, Settled, Terminal
    <3>2. tasks[t] \in Over
      BY <2>1, <2>2, <2>3 DEF Settled, Terminal, Over, Served, IInv, OwnersInv
    <3> QED BY <1>1, <1>2, <2>1, <2>2, <3>1, <3>2, QuietStep
  <2>4. CASE ~(Settled(t) /\ tasks[t] # "absent")
    <3>1. PICK want \in {"failed", "cancelled"} :
              runner' = [runner EXCEPT ![t] = Finishes(runner[t], want, "complete")]
      <4>1. CASE tasks[t] = "cancel_requested" /\ runner[t].want \notin {"cancelled", "partial"}
        BY <1>8, <2>4, <4>1 DEF CommitSettled
      <4>2. CASE ~(tasks[t] = "cancel_requested" /\ runner[t].want \notin {"cancelled", "partial"})
        BY <1>8, <2>4, <4>2 DEF CommitSettled
      <4> QED BY <4>1, <4>2
    <3>2. /\ Finishes(runner[t], want, "complete") \in Runners
          /\ Finishes(runner[t], want, "complete").pc = "finish"
          /\ Wants(t, Finishes(runner[t], want, "complete"))
      BY <1>3
    <3> QED BY <2>1, <3>1, <3>2, QuietStep
  <2> QED BY <2>3, <2>4
<1>9. CASE FinishChecked(t)
  <2>1. runner[t].pc = "done" /\ Untouched /\ UNCHANGED <<txn, quarantine, cleared>>
    BY <1>9 DEF FinishChecked
  <2>2. tasks[t] \in Over /\ (Held => txn.saved.tasks[t] \in Over)
    BY <2>1 DEF IInv, OwnersInv
  <2>3. CASE available
    <3>1. runner' = [runner EXCEPT ![t] = Idle] /\ deleted' = deleted \cup ({t} \cap Playbacks)
      BY <1>9, <2>3 DEF FinishChecked
    <3> QED BY <1>4, <2>1, <2>2, <2>3, <3>1, QuietStep
  <2>4. CASE ~available
    <3>1. runner' = [runner EXCEPT ![t] = At(runner[t], "retry")] /\ deleted' = deleted
      BY <1>9, <2>4 DEF FinishChecked
    <3> QED BY <1>1, <1>2, <2>1, <3>1, QuietStep
  <2> QED BY <2>3, <2>4
<1>10. CASE FinishSettled(t)
  <2>1. /\ runner[t].pc = "finish" /\ ~Held /\ txn.op # "start" /\ Settled(t)
        /\ Unlock /\ Untouched /\ UNCHANGED <<deleted, quarantine, cleared>>
    BY <1>10, Bodies DEF FinishSettled, Finishing
  <2>2. tasks[t] \in Over
    BY <2>1 DEF Settled, Terminal, Over, Served, IInv, OwnersInv
  <2>3. txn'.op = "none"
    BY <2>1, Unlocking DEF IInv
  <2>4. CASE tasks[t] = "absent"
    <3>1. runner' = [runner EXCEPT ![t] = Idle]
      BY <1>10, <2>4 DEF FinishSettled
    <3> QED BY <1>4, <2>1, <2>2, <2>3, <3>1, QuietStep
  <2>5. CASE tasks[t] # "absent"
    <3>1. runner' = [runner EXCEPT ![t] = At(runner[t], "done")]
      BY <1>10, <2>5 DEF FinishSettled
    <3> QED BY <1>1, <1>2, <2>1, <2>2, <2>3, <3>1, QuietStep
  <2> QED BY <2>4, <2>5
<1> QED BY <1>5, <1>6, <1>7, <1>8, <1>9, <1>10

\* An owner asks for the store to be repaired, or waits to try again.
LEMMA WaitStep ==
    ASSUME TaskAssumption, IInv, NEW t \in Tasks,
           FinishPrepare(t) \/ OwnerRetry(t)
    PROVE  IInv'
<1>1. ~Held /\ txn.op # "start"
  BY DEF FinishPrepare, OwnerRetry, Held, Unlocked
<1>2. CASE FinishPrepare(t)
  <2>1. SaveOnly("completePrep", t) /\ runner[t].pc = "finish"
    BY <1>2 DEF FinishPrepare, Finishing
  <2> QED BY <1>1, <2>1, SaveOnlyStep
<1>3. CASE OwnerRetry(t)
  <2>1. CASE runner[t].pc = "retry" /\ SaveOnly("retry", t)
    BY <1>1, <2>1, SaveOnlyStep
  <2>2. CASE runner[t].pc = "recover" /\ SaveOnly("recover", t)
    BY <1>1, <2>2, SaveOnlyStep
  <2> QED BY <1>3, <2>1, <2>2 DEF OwnerRetry
<1> QED BY <1>2, <1>3

-----------------------------------------------------------------------------
(* Reconciliation, progress and the subscribers.                            *)

\* Everything the invariant speaks about.
Described == <<tasks, active, pending, visible, available, installed, recoverable, txn, runner,
               deleted, quarantine, cleared, crashes, permanents>>

\* The invariant does not speak of watchers, queue, caches and requests.
LEMMA Undisturbed ==
    ASSUME IInv, UNCHANGED Described
    PROVE  IInv'
<1> USE DEF Described
<1>1. Tables' /\ Txn' /\ OpInv' /\ HolderInv'
  BY DEF IInv, Tables, Txn, OpInv, HolderInv, Held, Unlocked
<1>2. Views'
  <2>1. VisibleIsCommitted' BY DEF IInv, Views, VisibleIsCommitted
  <2> QED BY <2>1 DEF IInv, Views, Held, Unlocked
<1>3. Ends0' /\ PartialInv' /\ KeysInv'
  BY DEF IInv, Ends0, KeepsEnds, PartialInv, KeysInv, Named, Held, Unlocked
<1>4. OwnersInv' /\ WorkInv' /\ DeletedInv'
  BY DEF IInv, OwnersInv, WorkInv, DeletedInv, Gone, Held, Unlocked
<1> QED BY <1>1, <1>2, <1>3, <1>4 DEF IInv

\* update_task_progress is not saved: live table and view change together.
LEMMA ProgressStep ==
    ASSUME TaskAssumption, IInv, NEW t \in Tasks, Progress(t)
    PROVE  IInv'
<1>1. /\ Unlocked /\ ~Held /\ tasks[t] # "absent"
      /\ UNCHANGED <<tasks, active, available, installed, recoverable, txn, runner,
                     deleted, quarantine, cleared, crashes, permanents>>
  BY DEF Progress, Held, store, owners
<1>2. tasks \in [Tasks -> States] /\ visible \in [Tasks -> States]
  BY DEF IInv, Tables, KindSnapshots, Snapshots
<1>3. visible' = visible /\ (pending' = pending \/ (HeldBack(t) /\ pending' = pending \cup {t}))
  <2>1. CASE HeldBack(t)
    BY <2>1 DEF Progress
  <2>2. CASE ~HeldBack(t)
    <3>1. tasks[t] = visible[t]
      BY <2>2 DEF HeldBack, IInv, Views
    <3>2. visible' = [visible EXCEPT ![t] = tasks[t]] /\ pending' = pending
      BY <2>2 DEF Progress
    <3> QED BY <1>2, <3>1, <3>2
  <2> QED BY <2>1, <2>2
<1>4. CASE pending' = pending
  BY <1>1, <1>3, <1>4, Undisturbed DEF Described
<1>5. CASE HeldBack(t) /\ pending' = pending \cup {t}
  <2>1. ~available
    BY <1>1, <1>5 DEF HeldBack, IInv, Views
  <2>2. ~Held' /\ Unlocked' /\ txn.op # "start"
    BY <1>1 DEF Held, Unlocked
  <2>3. Tables' /\ Txn'
    BY <1>1, <1>3, <1>5 DEF IInv, Tables, Txn
  <2>4. OpInv' /\ HolderInv'
    BY <1>1, <2>2 DEF IInv, OpInv, HolderInv
  <2>5. Views'
    <3>1. VisibleIsCommitted' BY <1>1, <1>3 DEF IInv, Views, VisibleIsCommitted
    <3> HIDE DEF VisibleIsCommitted
    <3> QED BY <1>1, <1>3, <1>5, <2>1, <2>2, <3>1 DEF IInv, Views
  <2>6. Ends0' /\ PartialInv' /\ KeysInv'
    BY <1>1, <1>3, <2>2 DEF IInv, Ends0, KeepsEnds, PartialInv, KeysInv, Named, Held, Unlocked
  <2>7. OwnersInv' /\ WorkInv' /\ DeletedInv'
    BY <1>1, <1>3, <2>2 DEF IInv, OwnersInv, WorkInv, DeletedInv, Gone
  <2> QED BY <2>3, <2>4, <2>5, <2>6, <2>7 DEF IInv
<1> QED BY <1>3, <1>4, <1>5

\* The startup reconciliation deletes only what no table serves.
LEMMA ReconcileStep ==
    ASSUME TaskAssumption, IInv, ReconcileBegin \/ \E t \in Tasks : Reconcile(t)
    PROVE  IInv'
<1>1. UNCHANGED <<tasks, active, pending, visible, available, installed, recoverable, txn, runner,
                  crashes, permanents>>
  BY DEF ReconcileBegin, Reconcile, Untouched, inner, store
<1>2. (Held' <=> Held) /\ (Unlocked' <=> Unlocked)
  BY <1>1 DEF Held, Unlocked
<1>3. /\ quarantine' \subseteq quarantine /\ cleared' \in BOOLEAN
      /\ deleted' \subseteq deleted \cup quarantine
      /\ txn.op \in {"start", "restore"} => cleared' = cleared
  BY DEF ReconcileBegin, Reconcile, Started, IInv, Tables
<1>4. quarantine \subseteq Tasks /\ deleted \subseteq Tasks
  BY DEF IInv, Tables, Tasks
<1>5. Tables' /\ Txn'
  BY <1>1, <1>3 DEF IInv, Tables, Txn
<1>6. OpInv' /\ HolderInv'
  BY <1>1, <1>2, <1>3 DEF IInv, OpInv, HolderInv
<1>7. Views'
  <2>1. VisibleIsCommitted' BY <1>1 DEF IInv, Views, VisibleIsCommitted
  <2> HIDE DEF VisibleIsCommitted
  <2> QED BY <1>1, <1>2, <1>3, <2>1 DEF IInv, Views
<1>8. Ends0' /\ PartialInv' /\ KeysInv' /\ WorkInv'
  BY <1>1, <1>2 DEF IInv, Ends0, KeepsEnds, PartialInv, KeysInv, Named, WorkInv
<1>9. OwnersInv'
  BY <1>1, <1>2, <1>3 DEF IInv, OwnersInv
<1>10. \A t \in Tasks : Gone(t) => Gone(t)'
  BY <1>1, <1>2 DEF Gone
<1>11. \A t \in deleted' : Gone(t)'
  <2>1. ASSUME NEW t \in quarantine, cleared, ~Authorizes(t) PROVE Gone(t)
    BY <2>1 DEF IInv, DeletedInv, Authorizes
  <2> QED
    BY <1>4, <1>10, <2>1 DEF ReconcileBegin, Reconcile, IInv, DeletedInv
<1>12. ASSUME NEW t \in quarantine', cleared', visible'[t] \in Over PROVE Gone(t)'
  <2>1. t \in quarantine /\ visible[t] \in Over
    BY <1>1, <1>3, <1>12
  <2>2. CASE cleared
    BY <1>4, <1>10, <2>1, <2>2 DEF IInv, DeletedInv
  <2>3. CASE ~cleared
    <3>1. available /\ txn.op # "start" /\ txn.op # "restore"
      BY <1>12, <2>3 DEF ReconcileBegin, Reconcile, Started
    <3>2. tasks[t] \in Over /\ (Held => txn.saved.tasks[t] \in Over)
      BY <2>1 DEF IInv, DeletedInv
    <3>3. \A s \in recoverable : s[t] \in Over
      BY <2>1, <3>1, <3>2 DEF IInv, Views
    <3>4. Gone(t)
      BY <2>1, <3>2, <3>3 DEF Gone
    <3> QED BY <1>4, <1>10, <2>1, <3>4
  <2> QED BY <2>2, <2>3
<1>13. ASSUME NEW t \in quarantine', cleared'
       PROVE  /\ tasks[t] \in Over => visible[t] \in Over \/ (Held /\ txn.durable)
              /\ Held /\ txn.saved.tasks[t] \in Over => visible[t] \in Over
  <2>1. t \in quarantine
    BY <1>3, <1>13
  <2>2. CASE cleared
    BY <2>1, <2>2 DEF IInv, DeletedInv
  <2>3. CASE ~cleared
    <3>1. available /\ txn.op # "start" /\ txn.op # "restore"
      BY <1>13, <2>3 DEF ReconcileBegin, Reconcile, Started
    <3>2. CASE ~Held
      BY <3>1, <3>2 DEF IInv, Views
    <3>3. CASE Held
      <4>1. txn.saved.tasks = visible
        BY <3>1, <3>3 DEF IInv, Views
      <4>2. tasks[t] \in Over => txn.saved.tasks[t] \in Over \/ txn.durable
        BY <2>1, <3>1, <3>3 DEF IInv, DeletedInv
      <4> QED BY <3>3, <4>1, <4>2
    <3> QED BY <3>2, <3>3
  <2> QED BY <2>2, <2>3
<1>14. DeletedInv'
  BY <1>1, <1>2, <1>3, <1>11, <1>12, <1>13 DEF IInv, DeletedInv
<1> QED BY <1>5, <1>6, <1>7, <1>8, <1>9, <1>14 DEF IInv

-----------------------------------------------------------------------------
(* The end of a save.                                                       *)

Outcomes == {"durable", "installed", "rejected", "permanent"}

\* What becomes of the owners: who has one afterwards, and who is let go.
RunnerFacts(outcome) ==
    /\ runner' \in [Tasks -> Runners]
    /\ \A u \in Tasks :
        /\ Wants(u, runner'[u])
        /\ runner'[u].pc # "idle" =>
              \/ runner[u].pc # "idle"
              \/ txn.task = u /\ txn.op = "claim"
              \/ txn.task = u /\ txn.op = "create" /\ Committed(outcome)
        /\ runner'[u].pc = "done" =>
              runner[u].pc = "done" \/ (txn.task = u /\ txn.op = "complete" /\ Committed(outcome))
        /\ runner'[u].pc = "idle" /\ runner[u].pc # "idle" =>
              \/ outcome = "permanent"
              \/ txn.task = u /\ txn.op = "publish" /\ tasks[u] = "playable"
        /\ txn.task = u /\ txn.op = "claim" => runner'[u].pc # "idle"
        /\ txn.task = u /\ txn.op = "create" /\ u \in Playbacks /\ Committed(outcome) =>
              runner'[u].pc # "idle"
        /\ txn.task = u /\ txn.op = "publish" /\ outcome # "permanent" /\ tasks[u] = "playable" =>
              runner'[u].pc = "idle"
    /\ Repaired(outcome) => runner' = runner

\* What the outcome of a save makes of the owner it was for.
LEMMA OwnersAfter ==
    ASSUME TaskAssumption, IInv, Held, NEW outcome \in Outcomes, runner' = RunnerAfter(outcome)
    PROVE  RunnerFacts(outcome)
<1> DEFINE t == txn.task
<1>1. /\ runner \in [Tasks -> Runners]
      /\ \A u \in Tasks : Wants(u, runner[u])
  BY DEF IInv, Tables
<1>2. Repaired(outcome) => \/ txn.op \in {"start", "cancelPrep", "cachedPrep", "rejectPrep"}
                           \/ txn.op = "completePrep" /\ Committed(outcome)
  BY DEF Repaired, Committed
<1>3. ASSUME NEW r \in Runners, t \in Tasks, runner' = [runner EXCEPT ![t] = r],
             Wants(t, r),
             r.pc # "idle" => \/ runner[t].pc # "idle" \/ txn.op = "claim"
                              \/ txn.op = "create" /\ Committed(outcome),
             r.pc = "done" => txn.op = "complete" /\ Committed(outcome),
             r.pc = "idle" => outcome = "permanent" \/ (txn.op = "publish" /\ tasks[t] = "playable"),
             txn.op \notin {"claim", "create"} \/ r.pc # "idle",
             txn.op = "publish" /\ outcome # "permanent" /\ tasks[t] = "playable" => r.pc = "idle",
             ~Repaired(outcome)
      PROVE  RunnerFacts(outcome)
  BY <1>1, <1>3 DEF RunnerFacts
<1>4. ASSUME runner' = runner, txn.op \notin {"claim", "publish"},
             txn.op # "create" \/ t \notin Playbacks \/ ~Committed(outcome)
      PROVE  RunnerFacts(outcome)
  BY <1>1, <1>4 DEF RunnerFacts
<1>5. ASSUME NEW r \in Runners, NEW pc \in {"finish", "retry", "done", "run"}
      PROVE  At(r, pc) \in Runners /\ At(r, pc).pc = pc /\ (Wants(t, r) => Wants(t, At(r, pc)))
  <2>1. /\ At(r, pc) \in Runners /\ At(r, pc).pc = pc
        /\ At(r, pc).want = r.want /\ At(r, pc).via = r.via
    BY <1>5 DEF At, Runners
  <2> HIDE DEF At, t
  <2> QED BY <2>1 DEF Wants
<1>6. ASSUME NEW r \in Runners, NEW want \in {"failed", "cancelled"}
      PROVE  /\ Finishes(r, want, "complete") \in Runners
             /\ Finishes(r, want, "complete").pc = "finish"
             /\ Finishes(r, want, "complete").want = want
             /\ Wants(t, Finishes(r, want, "complete"))
  <2>1. /\ Finishes(r, want, "complete") \in Runners
        /\ Finishes(r, want, "complete").pc = "finish"
        /\ Finishes(r, want, "complete").want = want
    BY <1>6 DEF Finishes, Runners
  <2> HIDE DEF Finishes, t
  <2> QED BY <1>6, <2>1 DEF Wants
<1>7. Idle \in Runners /\ Idle.pc = "idle" /\ Wants(t, Idle)
  BY DEF Idle, Runners, Wants
<1>8. ASSUME NEW pc \in {"run", "recover"}
      PROVE  Runs(t, pc) \in Runners /\ Runs(t, pc).pc = pc /\ Wants(t, Runs(t, pc))
  BY <1>8 DEF Runs, Runners, Wants
<1>9. CASE txn.op = "create"
  <2>1. t \in Tasks /\ ~Repaired(outcome)
    BY <1>2, <1>9 DEF IInv, OpInv
  <2>2. CASE t \in Playbacks /\ Committed(outcome)
    <3>1. PICK pc \in {"run", "recover"} : runner' = [runner EXCEPT ![t] = Runs(t, pc)]
      BY <1>9, <2>2 DEF RunnerAfter
    <3> HIDE DEF t
    <3> QED BY <1>3, <1>8, <1>9, <2>1, <2>2, <3>1
  <2>3. CASE ~(t \in Playbacks /\ Committed(outcome))
    <3>1. runner' = runner
      BY <1>9, <2>3 DEF RunnerAfter
    <3> QED BY <1>4, <1>9, <2>3, <3>1
  <2> QED BY <2>2, <2>3
<1>10. CASE txn.op = "claim"
  <2>1. t \in Tasks /\ ~Repaired(outcome)
    BY <1>2, <1>10 DEF IInv, OpInv, Tasks
  <2>2. runner' = [runner EXCEPT ![t] = Runs(t, "run")]
    BY <1>10 DEF RunnerAfter
  <2> HIDE DEF t
  <2> QED BY <1>3, <1>8, <1>10, <2>1, <2>2
<1>11. CASE txn.op \in {"complete", "completePrep"}
  <2>1. t \in Tasks /\ runner[t].pc # "idle"
    BY <1>11 DEF IInv, HolderInv
  <2>2. CASE txn.op = "complete" /\ Committed(outcome)
    <3>1. runner' = [runner EXCEPT ![t] = At(runner[t], "done")]
      BY <2>2 DEF RunnerAfter
    <3> HIDE DEF t
    <3> QED BY <1>1, <1>2, <1>3, <1>5, <2>1, <2>2, <3>1, ZenonT(60)
  <2>3. CASE ~Committed(outcome)
    <3>1. runner' = [runner EXCEPT ![t] = At(runner[t], "retry")]
      BY <1>11, <2>3 DEF RunnerAfter, AfterRejection
    <3> HIDE DEF t
    <3> QED BY <1>1, <1>2, <1>3, <1>5, <1>11, <2>1, <2>3, <3>1
  <2>4. CASE txn.op = "completePrep" /\ Committed(outcome)
    <3>1. runner' = runner
      BY <2>4 DEF RunnerAfter
    <3> QED BY <1>4, <2>4, <3>1
  <2> QED BY <1>11, <2>2, <2>3, <2>4
<1>12. CASE txn.op = "retry"
  <2>1. t \in Tasks /\ runner[t].pc # "idle" /\ ~Repaired(outcome)
    BY <1>2, <1>12 DEF IInv, HolderInv
  <2>2. CASE outcome # "permanent"
    <3>1. PICK pc \in {"finish", "retry"} : runner' = [runner EXCEPT ![t] = At(runner[t], pc)]
      BY <1>12, <2>2 DEF RunnerAfter, Outcomes
    <3>2. /\ At(runner[t], pc) \in Runners /\ At(runner[t], pc).pc \in {"finish", "retry"}
          /\ Wants(t, At(runner[t], pc))
      BY <1>1, <1>5, <2>1
    <3> HIDE DEF t
    <3> QED BY <1>1, <1>3, <1>12, <2>1, <3>1, <3>2
  <2>3. CASE outcome = "permanent"
    <3> DEFINE r == [Finishes(runner[t], "failed", "complete") EXCEPT !.armed = FALSE]
    <3>1. r \in Runners /\ r.pc = "finish" /\ Wants(t, r)
      <4> DEFINE f == Finishes(runner[t], "failed", "complete")
      <4>1. f \in Runners /\ f.pc = "finish" /\ f.want = "failed"
        BY <1>1, <1>6, <2>1
      <4> HIDE DEF f
      <4>2. [f EXCEPT !.armed = FALSE] \in Runners /\ [f EXCEPT !.armed = FALSE].pc = "finish"
            /\ [f EXCEPT !.armed = FALSE].want = "failed"
        BY <4>1 DEF Runners
      <4> QED BY <4>2 DEF f, Wants
    <3>2. runner' = [runner EXCEPT ![t] = r] \/ runner' = [runner EXCEPT ![t] = Idle]
      BY <1>12, <2>3 DEF RunnerAfter
    <3> HIDE DEF t, r
    <3> QED BY <1>3, <1>7, <1>12, <2>1, <2>3, <3>1, <3>2
  <2> QED BY <2>2, <2>3
<1>13. CASE txn.op = "recover"
  <2>1. t \in Tasks /\ runner[t].pc # "idle" /\ ~Repaired(outcome)
    BY <1>2, <1>13 DEF IInv, HolderInv
  <2>2. CASE outcome = "durable"
    <3>1. runner' = [runner EXCEPT ![t] = At(runner[t], "run")]
      BY <1>13, <2>2 DEF RunnerAfter
    <3> HIDE DEF t
    <3> QED BY <1>1, <1>3, <1>5, <1>13, <2>1, <3>1, ZenonT(60)
  <2>3. CASE outcome = "permanent"
    <3>1. runner' = [runner EXCEPT ![t] = Idle]
      BY <1>13, <2>3 DEF RunnerAfter
    <3> HIDE DEF t
    <3> QED BY <1>3, <1>7, <1>13, <2>1, <2>3, <3>1
  <2>4. CASE outcome \in {"installed", "rejected"}
    <3>1. runner' = runner
      BY <1>13, <2>4 DEF RunnerAfter
    <3> QED BY <1>4, <1>13, <3>1
  <2> QED BY <2>2, <2>3, <2>4 DEF Outcomes
<1>14. CASE txn.op = "publish"
  <2>1. t \in Tasks /\ runner[t].pc # "idle" /\ ~Repaired(outcome)
    BY <1>2, <1>14 DEF IInv, HolderInv
  <2>2. CASE outcome # "permanent" /\ tasks[t] = "playable"
    <3>1. runner' = [runner EXCEPT ![t] = Idle]
      BY <1>14, <2>2 DEF RunnerAfter
    <3> HIDE DEF t
    <3> QED BY <1>3, <1>7, <1>14, <2>1, <2>2, <3>1
  <2>3. CASE outcome = "permanent" \/ tasks[t] # "playable"
    <3>1. PICK want \in {"failed", "cancelled"} :
              runner' = [runner EXCEPT ![t] = Finishes(runner[t], want, "complete")]
      BY <1>14, <2>3 DEF RunnerAfter
    <3> HIDE DEF t
    <3> QED BY <1>1, <1>3, <1>6, <1>14, <2>1, <2>3, <3>1
  <2> QED BY <2>2, <2>3
<1>15. CASE txn.op \notin {"create", "claim", "complete", "completePrep", "retry", "recover", "publish"}
  <2>1. runner' = runner
    BY <1>15 DEF RunnerAfter
  <2> QED BY <1>4, <1>15, <2>1
<1> QED BY <1>9, <1>10, <1>11, <1>12, <1>13, <1>14, <1>15

\* The end of a save: the lock goes, or goes on to the body it was prepared for.
LEMMA Concluded ==
    ASSUME TaskAssumption, IInv, Held, NEW outcome \in Outcomes, Conclude(outcome)
    PROVE  /\ Txn' /\ ~Held' /\ HolderInv' /\ OpInv' /\ RunnerFacts(outcome)
           /\ txn'.op # "start"
           /\ txn'.op # "none" => /\ Repaired(outcome) /\ txn'.phase = "ready"
                                  /\ txn'.op \in {"cancel", "complete", "cached", "reject", "restore"}
                                  /\ txn'.op \notin {"complete", "restore"} => outcome = "durable"
                                  /\ txn'.op = "complete" => Committed(outcome)
                                  /\ txn'.op = "restore" => txn.op = "start"
           /\ UNCHANGED <<quarantine, cleared, crashes>>
<1>1. RunnerFacts(outcome) /\ UNCHANGED <<quarantine, cleared, crashes>>
  BY OwnersAfter DEF Conclude
<1>2. CASE Repaired(outcome)
  <2>1. txn' = [txn EXCEPT !.op = Body(txn.op), !.phase = "ready"]
    BY <1>2 DEF Conclude
  <2>2. /\ txn'.op = Body(txn.op) /\ txn'.phase = "ready" /\ txn'.task = txn.task
        /\ txn' = [op |-> txn'.op, task |-> txn.task, rollback |-> txn.rollback,
                   durable |-> txn.durable, phase |-> txn'.phase, saved |-> txn.saved]
    BY <2>1 DEF IInv, Txn
  <2>3. /\ Body(txn.op) \in {"cancel", "complete", "cached", "reject", "restore"}
        /\ Body(txn.op) = "complete" => txn.op = "completePrep" /\ Committed(outcome)
        /\ Body(txn.op) \notin {"complete", "restore"} => outcome = "durable"
        /\ Body(txn.op) = "restore" => txn.op = "start"
    BY <1>2 DEF Body, Repaired
  <2>4. Txn'
    BY <2>2, <2>3 DEF IInv, Txn, Ops
  <2>5. ~Held'
    BY <2>2 DEF Held
  <2>6. runner' = runner
    BY <1>1, <1>2 DEF RunnerFacts
  <2>7. HolderInv'
    BY <2>2, <2>3, <2>6 DEF HolderInv, IInv
  <2> HIDE DEF Body
  <2> QED BY <1>1, <1>2, <2>2, <2>3, <2>4, <2>5, <2>7 DEF OpInv
<1>3. CASE ~Repaired(outcome)
  <2>1. Txn' /\ txn'.op = "none" /\ ~Held'
    BY <1>3, Unlocking DEF Conclude, IInv
  <2> QED BY <1>1, <2>1 DEF HolderInv, OpInv
<1> QED BY <1>2, <1>3

\* A save that is taken back restores the checkpoint and disables the store.
LEMMA RollBackStep ==
    ASSUME TaskAssumption, IInv, Held, NEW outcome \in Outcomes, RollsBack(outcome),
           RollBack, Conclude(outcome), available' = FALSE,
           UNCHANGED <<visible, installed, recoverable>>,
           permanents' \in Nat, permanents' = 0 => permanents = 0 /\ outcome # "permanent"
    PROVE  IInv'
<1>1. /\ Txn' /\ ~Held' /\ HolderInv' /\ OpInv' /\ RunnerFacts(outcome) /\ txn'.op # "start"
      /\ txn'.op # "none" => Repaired(outcome)
      /\ UNCHANGED <<quarantine, cleared, crashes>>
  BY Concluded
<1>2. /\ tasks' = txn.saved.tasks /\ active' = txn.saved.active /\ pending' = txn.saved.pending
  BY DEF RollBack
<1>3. txn'.op = "none" /\ Unlocked' /\ deleted' = deleted
  <2>1. /\ outcome # "durable" /\ txn.op # "start"
        /\ outcome = "installed" => txn.op \in {"cancel", "remove", "reject", "tombstone"}
    BY DEF RollsBack, IInv, OpInv, Outcomes
  <2>2. ~Repaired(outcome)
    BY <2>1 DEF Repaired, Committed, RollsBack, Outcomes
  <2>3. deleted' = deleted
    BY <2>1 DEF Conclude
  <2> QED BY <1>1, <2>2, <2>3 DEF Unlocked
<1>4. Tables'
  BY <1>1, <1>2, <1>3 DEF IInv, Tables, Txn, RunnerFacts
<1>5. Views'
  <2>1. VisibleIsCommitted' BY DEF IInv, Views, VisibleIsCommitted
  <2> HIDE DEF VisibleIsCommitted
  <2> QED BY <1>1, <1>2, <1>3, <2>1 DEF IInv, Views
<1>6. Ends0' /\ PartialInv' /\ KeysInv'
  BY <1>1, <1>2 DEF IInv, Ends0, KeepsEnds, PartialInv, KeysInv
<1>7. OwnersInv'
  <2>1. ASSUME NEW u \in Tasks, runner'[u].pc # "idle"
        PROVE  u \notin quarantine /\ visible[u] \notin Served /\ txn.saved.tasks[u] \notin Served
    <3>1. CASE runner[u].pc # "idle"
      BY <3>1 DEF IInv, OwnersInv
    <3>2. CASE runner[u].pc = "idle"
      <4>1. u \in Downloads
        BY <1>1, <2>1, <3>2 DEF RunnerFacts, RollsBack, Committed, IInv, OpInv
      <4> QED BY <4>1 DEF TaskAssumption, IInv, Tables, Txn, KindSnapshots, OfKind, Served
    <3> QED BY <3>1, <3>2
  <2>2. ASSUME NEW u \in Tasks, runner'[u].pc = "done" PROVE txn.saved.tasks[u] \in Over
    BY <1>1, <2>2 DEF RunnerFacts, RollsBack, Committed, IInv, OpInv, OwnersInv
  <2> QED BY <1>1, <1>2, <2>1, <2>2 DEF OwnersInv
<1>8. DeletedInv'
  <2>1. quarantine \subseteq Tasks /\ deleted \subseteq Tasks
    BY DEF IInv, Tables, Tasks
  <2>2. \A u \in Tasks : Gone(u) => Gone(u)'
    BY <1>1, <1>2 DEF Gone
  <2> QED BY <1>1, <1>2, <1>3, <2>1, <2>2 DEF IInv, DeletedInv
<1>9. WorkInv'
  BY <1>1, <1>2 DEF IInv, WorkInv, RunnerFacts, RollsBack, OpInv
<1> QED BY <1>1, <1>4, <1>5, <1>6, <1>7, <1>8, <1>9 DEF IInv

\* The mutation stays in the live tables: it waits for a later save, or becomes
\* the committed view.
LEMMA KeepStep ==
    ASSUME TaskAssumption, IInv, Held, NEW outcome \in Outcomes, ~RollsBack(outcome),
           Keep, Conclude(outcome), installed' = installed,
           \/ /\ outcome \in {"rejected", "permanent"}
              /\ available' = FALSE /\ UNCHANGED <<visible, pending, recoverable>>
           \/ /\ outcome \in {"durable", "installed"} /\ txn.phase = "renamed"
              /\ visible' = tasks /\ pending' = {}
              /\ available' = (outcome = "durable")
              /\ recoverable' = (IF outcome = "durable" THEN {installed} ELSE recoverable),
           permanents' \in Nat, permanents' = 0 => permanents = 0 /\ outcome # "permanent"
    PROVE  IInv'
<1>1. /\ Txn' /\ ~Held' /\ HolderInv' /\ OpInv' /\ RunnerFacts(outcome) /\ txn'.op # "start"
      /\ txn'.op # "none" => /\ Repaired(outcome) /\ txn'.phase = "ready"
                             /\ txn'.op \in {"cancel", "complete", "cached", "reject", "restore"}
                             /\ txn'.op \notin {"complete", "restore"} => outcome = "durable"
                             /\ txn'.op = "complete" => Committed(outcome)
                             /\ txn'.op = "restore" => txn.op = "start"
      /\ UNCHANGED <<quarantine, cleared, crashes>>
  BY Concluded
<1>2. /\ tasks' = tasks
      /\ active' = active \/ (txn.op = "publish" /\ active' = ClearedActive(txn.task))
  BY DEF Keep
<1>3. deleted' = IF txn.op \in {"cancel", "remove"} /\ outcome = "durable"
                 THEN deleted \cup ({txn.task} \cap Playbacks) ELSE deleted
  BY DEF Conclude
<1>4. visible' \in {visible, tasks} /\ recoverable' \subseteq recoverable /\ installed \in recoverable'
  BY DEF IInv, Tables
<1>5. Tables'
  <2>1. active' \in [Keys -> Tasks \cup {NoTask}]
    BY <1>2 DEF ClearedActive, IInv, Tables
  <2>2. pending' \subseteq Tasks /\ available' \in BOOLEAN
    BY DEF IInv, Tables
  <2>3. deleted' \subseteq Playbacks
    BY <1>3 DEF IInv, Tables
  <2> QED BY <1>1, <1>2, <1>4, <2>1, <2>2, <2>3 DEF IInv, Tables, RunnerFacts
<1>6. Views'
  <2>1. CASE outcome \in {"rejected", "permanent"}
    <3>1. VisibleIsCommitted' BY <2>1 DEF IInv, Views, VisibleIsCommitted
    <3>2. txn'.op = "none" \/ (txn'.op = "restore" /\ txn.op = "start")
      BY <1>1, <2>1 DEF Committed
    <3>3. txn.op = "start" => tasks = visible /\ pending = {} /\ ~cleared
      BY DEF IInv, Views
    <3> HIDE DEF VisibleIsCommitted
    <3> QED BY <1>1, <1>2, <2>1, <3>1, <3>2, <3>3 DEF IInv, Views, Unlocked
  <2>2. CASE outcome \in {"durable", "installed"}
    <3>1. installed = tasks /\ visible' = tasks
      BY <2>2 DEF IInv, Views
    <3>2. VisibleIsCommitted' BY <1>4, <3>1 DEF VisibleIsCommitted
    <3>3. txn.op = "start" => ~cleared
      BY DEF IInv, Views
    <3> HIDE DEF VisibleIsCommitted
    <3> QED BY <1>1, <1>2, <2>2, <3>1, <3>2, <3>3 DEF Views, Unlocked
  <2> QED BY <2>1, <2>2 DEF Outcomes
<1>7. Ends0' /\ PartialInv'
  <2>1. KeepsEnds(tasks)'
    BY <1>2, <1>4 DEF IInv, Ends0, KeepsEnds, Follows
  <2>2. ASSUME NEW u \in Tasks, tasks[u] = "partial" PROVE visible'[u] = "partial"
    BY <1>4, <2>2 DEF IInv, PartialInv, RollsBack
  <2> QED BY <1>1, <1>2, <2>1, <2>2 DEF Ends0, PartialInv
<1>8. KeysInv'
  <2>1. ASSUME NEW u \in Tasks, tasks[u] \in Active PROVE txn.op # "publish" \/ txn.task # u
    BY <2>1 DEF IInv, OpInv, Active
  <2>2. Named(tasks', active')
    BY <1>2, <2>1 DEF IInv, KeysInv, Named, ClearedActive, TaskAssumption
  <2> QED BY <1>1, <2>2 DEF KeysInv
<1>9. OwnersInv'
  <2>1. ASSUME NEW u \in Tasks, runner'[u].pc # "idle"
        PROVE  u \notin quarantine /\ visible'[u] \notin Served /\ tasks[u] \notin Served
    <3>1. CASE runner[u].pc # "idle"
      <4>1. u \notin quarantine /\ visible[u] \notin Served
        BY <3>1 DEF IInv, OwnersInv
      <4>2. tasks[u] \notin Served
        BY <1>1, <2>1, <3>1 DEF IInv, OwnersInv, OpInv, RunnerFacts, RollsBack, Served
      <4> QED BY <1>4, <4>1, <4>2
    <3>2. CASE txn.task = u /\ txn.op = "claim"
      BY <1>4, <3>2 DEF TaskAssumption, IInv, OpInv, Tables, KindSnapshots, OfKind, Served
    <3>3. CASE txn.task = u /\ txn.op = "create" /\ Committed(outcome)
      BY <3>3 DEF IInv, OpInv, Served, Committed
    <3> QED BY <1>1, <2>1, <3>1, <3>2, <3>3 DEF RunnerFacts
  <2>2. ASSUME NEW u \in Tasks, runner'[u].pc = "done" PROVE tasks[u] \in Over
    BY <1>1, <2>2 DEF RunnerFacts, IInv, OpInv, OwnersInv, Over
  <2> QED BY <1>1, <1>2, <2>1, <2>2 DEF OwnersInv
<1>10. DeletedInv'
  <2>1. quarantine \subseteq Tasks /\ deleted \subseteq Tasks
    BY DEF IInv, Tables, Tasks
  <2>2. \A u \in Tasks : Gone(u) => Gone(u)'
    BY <1>1, <1>2, <1>4 DEF Gone
  <2>3. ASSUME outcome = "durable", NEW u \in Tasks, tasks[u] \in Over PROVE Gone(u)'
    <3>1. visible' = tasks /\ recoverable' = {tasks}
      BY <2>3 DEF IInv, Views
    <3> QED BY <1>1, <1>2, <2>3, <3>1 DEF Gone
  <2>4. \A u \in deleted' : Gone(u)'
    BY <1>3, <2>1, <2>2, <2>3 DEF IInv, DeletedInv, OpInv
  <2>5. ~txn.durable \/ outcome = "durable"
    BY DEF RollsBack, IInv, OpInv, Outcomes
  <2>6. ASSUME NEW u \in quarantine
        PROVE  /\ {tasks'[u], visible'[u]} \subseteq Served \cup Over
               /\ visible'[u] \in Over => tasks'[u] \in Over
               /\ cleared /\ tasks'[u] \in Over => visible'[u] \in Over
               /\ cleared /\ visible'[u] \in Over => Gone(u)'
    <3>1. u \in Tasks BY <2>1
    <3>2. /\ {tasks[u], visible[u]} \subseteq Served \cup Over
          /\ visible[u] \in Over => tasks[u] \in Over
          /\ cleared /\ tasks[u] \in Over => visible[u] \in Over \/ txn.durable
          /\ cleared /\ visible[u] \in Over => Gone(u)
      BY DEF IInv, DeletedInv
    <3>3. CASE outcome = "durable"
      BY <1>2, <2>3, <3>1, <3>2, <3>3
    <3>4. CASE outcome # "durable"
      BY <1>2, <1>4, <2>2, <2>5, <3>1, <3>2, <3>4
    <3> QED BY <3>3, <3>4
  <2> QED BY <1>1, <2>4, <2>6 DEF DeletedInv
<1>11. WorkInv'
  <2>1. ASSUME permanents' = 0, NEW u \in Tasks, tasks[u] \in Working PROVE runner'[u].pc # "idle"
    <3>1. permanents = 0 /\ outcome # "permanent"
      BY <2>1
    <3>2. CASE runner[u].pc # "idle"
      BY <1>1, <2>1, <3>1, <3>2 DEF RunnerFacts, Working
    <3>3. CASE txn.op = "claim" /\ txn.task = u
      BY <1>1, <3>3 DEF RunnerFacts
    <3>4. CASE txn.op = "create" /\ txn.task = u
      <4>1. Committed(outcome)
        BY <3>4 DEF RollsBack, Committed, IInv, OpInv, Outcomes
      <4>2. u \in Playbacks
        BY <2>1, <3>4 DEF IInv, OpInv, Working, Tables, KindSnapshots, OfKind, Tasks
      <4> QED BY <1>1, <3>4, <4>1, <4>2 DEF RunnerFacts
    <3> QED BY <2>1, <3>1, <3>2, <3>3, <3>4 DEF IInv, WorkInv
  <2> QED BY <1>1, <1>2, <2>1 DEF WorkInv
<1> QED BY <1>1, <1>5, <1>6, <1>7, <1>8, <1>9, <1>10, <1>11 DEF IInv

\* Every outcome of a save keeps the invariant.
LEMMA SaveStep ==
    ASSUME TaskAssumption, IInv, Save
    PROVE  IInv'
<1>1. Held /\ permanents \in Nat
  BY DEF Save, SaveRejected, SaveRenamed, SaveSynced, SaveNotSynced, Saving, Held, IInv, Tables
<1>2. CASE SaveRejected
  <2>1. PICK outcome \in {"rejected", "permanent"} :
            /\ permanents' = IF outcome = "permanent" THEN permanents + 1 ELSE permanents
            /\ IF RollsBack(outcome) THEN RollBack ELSE Keep /\ UNCHANGED pending
            /\ available' = AvailableAfter(outcome)
            /\ Conclude(outcome)
    BY <1>2 DEF SaveRejected
  <2>2. /\ outcome \in Outcomes /\ available' = FALSE /\ UNCHANGED <<visible, installed, recoverable>>
        /\ permanents' \in Nat /\ (permanents' = 0 => permanents = 0 /\ outcome # "permanent")
    <3>1. outcome \in Outcomes /\ available' = FALSE /\ UNCHANGED <<visible, installed, recoverable>>
      BY <1>2, <2>1 DEF SaveRejected, AvailableAfter, Outcomes
    <3>2. permanents' \in Nat /\ (permanents' = 0 => permanents = 0 /\ outcome # "permanent")
      BY <1>1, <2>1
    <3> QED BY <3>1, <3>2
  <2>3. CASE RollsBack(outcome)
    BY <1>1, <2>1, <2>2, <2>3, RollBackStep
  <2>4. CASE ~RollsBack(outcome)
    BY <1>1, <2>1, <2>2, <2>4, KeepStep
  <2> QED BY <2>3, <2>4
<1>3. CASE SaveRenamed
  <2>1. /\ installed' = tasks /\ recoverable' = recoverable \cup {tasks}
        /\ UNCHANGED <<tasks, active, pending, visible, available, runner, deleted, quarantine,
                       cleared, crashes, permanents>>
        /\ txn' = [txn EXCEPT !.phase = "renamed"]
    BY <1>3 DEF SaveRenamed, inner, owners
  <2>2. /\ txn'.op = txn.op /\ txn'.task = txn.task /\ txn'.rollback = txn.rollback
        /\ txn'.durable = txn.durable /\ txn'.phase = "renamed" /\ txn'.saved = txn.saved
        /\ txn' = [op |-> txn.op, task |-> txn.task, rollback |-> txn.rollback,
                   durable |-> txn.durable, phase |-> "renamed", saved |-> txn.saved]
    BY <2>1 DEF IInv, Txn
  <2>3. Txn' /\ Held' /\ Unlocked' = Unlocked
    BY <1>1, <2>2 DEF IInv, Txn, Held, Unlocked
  <2>4. Tables'
    BY <2>1 DEF IInv, Tables
  <2>5. OpInv' /\ HolderInv'
    BY <1>1, <2>1, <2>2, <2>3 DEF IInv, OpInv, HolderInv
  <2>6. Views'
    <3>1. VisibleIsCommitted' BY <2>1 DEF IInv, Views, VisibleIsCommitted
    <3> HIDE DEF VisibleIsCommitted
    <3> QED BY <1>1, <2>1, <2>2, <2>3, <3>1 DEF IInv, Views
  <2>7. Ends0' /\ PartialInv' /\ KeysInv'
    BY <1>1, <2>1, <2>2, <2>3 DEF IInv, Ends0, KeepsEnds, PartialInv, KeysInv, Named
  <2>8. OwnersInv' /\ WorkInv'
    BY <1>1, <2>1, <2>2, <2>3 DEF IInv, OwnersInv, WorkInv
  <2>9. DeletedInv'
    <3>1. \A u : Gone(u) => Gone(u)'
      BY <1>1, <2>1, <2>2 DEF Gone
    <3> QED BY <1>1, <2>1, <2>2, <2>3, <3>1 DEF IInv, DeletedInv
  <2> QED BY <2>3, <2>4, <2>5, <2>6, <2>7, <2>8, <2>9 DEF IInv
<1>4. CASE SaveSynced
  <2>1. /\ txn.phase = "renamed" /\ available' = TRUE /\ recoverable' = {installed}
        /\ visible' = tasks /\ pending' = {} /\ Keep /\ Conclude("durable")
        /\ UNCHANGED <<installed, permanents>>
    BY <1>4 DEF SaveSynced, Saving, AvailableAfter, Install
  <2>2. ~RollsBack("durable") /\ "durable" \in Outcomes
    BY DEF RollsBack, Outcomes
  <2> QED BY <1>1, <2>1, <2>2, KeepStep
<1>5. CASE SaveNotSynced
  <2>1. /\ txn.phase = "renamed" /\ available' = FALSE /\ Conclude("installed")
        /\ UNCHANGED <<installed, recoverable, permanents>> /\ "installed" \in Outcomes
        /\ IF RollsBack("installed") THEN RollBack /\ UNCHANGED <<visible, watchers>> ELSE Install
    BY <1>5 DEF SaveNotSynced, Saving, AvailableAfter, Outcomes
  <2>2. CASE RollsBack("installed")
    BY <1>1, <2>1, <2>2, RollBackStep
  <2>3. CASE ~RollsBack("installed")
    <3>1. visible' = tasks /\ pending' = {} /\ Keep
      BY <2>1, <2>3 DEF Install
    <3> QED BY <1>1, <2>1, <2>3, <3>1, KeepStep
  <2> QED BY <2>2, <2>3
<1> QED BY <1>2, <1>3, <1>4, <1>5 DEF Save

-----------------------------------------------------------------------------
(* The restart.                                                             *)

\* What from_persisted_state makes of a snapshot.
LEMMA Restored ==
    ASSUME TaskAssumption, NEW loaded \in KindSnapshots, NEW s \in Restorations(loaded)
    PROVE  /\ s \in KindSnapshots
           /\ \A t \in Tasks :
                /\ loaded[t] \in Over => s[t] \in Over
                /\ loaded[t] \in {"cancel_requested", "cancelled", "partial"} => s[t] \in {"cancelled", "partial"}
                /\ s[t] \notin Working
                /\ t \in Playbacks => s[t] \in Served \cup Over
           /\ \A t, u \in Tasks :
                /\ Deduplicated(t) /\ Deduplicated(u) /\ KeyOf[t] = KeyOf[u]
                /\ s[t] \in Active /\ s[u] \in Active
                => t = u
<1> DEFINE restored == [t \in Tasks |-> RestoredState(t, loaded[t])]
           contenders == {t \in Tasks : restored[t] \in Active /\ Deduplicated(t)}
<1>1. PICK keep \in SUBSET contenders :
          /\ \A t \in contenders : \E k \in keep : {u \in keep : KeyOf[u] = KeyOf[t]} = {k}
          /\ s = [t \in Tasks |-> IF t \in contenders \ keep THEN "absent" ELSE restored[t]]
  BY DEF Restorations
<1>2. ASSUME NEW t \in Tasks
      PROVE  /\ restored[t] \in States \ Working
             /\ t \in Downloads => restored[t] \notin {"preparing", "playable", "completed"}
             /\ t \in Playbacks => restored[t] \in (Served \cup Over) \ {"succeeded", "partial"}
             /\ loaded[t] \in Over => restored[t] = loaded[t]
             /\ loaded[t] = "cancel_requested" => restored[t] = "cancelled"
  <2>1. /\ loaded[t] \in States
        /\ t \in Downloads => loaded[t] \notin {"preparing", "playable", "completed"}
        /\ t \in Playbacks => loaded[t] \notin {"queued", "running", "succeeded", "partial"}
        /\ t \in Downloads <=> t \notin Playbacks
    BY DEF KindSnapshots, Snapshots, OfKind, TaskAssumption, Tasks
  <2>2. CASE loaded[t] = "cancel_requested"
    BY <2>1, <2>2 DEF RestoredState, States, Terminal, Active, Working, Over, Served
  <2>3. CASE loaded[t] = "running"
    BY <2>1, <2>3 DEF RestoredState, States, Terminal, Active, Working, Over, Served
  <2>4. CASE loaded[t] = "preparing"
    BY <2>1, <2>4 DEF RestoredState, States, Terminal, Active, Working, Over, Served
  <2>5. CASE loaded[t] \notin {"cancel_requested", "running", "preparing"}
    BY <2>1, <2>5 DEF RestoredState, States, Terminal, Active, Working, Over, Served
  <2> QED BY <2>2, <2>3, <2>4, <2>5
<1>3. ASSUME NEW t \in Tasks
      PROVE  /\ s[t] = IF t \in contenders \ keep THEN "absent" ELSE restored[t]
             /\ t \in contenders => restored[t] \in Active /\ Deduplicated(t)
             /\ s[t] \in Active /\ Deduplicated(t) => t \in keep
  BY <1>1 DEF Active
<1>4. s \in [Tasks -> States]
  BY <1>1, <1>2 DEF States
<1> HIDE DEF restored, contenders
<1>5. ASSUME NEW t \in Tasks
      PROVE  /\ t \in Downloads => s[t] \notin {"preparing", "playable", "completed"}
             /\ t \in Playbacks => s[t] \notin {"queued", "running", "succeeded", "partial"}
             /\ loaded[t] \in Over => s[t] \in Over
             /\ loaded[t] \in {"cancel_requested", "cancelled", "partial"} => s[t] \in {"cancelled", "partial"}
             /\ s[t] \notin Working
             /\ t \in Playbacks => s[t] \in Served \cup Over
  BY <1>2, <1>3 DEF Served, Over, Working, Active
<1>6. ASSUME NEW t \in Tasks, NEW u \in Tasks, Deduplicated(t), Deduplicated(u),
             KeyOf[t] = KeyOf[u], s[t] \in Active, s[u] \in Active
      PROVE  t = u
  <2>1. t \in keep /\ u \in keep /\ t \in contenders
    BY <1>1, <1>3, <1>6
  <2>2. PICK k \in keep : {v \in keep : KeyOf[v] = KeyOf[t]} = {k}
    BY <1>1, <2>1
  <2> QED BY <1>6, <2>1, <2>2
<1> QED BY <1>4, <1>5, <1>6 DEF KindSnapshots, Snapshots, OfKind

\* from_persisted_state, from any file a power loss may leave.
LEMMA RestartStep ==
    ASSUME TaskAssumption, IInv, Restart
    PROVE  IInv'
<1>1. PICK loaded \in recoverable :
          /\ installed' = loaded /\ recoverable' \in {{loaded}, recoverable}
          /\ tasks' \in Restorations(loaded)
          /\ quarantine' = {t \in Playbacks : loaded[t] # "absent"}
  BY DEF Restart, Loadable, IInv, Tables
<1>2. /\ visible' = tasks' /\ pending' = {} /\ available' = TRUE /\ cleared' = FALSE
      /\ runner' = [t \in Tasks |-> Idle] /\ crashes' = crashes + 1
      /\ UNCHANGED <<deleted, permanents>>
      /\ active' = [k \in Keys |->
            IF \E t \in Tasks : KeyOf[t] = k /\ Deduplicated(t) /\ tasks'[t] \in Active
            THEN CHOOSE t \in Tasks : KeyOf[t] = k /\ Deduplicated(t) /\ tasks'[t] \in Active
            ELSE NoTask]
  BY DEF Restart
<1>3. txn' = [op |-> "start", task |-> NoTask, rollback |-> "never", durable |-> FALSE,
              phase |-> "save",
              saved |-> [tasks |-> tasks', queue |-> queue', active |-> active',
                         registered |-> {}, pending |-> {}]]
  BY DEF Restart
<1>4. loaded \in KindSnapshots /\ recoverable' \subseteq recoverable
  BY <1>1 DEF IInv, Tables
<1>5. /\ tasks' \in KindSnapshots
      /\ \A t \in Tasks :
            /\ loaded[t] \in Over => tasks'[t] \in Over
            /\ tasks'[t] \notin Working
            /\ t \in Playbacks => tasks'[t] \in Served \cup Over
      /\ \A t, u \in Tasks :
            /\ Deduplicated(t) /\ Deduplicated(u) /\ KeyOf[t] = KeyOf[u]
            /\ tasks'[t] \in Active /\ tasks'[u] \in Active
            => t = u
  BY <1>1, <1>4, Restored
<1>6. active' \in [Keys -> Tasks \cup {NoTask}]
  <2>1. ASSUME NEW k \in Keys PROVE active'[k] \in Tasks \cup {NoTask}
    BY <1>2, <2>1
  <2> QED BY <1>2, <2>1
<1>7. Named(tasks', active')
  <2>1. ASSUME NEW t \in Tasks, Deduplicated(t), tasks'[t] \in Active PROVE active'[KeyOf[t]] = t
    <3>1. KeyOf[t] \in Keys
      BY DEF TaskAssumption
    <3>2. active'[KeyOf[t]] =
            CHOOSE u \in Tasks : KeyOf[u] = KeyOf[t] /\ Deduplicated(u) /\ tasks'[u] \in Active
      BY <1>2, <2>1, <3>1
    <3>3. PICK u \in Tasks : /\ u = active'[KeyOf[t]]
                             /\ KeyOf[u] = KeyOf[t] /\ Deduplicated(u) /\ tasks'[u] \in Active
      BY <2>1, <3>2
    <3> QED BY <1>5, <2>1, <3>3
  <2> QED BY <2>1 DEF Named
<1>8. Idle \in Runners /\ Idle.pc = "idle" /\ \A t \in Tasks : Wants(t, Idle)
  BY DEF Idle, Runners, Wants
<1>9. runner' \in [Tasks -> Runners] /\ \A t \in Tasks : runner'[t].pc = "idle" /\ Wants(t, runner'[t])
  BY <1>2, <1>8
<1>10. /\ txn'.op = "start" /\ txn'.task = NoTask /\ txn'.rollback = "never" /\ txn'.durable = FALSE
       /\ txn'.phase = "save" /\ txn'.saved.tasks = tasks' /\ txn'.saved.active = active'
       /\ txn'.saved.pending = {}
       /\ txn' = [op |-> txn'.op, task |-> txn'.task, rollback |-> txn'.rollback,
                  durable |-> txn'.durable, phase |-> txn'.phase, saved |-> txn'.saved]
  BY <1>3
<1>11. Tables'
  <2>1. recoverable' \subseteq KindSnapshots /\ installed' \in recoverable'
    BY <1>1, <1>4 DEF IInv, Tables
  <2>2. quarantine' \subseteq Playbacks /\ crashes' \in Nat
    BY <1>1, <1>2 DEF IInv, Tables
  <2> QED BY <1>2, <1>5, <1>6, <1>9, <2>1, <2>2 DEF IInv, Tables
<1>12. Txn' /\ Held'
  BY <1>5, <1>6, <1>10 DEF Txn, Ops, Held, Unlocked
<1>13. OpInv' /\ HolderInv'
  BY <1>10 DEF OpInv, HolderInv
<1>14. Views'
  <2>1. VisibleIsCommitted'
    BY <1>1, <1>2 DEF VisibleIsCommitted
  <2> HIDE DEF VisibleIsCommitted
  <2>2. \A t \in Tasks : tasks'[t] # "cancel_requested"
    BY <1>5 DEF Working
  <2> QED BY <1>2, <1>9, <1>10, <1>12, <2>1, <2>2 DEF Views
<1>15. Ends0' /\ PartialInv' /\ KeysInv'
  <2>1. Ends0' /\ PartialInv'
    BY <1>2, <1>10 DEF Ends0, KeepsEnds, Follows, PartialInv
  <2>2. KeysInv'
    BY <1>7, <1>10 DEF KeysInv
  <2> QED BY <2>1, <2>2
<1>16. OwnersInv' /\ WorkInv'
  BY <1>5, <1>9, <1>10 DEF OwnersInv, WorkInv
<1>17. DeletedInv'
  <2>1. ASSUME NEW t \in deleted PROVE Gone(t)'
    <3>1. t \in Tasks /\ \A s \in recoverable : s[t] \in Over
      BY DEF IInv, Tables, Tasks, DeletedInv, Gone
    <3> QED BY <1>2, <1>4, <1>5, <1>10, <3>1 DEF Gone
  <2>2. quarantine' \subseteq Playbacks /\ Playbacks \subseteq Tasks
    BY <1>1 DEF Tasks
  <2>3. ASSUME NEW t \in quarantine'
        PROVE  /\ tasks'[t] \in Served \cup Over /\ visible'[t] = tasks'[t]
               /\ txn'.saved.tasks[t] = tasks'[t] /\ ~(tasks'[t] \in Over /\ tasks'[t] \in Served)
    BY <1>2, <1>5, <1>10, <2>2 DEF Served, Over
  <2>4. ~cleared' /\ deleted' = deleted
    BY <1>2
  <2> QED BY <2>1, <2>3, <2>4 DEF DeletedInv
<1> QED BY <1>11, <1>12, <1>13, <1>14, <1>15, <1>16, <1>17 DEF IInv

-----------------------------------------------------------------------------
(* The theorems.                                                            *)

\* The server starts with empty tables and an empty state file.
LEMMA Initially == TaskAssumption /\ Init => IInv
<1> SUFFICES ASSUME TaskAssumption, Init PROVE IInv
  OBVIOUS
<1>1. Nothing \in KindSnapshots /\ \A t \in Tasks : Nothing[t] = "absent"
  BY DEF Nothing, KindSnapshots, Snapshots, OfKind, States
<1>2. Idle \in Runners /\ Idle.pc = "idle" /\ \A t \in Tasks : Wants(t, Idle)
  BY DEF Idle, Runners, Wants
<1>3. runner \in [Tasks -> Runners] /\ \A t \in Tasks : runner[t].pc = "idle" /\ Wants(t, runner[t])
  BY <1>2 DEF Init
<1>4. /\ txn.op = "start" /\ txn.task = NoTask /\ txn.rollback = "never" /\ txn.durable = FALSE
      /\ txn.phase = "save" /\ txn.saved.tasks = tasks /\ txn.saved.active = active
      /\ txn.saved.pending = {}
      /\ txn = [op |-> txn.op, task |-> txn.task, rollback |-> txn.rollback,
                durable |-> txn.durable, phase |-> txn.phase, saved |-> txn.saved]
  BY DEF Init, Checkpoint
<1>5. Tables
  BY <1>1, <1>3 DEF Init, Tables
<1>6. Txn
  BY <1>4, <1>5 DEF Init, Txn, Ops, Tables
<1>7. OpInv /\ HolderInv
  BY <1>4 DEF OpInv, HolderInv
<1>8. Views
  <2>1. VisibleIsCommitted BY DEF Init, VisibleIsCommitted
  <2> HIDE DEF VisibleIsCommitted
  <2> QED BY <1>1, <1>3, <1>4, <2>1 DEF Init, Views, Held, Unlocked
<1>9. Ends0 /\ PartialInv /\ KeysInv
  BY <1>1, <1>4 DEF Init, Ends0, KeepsEnds, Follows, PartialInv, KeysInv, Named, Terminal, Active
<1>10. OwnersInv /\ WorkInv /\ DeletedInv
  BY <1>1, <1>3, <1>4 DEF Init, OwnersInv, WorkInv, DeletedInv, Gone, Working
<1> QED BY <1>5, <1>6, <1>7, <1>8, <1>9, <1>10 DEF IInv

\* Every step keeps the invariant.
LEMMA Inductive == TaskAssumption /\ IInv /\ [Next]_vars => IInv'
<1> SUFFICES ASSUME TaskAssumption, IInv, [Next]_vars PROVE IInv'
  OBVIOUS
<1>1. CASE UNCHANGED vars
  BY <1>1, Undisturbed DEF vars, inner, store, owners, Described
<1>2. ASSUME NEW t \in Tasks, Request(t) PROVE IInv'
  BY <1>2, CreateStep, CancelStep, CachedStep, RejectStep DEF Request
<1>3. ASSUME NEW t \in Tasks, Owner(t) PROVE IInv'
  BY <1>3, OwnerMoveStep, PlannerStep, FinishStep, WaitStep DEF Owner
<1>4. ASSUME NEW t \in Tasks, Progress(t) PROVE IInv'
  BY <1>4, ProgressStep
<1>5. CASE ReconcileBegin \/ \E t \in Tasks : Reconcile(t)
  BY <1>5, ReconcileStep
<1>6. ASSUME NEW t \in Downloads, Claim(t) PROVE IInv'
  BY <1>6, ClaimStep
<1>7. CASE ClaimRetry
  <2>1. SaveOnly("claimRetry", NoTask)
    BY <1>7 DEF ClaimRetry
  <2>2. ~Held /\ txn.op # "start"
    BY <1>7 DEF ClaimRetry, Held, Unlocked
  <2> QED BY <2>1, <2>2, SaveOnlyStep
<1>8. ASSUME NEW w \in Watchers, Subscribe(w) \/ Receive(w) \/ Unsubscribe(w) PROVE IInv'
  <2>1. UNCHANGED Described
    BY <1>8 DEF Subscribe, Receive, Unsubscribe, WatcherStep, inner, store, owners, Described
  <2> QED BY <2>1, Undisturbed
<1>9. CASE Save
  BY <1>9, SaveStep
<1>10. CASE Restart
  BY <1>10, RestartStep
<1>11. CASE Tombstone
  BY <1>11, TombstoneStep
<1>12. CASE FailUnrestorable
  BY <1>12, FailUnrestorableStep
<1> QED
  BY <1>1, <1>2, <1>3, <1>4, <1>5, <1>6, <1>7, <1>8, <1>9, <1>10, <1>11, <1>12 DEF Next

\* The invariant holds throughout.
LEMMA Invariance == Spec => []IInv
<1>1. Init => IInv
  BY Initially, TaskAssumption
<1>2. IInv /\ [Next]_vars => IInv'
  BY Inductive, TaskAssumption
<1> QED BY <1>1, <1>2, PTL DEF Spec

\* Readers, the store and those who rely on persistence_available agree: while
\* nobody mutates and the store is available, the live tables, the committed
\* view and the only snapshot a restart can load are the same, and the
\* committed view is always one that the store holds or once made of it.
THEOREM TaskViewsAgree == Spec => []ViewsAgree
<1>1. IInv => ViewsAgree
  BY DEF IInv, Views, ViewsAgree, AvailableMeansSettled, Held
<1> QED BY <1>1, Invariance, PTL

\* HLS data that some caller decided to delete is never served again, whichever
\* snapshot a crash brings back (persist_task_before_destructive_side_effect).
THEOREM TaskDeletedIsUnreferenced == Spec => []DeletedIsUnreferenced
<1>1. IInv => DeletedIsUnreferenced
  BY DEF IInv, DeletedInv, Gone, DeletedIsUnreferenced, Over, Served
<1> QED BY <1>1, Invariance, PTL

\* Unless a save was rejected for good, every task that claims to be under way
\* has a worker or planner that will end it.
THEOREM TaskNoOrphanedWork == Spec => []NoOrphanedWork
<1>1. IInv => NoOrphanedWork
  BY DEF IInv, WorkInv, NoOrphanedWork, Held, Working
<1> QED BY <1>1, Invariance, PTL

\* Two active tasks never have one deduplication key, across cancellations,
\* rejected saves and restarts.
THEOREM TaskOneActivePerKey == Spec => []OneActivePerKey
<1>1. IInv => OneActivePerKey
  BY DEF IInv, KeysInv, Named, OneActivePerKey
<1> QED BY <1>1, Invariance, PTL

\* A step changes the committed view only by installing the live tables or by
\* a restart.
LEMMA ViewSteps ==
    ASSUME TaskAssumption, IInv, Next
    PROVE  \/ visible' = visible
           \/ visible' = tasks /\ crashes' = crashes
           \/ Restart
<1>1. ASSUME NEW t \in Tasks, Request(t) PROVE visible' = visible
  BY <1>1 DEF Request, Create, CancelPrepare, CancelSettled, CancelOwner, CancelNow, CachedPrepare,
              Cached, Remove, RejectPrepare, Reject, SaveOnly, Untouched
<1>2. ASSUME NEW t \in Tasks, Owner(t) PROVE visible' = visible
  BY <1>2 DEF Owner, AdapterReturns, PlannerFails, PlannerPublishes, PlannerTooLate, PlannerUpdates,
              FinishPrepare, FinishSettled, Finish, Commit, CommitSettled, FinishChecked,
              OwnerRetry, SaveOnly, Untouched
<1>3. ASSUME NEW t \in Tasks, Progress(t) PROVE visible' = visible
  <2>1. CASE HeldBack(t)
    BY <1>3, <2>1 DEF Progress
  <2>2. CASE ~HeldBack(t)
    <3>1. tasks[t] = visible[t] /\ visible \in [Tasks -> States]
      BY <2>2 DEF HeldBack, IInv, Views, Tables, KindSnapshots, Snapshots
    <3>2. visible' = [visible EXCEPT ![t] = tasks[t]]
      BY <1>3, <2>2 DEF Progress
    <3> QED BY <3>1, <3>2
  <2> QED BY <2>1, <2>2
<1>4. ASSUME NEW t \in Tasks, Reconcile(t) PROVE visible' = visible
  BY <1>4 DEF Reconcile, Untouched
<1>5. ASSUME NEW t \in Downloads, Claim(t) PROVE visible' = visible
  BY <1>5 DEF Claim
<1>6. CASE ClaimRetry \/ ReconcileBegin \/ Tombstone \/ FailUnrestorable
  BY <1>6 DEF ClaimRetry, SaveOnly, ReconcileBegin, Untouched, Tombstone, FailUnrestorable
<1>7. ASSUME NEW w \in Watchers, Subscribe(w) \/ Receive(w) \/ Unsubscribe(w) PROVE visible' = visible
  BY <1>7 DEF Subscribe, Receive, Unsubscribe, WatcherStep
<1>8. CASE Save
  BY <1>8 DEF Save, SaveRejected, SaveRenamed, SaveSynced, SaveNotSynced, Install, Conclude
<1> QED BY <1>1, <1>2, <1>3, <1>4, <1>5, <1>6, <1>7, <1>8 DEF Next

\* What clients were told of the end of a task is taken back only when its media
\* is gone: while the process lives a success may lapse into a failure, when its
\* media is deleted or cannot be restored, a completed playback may be removed,
\* and no other end changes; a cancellation request that was committed can only
\* end in cancelled, whatever the owner was about to record and also over a
\* restart of an available store.
THEOREM TaskEndsAreKept == Spec => EndsAreKept
<1> DEFINE Final == \A t \in Tasks : visible[t] \in Terminal /\ crashes' = crashes =>
                visible'[t] \in {visible[t]} \cup Lapses(visible[t])
           Honoured == \A t \in Tasks :
                visible[t] = "cancel_requested" /\ (crashes' = crashes \/ available) =>
                    visible'[t] \in {"cancel_requested", "cancelled", "partial"}
<1>1. ASSUME TaskAssumption, IInv, [Next]_vars PROVE [Final]_vars /\ [Honoured]_vars
  <2>1. CASE UNCHANGED vars
    BY <2>1 DEF vars
  <2>2. CASE visible' = visible
    BY <2>2
  <2>3. CASE visible' = tasks
    BY <1>1, <2>3 DEF IInv, Ends0, KeepsEnds, Follows
  <2>4. CASE Restart
    <3>1. crashes' # crashes
      <4>1. crashes' = crashes + 1 /\ crashes \in Nat
        BY <1>1, <2>4 DEF Restart, IInv, Tables
      <4> QED BY <4>1
    <3>2. PICK loaded \in recoverable : visible' \in Restorations(loaded)
      BY <1>1, <2>4 DEF Restart, Loadable, IInv, Tables
    <3>3. loaded \in KindSnapshots
      BY <1>1 DEF IInv, Tables
    <3>4. ASSUME NEW t \in Tasks, visible[t] = "cancel_requested", available
          PROVE  loaded[t] \in {"cancel_requested", "cancelled", "partial"}
      <4>1. txn.op # "start" /\ tasks[t] \in {"cancel_requested", "cancelled", "partial"}
        BY <1>1, <3>4 DEF IInv, Views, Ends0, KeepsEnds, Follows
      <4>2. loaded \in {visible, tasks}
        BY <1>1, <3>4, <4>1 DEF IInv, Views
      <4> QED BY <3>4, <4>1, <4>2
    <3>5. Honoured
      BY <1>1, <3>1, <3>2, <3>3, <3>4, Restored
    <3> QED BY <3>1, <3>5
  <2> QED BY <1>1, <2>1, <2>2, <2>3, <2>4, ViewSteps
<1>2. IInv /\ [Next]_vars => [Final]_vars /\ [Honoured]_vars
  BY <1>1, TaskAssumption
<1>3. Spec => [][Final]_vars /\ [][Honoured]_vars
  BY <1>2, Invariance, PTL DEF Spec
<1> QED BY <1>3 DEF EndsAreKept, TerminalIsFinal, CancelIsHonoured

-----------------------------------------------------------------------------
(* Replaying events.                                                        *)

Events == [task : Tasks, state : States]

\* Replay applies one event after the other.
LEMMA ReplayUnfolds ==
    ASSUME NEW view \in Snapshots, NEW events \in Seq(Events)
    PROVE  \E after \in [0..Len(events) -> Snapshots] :
              /\ after[0] = view
              /\ \A i \in 1..Len(events) : after[i] = Replayed(after[i - 1], events[i])
              /\ Replay(view, events) = after[Len(events)]
<1> DEFINE n == Len(events)
           step == [p \in (1..n) \X Snapshots |-> Replayed(p[2], events[p[1]])]
           Chain(f) == [i \in 0..n |-> IF i = 0 THEN view ELSE Replayed(f[i - 1], events[i])]
<1>1. n \in Nat /\ \A i \in 1..n : events[i] \in Events
  OBVIOUS
<1>2. step \in Successors(n, Snapshots)
  BY <1>1 DEF Replayed, Snapshots, Events, Successors
<1>3. PICK g \in [0..n -> Snapshots] : g[0] = view /\ \A i \in 1..n : g[i] = step[<<i, g[i - 1]>>]
  <2> HIDE DEF n, step
  <2>1. n \in Nat
    BY <1>1
  <2>2. Iterable(n, Snapshots, view, step)
    BY <1>2, <2>1, RecursionExists
  <2> QED BY <2>2 DEF Iterable, Iterates
<1>4. ASSUME NEW i \in 1..n PROVE step[<<i, g[i - 1]>>] = Replayed(g[i - 1], events[i])
  <2>1. i - 1 \in 0..n /\ g[i - 1] \in Snapshots
    BY <1>1
  <2> QED BY <2>1
<1>5. g = Chain(g)
  BY <1>1, <1>3, <1>4
<1> DEFINE after == CHOOSE f : f = Chain(f)
<1>6. after = Chain(after)
  <2> HIDE DEF Chain
  <2> QED BY <1>5
<1>7. Replay(view, events) = after[n]
  BY DEF Replay
<1>8. \A m \in 0..n : after[m] = g[m]
  <2> HIDE DEF after, step
  <2> DEFINE T == {m \in 0..n : after[m] = g[m]}
  <2>1. 0 \in T
    BY <1>1, <1>3, <1>6
  <2>2. ASSUME NEW m \in 0..(n - 1), m \in T PROVE m + 1 \in T
    <3>1. m + 1 \in 1..n /\ (m + 1) - 1 = m /\ m + 1 # 0
      BY <1>1
    <3>2. after[m + 1] = Replayed(after[m], events[m + 1])
      BY <1>6, <3>1
    <3>3. g[m + 1] = Replayed(g[m], events[m + 1])
      BY <1>3, <1>4, <3>1
    <3> QED BY <2>2, <3>1, <3>2, <3>3
  <2>3. \A m \in 0..n : m \in T
    <3> HIDE DEF T, n
    <3> QED BY <1>1, <2>1, <2>2, InductionUpTo
  <2> QED BY <2>3
<1>9. Replay(view, events) = g[n]
  <2> HIDE DEF after, step
  <2> QED BY <1>1, <1>7, <1>8
<1>10. \A i \in 1..n : g[i] = Replayed(g[i - 1], events[i])
  <2> HIDE DEF step
  <2> QED BY <1>3, <1>4
<1> QED BY <1>3, <1>9, <1>10

\* The last event about a task.
LastAbout(events, t, k) ==
    /\ k \in 1..Len(events) /\ events[k].task = t
    /\ \A i \in (k + 1)..Len(events) : events[i].task # t

\* A task with an event has a last one.
LEMMA LastExists ==
    ASSUME NEW events \in Seq(Events), NEW t, \E i \in 1..Len(events) : events[i].task = t
    PROVE  \E k : LastAbout(events, t, k)
<1> DEFINE T == {i \in 1..Len(events) : events[i].task = t}
<1>1. Len(events) \in Nat /\ T \in SUBSET Nat /\ T # {} /\ \A x \in T : x <= Len(events)
  OBVIOUS
<1>2. PICK k \in T : \A i \in T : i <= k
  <2> HIDE DEF T
  <2> QED BY <1>1, HasGreatest
<1>3. ASSUME NEW i \in (k + 1)..Len(events) PROVE events[i].task # t
  <2>1. i \in 1..Len(events) /\ ~(i <= k)
    BY <1>1, <1>2
  <2> QED BY <1>2, <2>1
<1> QED BY <1>2, <1>3 DEF LastAbout

\* What replaying does to one task: the last event about it counts.
LEMMA ReplayIs ==
    ASSUME NEW view \in Snapshots, NEW events \in Seq(Events), NEW t \in Tasks
    PROVE  /\ (\A i \in 1..Len(events) : events[i].task # t) => Replay(view, events)[t] = view[t]
           /\ \A k : LastAbout(events, t, k) => Replay(view, events)[t] = events[k].state
<1> DEFINE n == Len(events)
<1>1. n \in Nat /\ \A i \in 1..n : events[i] \in Events
  OBVIOUS
<1>2. PICK after \in [0..n -> Snapshots] :
          /\ after[0] = view
          /\ \A i \in 1..n : after[i] = Replayed(after[i - 1], events[i])
          /\ Replay(view, events) = after[n]
  BY ReplayUnfolds
<1>3. ASSUME NEW i \in 1..n
      PROVE  after[i][t] = IF events[i].task = t THEN events[i].state ELSE after[i - 1][t]
  <2>1. i - 1 \in 0..n /\ after[i - 1] \in [Tasks -> States]
    BY <1>1 DEF Snapshots
  <2>2. after[i] = [after[i - 1] EXCEPT ![events[i].task] = events[i].state]
    BY <1>2 DEF Replayed
  <2> QED BY <2>1, <2>2
<1>4. ASSUME NEW k \in 0..n, \A i \in (k + 1)..n : events[i].task # t
      PROVE  after[n][t] = after[k][t]
  <2> DEFINE T == {m \in 0..n : m < k \/ after[m][t] = after[k][t]}
  <2>1. 0 \in T
    BY <1>1
  <2>2. ASSUME NEW m \in 0..(n - 1), m \in T PROVE m + 1 \in T
    <3>1. m + 1 \in 1..n /\ m + 1 \in 0..n /\ (m + 1) - 1 = m
      BY <1>1
    <3>2. CASE m + 1 <= k
      BY <1>1, <3>1, <3>2
    <3>3. CASE m + 1 > k
      <4>1. m + 1 \in (k + 1)..n
        BY <1>1, <3>1, <3>3
      <4>2. after[m + 1][t] = after[m][t]
        BY <1>3, <1>4, <3>1, <4>1
      <4>3. m >= k
        BY <1>1, <3>1, <3>3
      <4> QED BY <1>1, <2>2, <3>1, <4>2, <4>3
    <3>4. m + 1 <= k \/ m + 1 > k
      BY <1>1, <3>1
    <3> QED BY <3>2, <3>3, <3>4
  <2>3. \A m \in 0..n : m \in T
    <3> HIDE DEF T, n
    <3> QED BY <1>1, <2>1, <2>2, InductionUpTo
  <2>4. n \in T
    <3> HIDE DEF T
    <3> QED BY <1>1, <2>3
  <2> QED BY <1>1, <2>4
<1>5. ASSUME \A i \in 1..n : events[i].task # t PROVE Replay(view, events)[t] = view[t]
  <2>1. 0 \in 0..n /\ \A i \in (0 + 1)..n : events[i].task # t
    BY <1>1, <1>5
  <2> QED BY <1>2, <1>4, <2>1
<1>6. ASSUME NEW k, LastAbout(events, t, k) PROVE Replay(view, events)[t] = events[k].state
  <2>1. k \in 1..n /\ k \in 0..n /\ events[k].task = t /\ \A i \in (k + 1)..n : events[i].task # t
    BY <1>1, <1>6 DEF LastAbout
  <2>2. after[n][t] = after[k][t]
    BY <1>4, <2>1
  <2> QED BY <1>2, <1>3, <2>1, <2>2
<1> QED BY <1>5, <1>6

\* A replay leads from a view to a view.
LEMMA ReplayTypes ==
    ASSUME NEW view \in Snapshots, NEW events \in Seq(Events)
    PROVE  Replay(view, events) \in Snapshots
<1>1. PICK after \in [0..Len(events) -> Snapshots] : Replay(view, events) = after[Len(events)]
  BY ReplayUnfolds
<1>2. Len(events) \in 0..Len(events)
  OBVIOUS
<1> QED BY <1>1, <1>2

\* Taking the first event into the view changes nothing.
LEMMA ReplayFirst ==
    ASSUME NEW view \in Snapshots, NEW events \in Seq(Events), events # <<>>, NEW t \in Tasks
    PROVE  Replay(Replayed(view, Head(events)), Tail(events))[t] = Replay(view, events)[t]
<1> DEFINE n == Len(events)
           rest == Tail(events)
           next == Replayed(view, Head(events))
<1>1. /\ n \in Nat \ {0} /\ rest \in Seq(Events) /\ Len(rest) = n - 1
      /\ \A i \in 1..(n - 1) : rest[i] = events[i + 1]
      /\ Head(events) = events[1] /\ events[1] \in Events
  OBVIOUS
<1>2. /\ next \in Snapshots
      /\ next[t] = IF events[1].task = t THEN events[1].state ELSE view[t]
  BY <1>1 DEF Replayed, Snapshots, Events
<1> HIDE DEF rest, next
<1>3. CASE \E i \in 1..(n - 1) : rest[i].task = t
  <2>1. PICK k : LastAbout(rest, t, k)
    BY <1>1, <1>3, LastExists
  <2>2. k \in 1..(n - 1) /\ rest[k] = events[k + 1]
    BY <1>1, <2>1 DEF LastAbout
  <2>3. LastAbout(events, t, k + 1)
    <3>1. k + 1 \in 1..n /\ events[k + 1].task = t
      BY <1>1, <2>1, <2>2 DEF LastAbout
    <3>2. ASSUME NEW i \in (k + 2)..n PROVE events[i].task # t
      <4>1. i - 1 \in (k + 1)..(n - 1) /\ i - 1 \in 1..(n - 1) /\ (i - 1) + 1 = i
        BY <1>1, <2>2
      <4>2. rest[i - 1] = events[i] /\ rest[i - 1].task # t
        BY <1>1, <2>1, <4>1 DEF LastAbout
      <4> QED BY <4>2
    <3>3. (k + 1) + 1 = k + 2
      BY <2>2
    <3> QED BY <3>1, <3>2, <3>3 DEF LastAbout
  <2>4. Replay(next, rest)[t] = rest[k].state
    BY <1>1, <1>2, <2>1, ReplayIs
  <2>5. Replay(view, events)[t] = events[k + 1].state
    BY <2>3, ReplayIs
  <2> QED BY <2>2, <2>4, <2>5 DEF next, rest
<1>4. CASE \A i \in 1..(n - 1) : rest[i].task # t
  <2>1. Replay(next, rest)[t] = next[t]
    BY <1>1, <1>2, <1>4, ReplayIs
  <2>2. ASSUME NEW i \in 2..n PROVE events[i].task # t
    <3>1. i - 1 \in 1..(n - 1) /\ (i - 1) + 1 = i
      BY <1>1
    <3> QED BY <1>1, <1>4, <3>1
  <2>3. CASE events[1].task = t
    <3>1. LastAbout(events, t, 1)
      BY <1>1, <2>2, <2>3 DEF LastAbout
    <3>2. Replay(view, events)[t] = events[1].state
      BY <3>1, ReplayIs
    <3> QED BY <1>2, <2>1, <2>3, <3>2 DEF next, rest
  <2>4. CASE events[1].task # t
    <3>1. \A i \in 1..n : events[i].task # t
      BY <1>1, <2>2, <2>4
    <3>2. Replay(view, events)[t] = view[t]
      BY <3>1, ReplayIs
    <3> QED BY <1>2, <2>1, <2>4, <3>2 DEF next, rest
  <2> QED BY <2>3, <2>4
<1> QED BY <1>3, <1>4

\* The events leave the task out, or all that are about it say that it is in
\* state x.
LeaveOut(events, t) == \A i \in 1..Len(events) : events[i].task # t
Say(events, t, x) ==
    /\ \E i \in 1..Len(events) : events[i].task = t
    /\ \A i \in 1..Len(events) : events[i].task = t => events[i].state = x

\* Further events that leave a task out do not change what is known of it;
\* those that say the same of it decide its state.
LEMMA ReplayMore ==
    ASSUME NEW view \in Snapshots, NEW events \in Seq(Events), NEW more \in Seq(Events),
           NEW t \in Tasks, NEW x
    PROVE  /\ LeaveOut(more, t) => Replay(view, events \o more)[t] = Replay(view, events)[t]
           /\ Say(more, t, x) => Replay(view, events \o more)[t] = x
<1> DEFINE n == Len(events)
           m == Len(more)
           all == events \o more
<1>1. /\ n \in Nat /\ m \in Nat /\ all \in Seq(Events) /\ Len(all) = n + m
      /\ \A i \in 1..n : all[i] = events[i]
      /\ \A i \in 1..m : all[n + i] = more[i]
  OBVIOUS
<1> HIDE DEF all
<1>2. ASSUME LeaveOut(more, t)
      PROVE  Replay(view, all)[t] = Replay(view, events)[t]
  <2>0. ASSUME NEW i \in (n + 1)..(n + m) PROVE all[i].task # t
    <3>1. i - n \in 1..m /\ n + (i - n) = i
      BY <1>1
    <3> QED BY <1>1, <1>2, <3>1 DEF LeaveOut
  <2>1. CASE \E i \in 1..n : events[i].task = t
    <3>1. PICK k : LastAbout(events, t, k)
      BY <2>1, LastExists
    <3>2. k \in 1..n /\ k \in 1..(n + m) /\ all[k] = events[k] /\ events[k].task = t
      BY <1>1, <3>1 DEF LastAbout
    <3>3. ASSUME NEW i \in (k + 1)..(n + m) PROVE all[i].task # t
      <4>1. i \in (k + 1)..n \/ i \in (n + 1)..(n + m)
        BY <1>1, <3>2
      <4>2. ASSUME i \in (k + 1)..n PROVE all[i].task # t
        <5>1. i \in 1..n
          BY <3>2, <4>2
        <5> QED BY <1>1, <3>1, <4>2, <5>1 DEF LastAbout
      <4> QED BY <2>0, <4>1, <4>2
    <3>4. LastAbout(all, t, k)
      BY <1>1, <3>2, <3>3 DEF LastAbout
    <3>5. Replay(view, all)[t] = all[k].state /\ Replay(view, events)[t] = events[k].state
      BY <1>1, <3>1, <3>4, ReplayIs
    <3> QED BY <3>2, <3>5
  <2>2. CASE \A i \in 1..n : events[i].task # t
    <3>1. ASSUME NEW i \in 1..(n + m) PROVE all[i].task # t
      <4>1. i \in 1..n \/ i \in (n + 1)..(n + m)
        BY <1>1
      <4> QED BY <1>1, <2>0, <2>2, <4>1
    <3>2. Replay(view, all)[t] = view[t] /\ Replay(view, events)[t] = view[t]
      BY <1>1, <2>2, <3>1, ReplayIs
    <3> QED BY <3>2
  <2> QED BY <2>1, <2>2
<1>3. ASSUME Say(more, t, x)
      PROVE  Replay(view, all)[t] = x
  <2>1. PICK i \in 1..m : more[i].task = t
    BY <1>3 DEF Say
  <2>2. n + i \in 1..Len(all) /\ all[n + i].task = t
    BY <1>1, <2>1
  <2>3. PICK k : LastAbout(all, t, k)
    BY <1>1, <2>2, LastExists
  <2>4. k \in 1..(n + m) /\ all[k].task = t /\ ~(n + i > k)
    BY <1>1, <2>2, <2>3 DEF LastAbout
  <2>5. k - n \in 1..m /\ n + (k - n) = k
    BY <1>1, <2>1, <2>4
  <2>6. all[k] = more[k - n]
    BY <1>1, <2>5
  <2>7. Replay(view, all)[t] = all[k].state
    BY <1>1, <2>3, ReplayIs
  <2> QED BY <1>3, <2>4, <2>5, <2>6, <2>7 DEF Say
<1> QED BY <1>2, <1>3 DEF all

-----------------------------------------------------------------------------
(* Subscribers.                                                             *)

Subscriptions == [open : BOOLEAN, lagged : BOOLEAN, buffer : Seq(Events), view : Snapshots]

\* What a subscriber will know when it has read its buffer.
Exact(sub, view) ==
    sub.open => \A t \in Tasks : view[t] # "absent" => Replay(sub.view, sub.buffer)[t] = view[t]

WatchInv ==
    /\ watchers \in [Watchers -> Subscriptions]
    /\ \A w \in Watchers : Len(watchers[w].buffer) <= Capacity /\ Exact(watchers[w], visible)

\* Delivery appends to the buffer, or closes the subscription; it never exceeds
\* the capacity.
LEMMA Deliveries ==
    ASSUME TaskAssumption, NEW sub \in Subscriptions, Len(sub.buffer) <= Capacity,
           NEW events \in Seq(Events)
    PROVE  /\ Delivered(sub, events) \in Subscriptions
           /\ Len(Delivered(sub, events).buffer) <= Capacity
           /\ Delivered(sub, events).open =>
                 /\ sub.open /\ Delivered(sub, events).view = sub.view
                 /\ Delivered(sub, events).buffer = sub.buffer \o events
<1> DEFINE room == Capacity - Len(sub.buffer)
           next == Delivered(sub, events)
<1>1. /\ room \in Nat /\ Len(events) \in Nat /\ Len(sub.buffer) \in Nat /\ Capacity \in Nat
      /\ sub.buffer \in Seq(Events) /\ sub.open \in BOOLEAN
      /\ Len(sub.buffer) + room = Capacity
  BY DEF TaskAssumption, Subscriptions
<1> HIDE DEF room
<1>2. CASE ~sub.open
  <2>1. next = sub
    BY <1>2 DEF Delivered
  <2> QED BY <1>2, <2>1
<1>3. CASE sub.open /\ Len(events) <= room
  <2>1. next = [sub EXCEPT !.buffer = @ \o events]
    BY <1>3 DEF Delivered, room
  <2>2. sub.buffer \o events \in Seq(Events) /\ Len(sub.buffer \o events) = Len(sub.buffer) + Len(events)
    BY <1>1
  <2>3. next \in Subscriptions /\ next.buffer = sub.buffer \o events /\ next.view = sub.view
    BY <2>1, <2>2 DEF Subscriptions
  <2> QED BY <1>1, <1>3, <2>2, <2>3
<1>4. CASE sub.open /\ ~(Len(events) <= room)
  <2>1. next = [sub EXCEPT !.buffer = @ \o SubSeq(events, 1, room), !.open = FALSE, !.lagged = TRUE]
    BY <1>4 DEF Delivered, room
  <2>2. SubSeq(events, 1, room) \in Seq(Events) /\ Len(SubSeq(events, 1, room)) = room
    <3>1. /\ 1 \in Int /\ room \in Int /\ room - 1 + 1 = room
          /\ \A i \in 1..room : events[i] \in Events
          /\ 1 <= room \/ room = 0
      BY <1>1, <1>4
    <3>2. /\ SubSeq(events, 1, room) \in Seq(Events)
          /\ Len(SubSeq(events, 1, room)) = IF 1 <= room THEN room - 1 + 1 ELSE 0
      BY <3>1, SubSeqProperties
    <3> QED BY <1>1, <3>1, <3>2
  <2>3. /\ sub.buffer \o SubSeq(events, 1, room) \in Seq(Events)
        /\ Len(sub.buffer \o SubSeq(events, 1, room)) = Capacity
    <3> DEFINE some == SubSeq(events, 1, room)
    <3> HIDE DEF some
    <3>1. some \in Seq(Events) /\ Len(some) = room
      BY <2>2 DEF some
    <3>2. sub.buffer \o some \in Seq(Events) /\ Len(sub.buffer \o some) = Len(sub.buffer) + Len(some)
      BY <1>1, <3>1, ConcatProperties, ZenonT(60)
    <3>3. Len(sub.buffer \o some) = Capacity
      BY <1>1, <3>1, <3>2
    <3> QED BY <3>2, <3>3 DEF some
  <2>4. /\ next \in Subscriptions /\ next.open = FALSE
        /\ next.buffer = sub.buffer \o SubSeq(events, 1, room)
    BY <2>1, <2>3 DEF Subscriptions
  <2> HIDE DEF next
  <2>5. Len(next.buffer) <= Capacity
    <3> DEFINE buffer == sub.buffer \o SubSeq(events, 1, room)
    <3>1. Len(buffer) = Capacity /\ next.buffer = buffer
      BY <2>3, <2>4
    <3> HIDE DEF buffer
    <3> QED BY <1>1, <3>1
  <2>6. /\ next \in Subscriptions /\ Len(next.buffer) <= Capacity
        /\ next.open => /\ sub.open /\ next.view = sub.view /\ next.buffer = sub.buffer \o events
    BY <2>4, <2>5
  <2> QED BY <2>6 DEF next
<1> QED BY <1>1, <1>2, <1>3, <1>4

\* What the events of a publication have to say of the change of the view.
Tells(events, old, new) ==
    \A t \in Tasks :
        \/ new[t] = "absent"
        \/ old[t] = new[t] /\ LeaveOut(events, t)
        \/ Say(events, t, new[t])

\* A publication that tells of every change keeps subscribers exact.
LEMMA PublicationStep ==
    ASSUME TaskAssumption, WatchInv, NEW events \in Seq(Events), Tells(events, visible, visible'),
           watchers' = [w \in Watchers |-> Delivered(watchers[w], events)]
    PROVE  WatchInv'
<1>1. ASSUME NEW w \in Watchers
      PROVE  /\ watchers'[w] \in Subscriptions /\ Len(watchers'[w].buffer) <= Capacity
             /\ watchers'[w].open => /\ watchers[w].open /\ watchers'[w].view = watchers[w].view
                                     /\ watchers'[w].buffer = watchers[w].buffer \o events
  <2>1. watchers[w] \in Subscriptions /\ Len(watchers[w].buffer) <= Capacity
    BY DEF WatchInv
  <2> QED BY <2>1, Deliveries
<1>2. ASSUME NEW w \in Watchers, watchers'[w].open, NEW t \in Tasks, visible'[t] # "absent"
      PROVE  Replay(watchers'[w].view, watchers'[w].buffer)[t] = visible'[t]
  <2> DEFINE sub == watchers[w]
  <2>1. /\ sub.open /\ sub.view \in Snapshots /\ sub.buffer \in Seq(Events)
        /\ watchers'[w].view = sub.view /\ watchers'[w].buffer = sub.buffer \o events
    BY <1>1, <1>2 DEF WatchInv, Subscriptions
  <2>2. visible[t] # "absent" => Replay(sub.view, sub.buffer)[t] = visible[t]
    BY <2>1 DEF WatchInv, Exact
  <2> HIDE DEF sub
  <2>3. (visible[t] = visible'[t] /\ LeaveOut(events, t)) \/ Say(events, t, visible'[t])
    BY <1>2 DEF Tells
  <2>4. Replay(sub.view, sub.buffer \o events)[t] = visible'[t]
    <3> DEFINE x == visible'[t]
    <3> HIDE DEF x
    <3>1. /\ LeaveOut(events, t) => Replay(sub.view, sub.buffer \o events)[t] = Replay(sub.view, sub.buffer)[t]
          /\ Say(events, t, x) => Replay(sub.view, sub.buffer \o events)[t] = x
      <4> DEFINE view == sub.view
                 buffer == sub.buffer
      <4>1. view \in Snapshots /\ buffer \in Seq(Events)
        BY <2>1
      <4> HIDE DEF view, buffer
      <4>2. /\ LeaveOut(events, t) => Replay(view, buffer \o events)[t] = Replay(view, buffer)[t]
            /\ Say(events, t, x) => Replay(view, buffer \o events)[t] = x
        BY <4>1, ReplayMore
      <4> QED BY <4>2 DEF view, buffer
    <3> QED BY <1>2, <2>2, <2>3, <3>1 DEF x
  <2> QED BY <2>1, <2>4
<1> QED BY <1>1, <1>2 DEF WatchInv, Exact

\* Installing the live tables tells of every task that was staged; the others
\* are in the view already.
LEMMA InstallStep ==
    ASSUME TaskAssumption, IInv, WatchInv, visible' = tasks, Publish(tasks)
    PROVE  WatchInv'
<1>1. PICK order \in [1..Cardinality(pending) -> pending] :
          /\ \A t \in pending : \E i \in DOMAIN order : order[i] = t
          /\ watchers' = [w \in Watchers |->
                Delivered(watchers[w], [i \in DOMAIN order |-> Announcement(tasks, order[i])])]
  BY DEF Publish
<1> DEFINE n == Cardinality(pending)
           events == [i \in DOMAIN order |-> Announcement(tasks, order[i])]
<1>2. pending \subseteq Tasks /\ tasks \in [Tasks -> States] /\ n \in Nat
  <2>1. pending \subseteq Tasks /\ tasks \in [Tasks -> States]
    BY DEF IInv, Tables, KindSnapshots, Snapshots
  <2>2. IsFiniteSet(pending)
    BY <2>1, FS_Subset DEF TaskAssumption
  <2> QED BY <2>1, <2>2, FS_CardinalityType
<1>3. ASSUME NEW i \in 1..n
      PROVE  /\ order[i] \in pending /\ events[i] \in Events
             /\ events[i].task = order[i]
             /\ tasks[order[i]] # "absent" => events[i].state = tasks[order[i]]
  BY <1>2 DEF Announcement, Events, States, Terminal
<1>4. events \in Seq(Events) /\ Len(events) = n
  <2>1. events \in [1..n -> Events]
    BY <1>3
  <2> HIDE DEF events
  <2> QED BY <1>2, <2>1
<1>5. Tells(events, visible, visible')
  <2> HIDE DEF events
  <2> SUFFICES ASSUME NEW t \in Tasks, tasks[t] # "absent"
               PROVE  (visible[t] = tasks[t] /\ LeaveOut(events, t)) \/ Say(events, t, tasks[t])
    BY DEF Tells
  <2>1. CASE t \in pending
    <3>1. PICK i \in 1..n : order[i] = t
      BY <1>1, <2>1
    <3> QED BY <1>3, <1>4, <3>1 DEF Say
  <2>2. CASE t \notin pending
    <3>1. tasks[t] = visible[t]
      BY <2>2 DEF IInv, Views
    <3> QED BY <1>3, <1>4, <2>2, <3>1 DEF LeaveOut
  <2> QED BY <2>1, <2>2
<1> HIDE DEF events
<1> QED BY <1>1, <1>4, <1>5, PublicationStep DEF events

\* Progress is told to everybody as it becomes visible.
LEMMA ProgressTold ==
    ASSUME TaskAssumption, IInv, WatchInv, NEW t \in Tasks, Progress(t)
    PROVE  WatchInv'
<1>1. CASE HeldBack(t)
  BY <1>1 DEF Progress, WatchInv
<1>2. CASE ~HeldBack(t)
  <2> DEFINE events == <<[task |-> t, state |-> tasks[t]]>>
  <2>1. /\ visible' = [visible EXCEPT ![t] = tasks[t]]
        /\ watchers' = [w \in Watchers |-> Delivered(watchers[w], events)]
        /\ visible \in [Tasks -> States] /\ tasks \in [Tasks -> States]
    BY <1>2 DEF Progress, IInv, Tables, KindSnapshots, Snapshots
  <2>2. events \in Seq(Events) /\ Len(events) = 1 /\ events[1] = [task |-> t, state |-> tasks[t]]
    BY <2>1 DEF Events
  <2>3. Tells(events, visible, visible')
    <3>1. /\ visible'[t] = tasks[t] /\ \A u \in Tasks \ {t} : visible'[u] = visible[u]
          /\ 1..Len(events) = {1} /\ events[1].task = t /\ events[1].state = tasks[t]
      BY <2>1, <2>2
    <3> HIDE DEF events
    <3> QED BY <3>1 DEF Tells, Say, LeaveOut
  <2> HIDE DEF events
  <2> QED BY <2>1, <2>2, <2>3, PublicationStep
<1> QED BY <1>1, <1>2

\* A subscription begins with the committed view, reads and ends.
LEMMA SubscriberStep ==
    ASSUME TaskAssumption, IInv, WatchInv, NEW w \in Watchers,
           Subscribe(w) \/ Receive(w) \/ Unsubscribe(w)
    PROVE  WatchInv'
<1>1. /\ watchers \in [Watchers -> Subscriptions] /\ visible' = visible /\ visible \in Snapshots
      /\ Capacity \in Nat \ {0}
  BY DEF WatchInv, Subscribe, Receive, Unsubscribe, WatcherStep, IInv, Tables, KindSnapshots,
         TaskAssumption
<1>2. SUFFICES ASSUME NEW next \in Subscriptions, watchers' = [watchers EXCEPT ![w] = next],
                      Len(next.buffer) <= Capacity, Exact(next, visible)
               PROVE  WatchInv'
  <2>1. CASE Subscribe(w)
    <3> DEFINE next == [open |-> TRUE, lagged |-> FALSE, buffer |-> <<>>, view |-> visible]
    <3>1. next \in Subscriptions /\ watchers' = [watchers EXCEPT ![w] = next]
      BY <1>1, <2>1 DEF Subscribe, WatcherStep, Snapshot, Subscriptions
    <3>2. Len(next.buffer) <= Capacity
      BY <1>1
    <3>3. Exact(next, visible)
      <4> DEFINE unread == <<>>
      <4>1. unread \in Seq(Events) /\ \A i \in 1..Len(unread) : FALSE
        OBVIOUS
      <4> HIDE DEF unread
      <4>2. \A t \in Tasks : Replay(visible, unread)[t] = visible[t]
        BY <1>1, <4>1, ReplayIs
      <4> QED BY <4>2 DEF Exact, unread
    <3> HIDE DEF next
    <3> QED BY <1>2, <3>1, <3>2, <3>3
  <2>2. CASE Receive(w)
    <3> DEFINE sub == watchers[w]
               next == [sub EXCEPT !.buffer = Tail(@), !.view = Replayed(@, Head(sub.buffer))]
    <3>1. /\ sub \in Subscriptions /\ sub.buffer # <<>> /\ watchers' = [watchers EXCEPT ![w] = next]
          /\ sub.buffer \in Seq(Events) /\ sub.view \in Snapshots
          /\ Len(sub.buffer) <= Capacity /\ Exact(sub, visible)
      BY <1>1, <2>2 DEF Receive, WatcherStep, WatchInv, Subscriptions
    <3>2. /\ Tail(sub.buffer) \in Seq(Events) /\ Len(Tail(sub.buffer)) <= Capacity
          /\ Head(sub.buffer) \in Events
      BY <1>1, <3>1
    <3>3. Replayed(sub.view, Head(sub.buffer)) \in Snapshots
      BY <3>1, <3>2 DEF Replayed, Snapshots, Events
    <3> HIDE DEF sub
    <3>4. /\ next \in Subscriptions /\ next.open = sub.open
          /\ next.buffer = Tail(sub.buffer) /\ next.view = Replayed(sub.view, Head(sub.buffer))
      BY <3>1, <3>2, <3>3 DEF Subscriptions
    <3> HIDE DEF next
    <3>5. Exact(next, visible)
      BY <3>1, <3>4, ReplayFirst DEF Exact
    <3> QED BY <1>2, <3>1, <3>2, <3>4, <3>5
  <2>3. CASE Unsubscribe(w)
    <3>1. Closed \in Subscriptions /\ Len(Closed.buffer) <= Capacity /\ Exact(Closed, visible)
      BY <1>1 DEF Closed, Subscriptions, Snapshots, States, Exact
    <3> QED BY <1>2, <2>3, <3>1 DEF Unsubscribe, WatcherStep
  <2> QED BY <2>1, <2>2, <2>3
<1>3. WatchInv'
  BY <1>1, <1>2 DEF WatchInv
<1> QED BY <1>3

\* Whatever the registry does, a subscriber that is not told that it lags stays
\* exact.
LEMMA WatchStep ==
    ASSUME TaskAssumption, IInv, WatchInv, [Next]_vars
    PROVE  WatchInv'
<1>0. SUFFICES ASSUME ~UNCHANGED <<visible, watchers>> PROVE WatchInv'
  BY DEF WatchInv
<1>1. ~UNCHANGED vars
  BY <1>0 DEF vars
<1>2. ASSUME NEW t \in Tasks, Request(t) PROVE FALSE
  BY <1>0, <1>2 DEF Request, Create, CancelPrepare, CancelSettled, CancelOwner, CancelNow,
                    CachedPrepare, Cached, Remove, RejectPrepare, Reject, SaveOnly, Untouched
<1>3. ASSUME NEW t \in Tasks, Owner(t) PROVE FALSE
  BY <1>0, <1>3 DEF Owner, AdapterReturns, PlannerFails, PlannerPublishes, PlannerTooLate,
                    PlannerUpdates, FinishPrepare, FinishSettled, Finish, Commit, CommitSettled,
                    FinishChecked, OwnerRetry, SaveOnly, Untouched
<1>4. ASSUME NEW t \in Tasks, Reconcile(t) PROVE FALSE
  BY <1>0, <1>4 DEF Reconcile, Untouched
<1>5. ASSUME NEW t \in Downloads, Claim(t) PROVE FALSE
  BY <1>0, <1>5 DEF Claim
<1>6. ~ClaimRetry /\ ~ReconcileBegin /\ ~Tombstone /\ ~FailUnrestorable
  BY <1>0 DEF ClaimRetry, SaveOnly, ReconcileBegin, Untouched, Tombstone, FailUnrestorable
<1>7. CASE Save
  <2>1. ~SaveRejected /\ ~SaveRenamed
    BY <1>0 DEF SaveRejected, SaveRenamed
  <2>2. Install
    BY <1>0, <1>7, <2>1 DEF Save, SaveSynced, SaveNotSynced
  <2> QED BY <2>2, InstallStep DEF Install
<1>8. CASE Restart
  <2>1. /\ watchers' = [w \in Watchers |-> Closed]
        /\ Closed \in Subscriptions /\ Len(Closed.buffer) <= Capacity /\ ~Closed.open
    BY <1>8 DEF Restart, Closed, Subscriptions, Snapshots, States, TaskAssumption
  <2> QED BY <2>1 DEF WatchInv, Exact
<1>9. ASSUME NEW t \in Tasks, Progress(t) PROVE WatchInv'
  BY <1>9, ProgressTold
<1>10. ASSUME NEW w \in Watchers, Subscribe(w) \/ Receive(w) \/ Unsubscribe(w) PROVE WatchInv'
  BY <1>10, SubscriberStep
<1> QED BY <1>1, <1>2, <1>3, <1>4, <1>5, <1>6, <1>7, <1>8, <1>9, <1>10 DEF Next

\* A subscriber that has not been told that it lags is exact: what it has seen
\* and the events that wait in its buffer lead to the committed view of every
\* task, over rejected, rolled back and late publications, lag and restarts
\* (publish_pending_locked, publish_locked, subscribe).
THEOREM TaskWatcherConverges == Spec => []WatcherConverges
<1>1. Init => WatchInv
  <2>1. Init => watchers = [w \in Watchers |-> Closed]
    BY DEF Init
  <2>2. Closed \in Subscriptions /\ Len(Closed.buffer) <= Capacity /\ ~Closed.open
    BY TaskAssumption DEF Closed, Subscriptions, Snapshots, States, TaskAssumption
  <2> QED BY <2>1, <2>2 DEF WatchInv, Exact
<1>2. IInv /\ WatchInv /\ [Next]_vars => WatchInv'
  BY WatchStep, TaskAssumption
<1>3. WatchInv => WatcherConverges
  BY DEF WatchInv, Exact, WatcherConverges
<1> QED BY <1>1, <1>2, <1>3, Invariance, PTL DEF Spec

-----------------------------------------------------------------------------
(* The queue of the registry.                                               *)

QueuedIn(s) == {t \in Downloads : s[t] = "queued"}

\* The queue holds the queued downloads once, and none of them was ever seen to
\* be under way.
Listed(s, q) ==
    /\ Lists(q, QueuedIn(s))
    /\ \A t \in QueuedIn(s) : visible[t] \in {"absent", "queued"}

QueueInv ==
    /\ Listed(tasks, queue)
    /\ Held => Listed(txn.saved.tasks, txn.saved.queue)

\* Nothing that the invariant is about changes, but that the lock may be let go.
LEMMA QueueKept ==
    ASSUME QueueInv, UNCHANGED <<tasks, queue>>,
           \A t \in QueuedIn(tasks) : visible'[t] \in {"absent", "queued"}, ~Held'
    PROVE  QueueInv'
BY DEF QueueInv, Listed, QueuedIn

\* Nor by a step that neither changes the live tables nor the lock.
LEMMA QueueUndisturbed ==
    ASSUME QueueInv, UNCHANGED <<tasks, queue, visible, txn>>
    PROVE  QueueInv'
<1>1. Held' <=> Held
  BY DEF Held, Unlocked
<1> QED BY <1>1 DEF QueueInv, Listed, QueuedIn

\* The checkpoint of a mutation is the queue before it.
LEMMA QueueLocked ==
    ASSUME QueueInv, Listed(tasks, queue)', visible' = visible, txn'.saved = Checkpoint
    PROVE  QueueInv'
<1>1. txn'.saved.tasks = tasks /\ txn'.saved.queue = queue
  BY DEF Checkpoint
<1> QED BY <1>1 DEF QueueInv, Listed, QueuedIn

\* A save without a change of the live tables.
LEMMA QueueSaveOnly ==
    ASSUME QueueInv, NEW op, NEW t, SaveOnly(op, t)
    PROVE  QueueInv'
<1>1. UNCHANGED <<tasks, queue, visible>> /\ txn'.saved = Checkpoint
  BY DEF SaveOnly, Lock, inner
<1>2. Listed(tasks, queue)'
  BY <1>1 DEF QueueInv, Listed, QueuedIn
<1> QED BY <1>1, <1>2, QueueLocked

\* A task leaves the queued state and the queue together.
LEMMA QueueLeft ==
    ASSUME IInv, QueueInv, NEW t \in Tasks, NEW new \in States \ {"queued"},
           tasks' = [tasks EXCEPT ![t] = new], visible' = visible, txn'.saved = Checkpoint,
           queue' = Kept(queue, Downloads \ {t}) \/ (queue' = queue /\ tasks[t] # "queued")
    PROVE  QueueInv'
<1>1. tasks \in [Tasks -> States] /\ Lists(queue, QueuedIn(tasks))
  BY DEF IInv, Tables, KindSnapshots, Snapshots, QueueInv, Listed
<1>2. QueuedIn(tasks)' = QueuedIn(tasks) \cap (Downloads \ {t})
  <2>1. ASSUME NEW u \in Downloads
        PROVE  tasks'[u] = "queued" <=> u # t /\ tasks[u] = "queued"
    <3>1. u \in Tasks /\ new # "queued"
      BY DEF Tasks
    <3> QED BY <1>1, <3>1
  <2> QED BY <2>1 DEF QueuedIn
<1>3. Lists(queue', QueuedIn(tasks)')
  <2>1. CASE queue' = Kept(queue, Downloads \ {t})
    <3> DEFINE left == QueuedIn(tasks) \cap (Downloads \ {t})
    <3>1. Lists(queue', left)
      BY <1>1, <2>1, KeptLists
    <3>2. left = QueuedIn(tasks)'
      BY <1>2
    <3> HIDE DEF left
    <3> QED BY <3>1, <3>2
  <2>2. CASE queue' = queue /\ tasks[t] # "queued"
    <3>1. QueuedIn(tasks)' = QueuedIn(tasks)
      BY <1>2, <2>2 DEF QueuedIn
    <3> QED BY <1>1, <2>2, <3>1
  <2> QED BY <2>1, <2>2
<1>4. Listed(tasks, queue)'
  BY <1>2, <1>3 DEF Listed, QueueInv
<1> QED BY <1>4, QueueLocked

\* Creation puts a download behind the others.
LEMMA QueueCreate ==
    ASSUME IInv, QueueInv, NEW t \in Tasks, Create(t)
    PROVE  QueueInv'
<1>1. /\ tasks' = [tasks EXCEPT ![t] = IF t \in Downloads THEN "queued" ELSE "preparing"]
      /\ queue' = IF t \in Downloads THEN Append(queue, t) ELSE queue
      /\ visible' = visible /\ txn'.saved = Checkpoint
      /\ tasks[t] = "absent" /\ visible[t] = "absent"
      /\ tasks \in [Tasks -> States] /\ Lists(queue, QueuedIn(tasks))
  BY DEF Create, Stage, Lock, Fresh, IInv, Tables, KindSnapshots, Snapshots, QueueInv, Listed
<1>2. CASE t \in Downloads
  <2>1. QueuedIn(tasks)' = QueuedIn(tasks) \cup {t} /\ t \notin QueuedIn(tasks)
    <3>1. ASSUME NEW u \in Downloads
          PROVE  tasks'[u] = "queued" <=> u = t \/ tasks[u] = "queued"
      <4>1. u \in Tasks /\ tasks' = [tasks EXCEPT ![t] = "queued"]
        BY <1>1, <1>2 DEF Tasks
      <4> QED BY <1>1, <4>1
    <3> QED BY <1>1, <1>2, <3>1 DEF QueuedIn
  <2>2. Lists(queue', QueuedIn(tasks)')
    <3> DEFINE more == QueuedIn(tasks) \cup {t}
    <3>1. Lists(queue', more)
      BY <1>1, <1>2, <2>1, AppendLists
    <3>2. more = QueuedIn(tasks)'
      BY <2>1
    <3> HIDE DEF more
    <3> QED BY <3>1, <3>2
  <2>3. Listed(tasks, queue)'
    BY <1>1, <2>1, <2>2 DEF Listed, QueueInv
  <2> QED BY <1>1, <2>3, QueueLocked
<1>3. CASE t \notin Downloads
  BY <1>1, <1>3, QueueLeft DEF States, Active
<1> QED BY <1>2, <1>3

\* The worker takes one download out of the queue; those it passed over go to
\* the back.
LEMMA QueueClaim ==
    ASSUME IInv, QueueInv, NEW t \in Downloads, Claim(t)
    PROVE  QueueInv'
<1>1. PICK i \in DOMAIN queue :
          /\ queue[i] = t /\ Claimable(t)
          /\ queue' = SubSeq(queue, i + 1, Len(queue)) \o Kept(SubSeq(queue, 1, i - 1), QueuedIn(tasks))
  BY DEF Claim, QueuedIn
<1>2. /\ tasks' = [tasks EXCEPT ![t] = "running"] /\ visible' = visible /\ txn'.saved = Checkpoint
      /\ tasks \in [Tasks -> States] /\ t \in Tasks /\ Lists(queue, QueuedIn(tasks))
  BY DEF Claim, Stage, Lock, IInv, Tables, KindSnapshots, Snapshots, QueueInv, Listed, Tasks
<1> DEFINE n == Len(queue)
           before == {queue[k] : k \in 1..(i - 1)}
           behind == {queue[k] : k \in (i + 1)..n}
<1>3. /\ queue \in Seq(QueuedIn(tasks)) /\ n \in Nat /\ i \in 1..n
      /\ \A j, k \in 1..n : queue[j] = queue[k] => j = k
      /\ \A k \in 1..n : queue[k] \in QueuedIn(tasks)
      /\ \A u \in QueuedIn(tasks) : \E k \in 1..n : queue[k] = u
  BY <1>2 DEF Lists
<1>4. /\ 1 \in 1..(n + 1) /\ i - 1 \in 0..n /\ i + 1 \in 1..(n + 1) /\ n \in 0..n
      /\ \A k \in 1..(i - 1) : k \in 1..n /\ k # i
      /\ \A k \in (i + 1)..n : k \in 1..n /\ k # i
      /\ \A k \in 1..n : k \in 1..(i - 1) \/ k = i \/ k \in (i + 1)..n
      /\ (1..(i - 1)) \cap ((i + 1)..n) = {}
  <2>1. n \in Nat /\ i \in 1..n
    BY <1>3
  <2> HIDE DEF n
  <2> QED BY <2>1
<1>5. before \cup behind = QueuedIn(tasks) \ {t} /\ before \cap behind = {}
  <2>1. ASSUME NEW u \in before \cup behind PROVE u \in QueuedIn(tasks) \ {t}
    <3>1. PICK k \in 1..n : k # i /\ queue[k] = u
      BY <1>4
    <3> QED BY <1>1, <1>3, <3>1
  <2>2. ASSUME NEW u \in QueuedIn(tasks) \ {t} PROVE u \in before \cup behind
    <3>1. PICK k \in 1..n : queue[k] = u
      BY <1>3
    <3>2. k # i
      BY <1>1, <3>1
    <3> QED BY <1>4, <3>1, <3>2
  <2>3. ASSUME NEW u \in before, u \in behind PROVE FALSE
    <3>1. PICK j \in 1..(i - 1) : queue[j] = u
      OBVIOUS
    <3>2. PICK k \in (i + 1)..n : queue[k] = u
      BY <2>3
    <3> QED BY <1>3, <1>4, <3>1, <3>2
  <2> QED BY <2>1, <2>2, <2>3
<1>6. Lists(SubSeq(queue, 1, i - 1), before) /\ Lists(SubSeq(queue, i + 1, n), behind)
  <2> HIDE DEF n
  <2> DEFINE S == QueuedIn(tasks)
  <2>0. queue \in Seq(S)
    BY <1>3
  <2> HIDE DEF S
  <2>1. /\ \A j, k \in 1..Len(queue) : queue[j] = queue[k] => j = k
        /\ 1 \in 1..(Len(queue) + 1) /\ i - 1 \in 0..Len(queue)
        /\ i + 1 \in 1..(Len(queue) + 1) /\ Len(queue) \in 0..Len(queue)
    BY <1>3, <1>4 DEF n
  <2>2. Lists(SubSeq(queue, 1, i - 1), {queue[k] : k \in 1..(i - 1)})
    BY <2>0, <2>1, PartLists
  <2>3. Lists(SubSeq(queue, i + 1, Len(queue)), {queue[k] : k \in (i + 1)..Len(queue)})
    BY <2>0, <2>1, PartLists
  <2> QED BY <2>2, <2>3 DEF n
<1>7. QueuedIn(tasks)' = behind \cup (before \cap QueuedIn(tasks))
  <2>1. QueuedIn(tasks)' = QueuedIn(tasks) \ {t}
    BY <1>2 DEF QueuedIn, Tasks
  <2> HIDE DEF before, behind
  <2> QED BY <1>5, <2>1
<1>8. Lists(queue', QueuedIn(tasks)')
  <2> DEFINE first == SubSeq(queue, 1, i - 1)
             rest == SubSeq(queue, i + 1, n)
             passed == Kept(first, QueuedIn(tasks))
  <2>1. Lists(first, before) /\ Lists(rest, behind) /\ queue' = rest \o passed
    BY <1>1, <1>6
  <2> HIDE DEF before, behind, first, rest
  <2>2. Lists(passed, before \cap QueuedIn(tasks))
    BY <2>1, KeptLists
  <2>3. behind \cap (before \cap QueuedIn(tasks)) = {}
    BY <1>5
  <2> HIDE DEF passed
  <2>4. Lists(rest \o passed, behind \cup (before \cap QueuedIn(tasks)))
    BY <2>1, <2>2, <2>3, ConcatLists
  <2> QED BY <1>7, <2>1, <2>4
<1>9. Listed(tasks, queue)'
  <2>1. QueuedIn(tasks)' \subseteq QueuedIn(tasks)
    BY <1>2 DEF QueuedIn, Tasks
  <2> QED BY <1>2, <1>8, <2>1 DEF Listed, QueueInv
<1> QED BY <1>2, <1>9, QueueLocked

\* The requests.
LEMMA QueueRequest ==
    ASSUME TaskAssumption, IInv, QueueInv, NEW t \in Tasks, Request(t)
    PROVE  QueueInv'
<1>1. CASE Create(t)
  BY <1>1, QueueCreate
<1>2. CASE CancelPrepare(t) \/ CachedPrepare(t) \/ RejectPrepare(t)
  BY <1>2, QueueSaveOnly DEF CancelPrepare, CachedPrepare, RejectPrepare
<1>3. CASE Unlock /\ UNCHANGED <<tasks, queue, visible>>
  <2>1. ~Held'
    BY <1>3, Unlocking DEF IInv
  <2> QED BY <1>3, <2>1, QueueKept DEF QueueInv, Listed
<1>4. CASE CancelSettled(t)
  BY <1>3, <1>4 DEF CancelSettled, Untouched, inner
<1>5. CASE CancelOwner(t)
  <2>1. tasks[t] # "queued"
    <3>1. visible[t] \in {"running", "preparing", "cancel_requested"}
      BY <1>5 DEF CancelOwner
    <3>2. CASE t \in Downloads
      BY <3>1, <3>2 DEF QueueInv, Listed, QueuedIn
    <3>3. CASE t \in Playbacks
      BY <3>3 DEF IInv, Tables, KindSnapshots, OfKind
    <3> QED BY <3>2, <3>3 DEF Tasks
  <2>2. CASE Unlock /\ Untouched
    BY <1>3, <2>2 DEF Untouched, inner
  <2>3. CASE /\ Stage(t, "cancel_requested") /\ Lock("cancelMark", t, "never", FALSE, "save")
             /\ UNCHANGED <<queue, visible>>
    <3>1. /\ tasks' = [tasks EXCEPT ![t] = "cancel_requested"] /\ visible' = visible
          /\ txn'.saved = Checkpoint /\ queue' = queue
      BY <2>3 DEF Stage, Lock
    <3>2. "cancel_requested" \in States \ {"queued"}
      BY DEF States, Active
    <3> QED BY <2>1, <3>1, <3>2, QueueLeft
  <2> QED BY <1>5, <2>2, <2>3 DEF CancelOwner
<1>6. CASE CancelNow(t) \/ Cached(t)
  <2>1. PICK new \in States \ {"queued"} :
            /\ tasks' = [tasks EXCEPT ![t] = new] /\ visible' = visible
            /\ txn'.saved = Checkpoint /\ queue' = Kept(queue, Downloads \ {t})
    BY <1>6 DEF CancelNow, Cached, Stage, Lock, ClearActive, States, Terminal, Active
  <2> QED BY <2>1, QueueLeft
<1>7. CASE Remove(t)
  <2>1. /\ tasks' = [tasks EXCEPT ![t] = "absent"] /\ visible' = visible
        /\ txn'.saved = Checkpoint /\ queue' = queue /\ tasks[t] # "queued"
    BY <1>7 DEF Remove, Stage, Lock
  <2>2. "absent" \in States \ {"queued"}
    BY DEF States
  <2> QED BY <2>1, <2>2, QueueLeft
<1>8. CASE Reject(t)
  <2>1. tasks[t] \in States \ {"queued"} /\ tasks[t] # "queued"
    BY <1>8 DEF Reject, Served, States, Terminal
  <2>2. CASE Stage(t, "failed") /\ ClearActive(t)
    <3>1. /\ tasks' = [tasks EXCEPT ![t] = "failed"] /\ visible' = visible
          /\ txn'.saved = Checkpoint /\ queue' = Kept(queue, Downloads \ {t})
      BY <1>8, <2>2 DEF Reject, Stage, Lock, ClearActive
    <3>2. "failed" \in States \ {"queued"}
      BY DEF States, Terminal
    <3> QED BY <3>1, <3>2, QueueLeft
  <2>3. CASE Stage(t, tasks[t]) /\ UNCHANGED <<queue, active, registered>>
    <3>1. /\ tasks' = [tasks EXCEPT ![t] = tasks[t]] /\ visible' = visible
          /\ txn'.saved = Checkpoint /\ queue' = queue
      BY <1>8, <2>3 DEF Reject, Stage, Lock
    <3> DEFINE new == tasks[t]
    <3> HIDE DEF new
    <3>2. /\ new \in States \ {"queued"} /\ tasks[t] # "queued"
          /\ tasks' = [tasks EXCEPT ![t] = new]
      BY <2>1, <3>1 DEF new
    <3> QED BY <3>1, <3>2, QueueLeft
  <2> QED BY <1>8, <2>2, <2>3 DEF Reject
<1> QED BY <1>1, <1>2, <1>4, <1>5, <1>6, <1>7, <1>8 DEF Request

\* Results that are lost leave the queue alone.
LEMMA QueueLost ==
    ASSUME TaskAssumption, IInv, QueueInv, Tombstone \/ FailUnrestorable
    PROVE  QueueInv'
<1>1. PICK touched \in SUBSET Tasks, failed \in SUBSET Tasks :
          /\ StageLoss(touched, failed)
          /\ \A t \in failed : tasks[t] # "queued"
  <2>1. CASE Tombstone
    <3>1. PICK touched \in SUBSET {t \in Downloads : tasks[t] \in {"succeeded", "partial"}} :
              \E failed \in SUBSET touched : StageLoss(touched, failed)
      BY <2>1 DEF Tombstone
    <3>2. PICK failed \in SUBSET touched : StageLoss(touched, failed)
      BY <3>1
    <3>3. /\ touched \in SUBSET Tasks /\ failed \in SUBSET Tasks
          /\ \A t \in failed : tasks[t] # "queued"
      BY DEF Tasks
    <3> QED BY <3>2, <3>3
  <2>2. CASE FailUnrestorable
    <3>1. PICK lost \in SUBSET {t \in Playbacks : tasks[t] \in Served} : StageLoss(lost, lost)
      BY <2>2 DEF FailUnrestorable
    <3>2. lost \in SUBSET Tasks /\ \A t \in lost : tasks[t] # "queued"
      BY DEF Tasks, Served
    <3> QED BY <3>1, <3>2
  <2> QED BY <2>1, <2>2
<1>2. UNCHANGED <<queue, visible>>
  BY DEF Tombstone, FailUnrestorable
<1>3. QueuedIn(tasks)' = QueuedIn(tasks)
  <2>1. ASSUME NEW t \in Downloads PROVE tasks'[t] = "queued" <=> tasks[t] = "queued"
    BY <1>1 DEF StageLoss, Tasks
  <2> QED BY <2>1 DEF QueuedIn
<1>4. Listed(tasks, queue)'
  BY <1>2, <1>3 DEF Listed, QueueInv
<1>5. txn'.saved = Checkpoint \/ ~Held'
  <2>1. CASE Tombstone
    BY <2>1 DEF Tombstone, Lock
  <2>2. CASE FailUnrestorable
    <3>1. Unlock \/ Lock("restore", NoTask, "never", FALSE, "save")
      BY <2>2 DEF FailUnrestorable
    <3>2. CASE Unlock
      BY <3>2, Unlocking DEF IInv
    <3>3. CASE Lock("restore", NoTask, "never", FALSE, "save")
      BY <3>3 DEF Lock
    <3> QED BY <3>1, <3>2, <3>3
  <2> QED BY <2>1, <2>2
<1>6. CASE txn'.saved = Checkpoint
  BY <1>2, <1>4, <1>6, QueueLocked
<1>7. CASE ~Held'
  BY <1>2, <1>4, <1>7 DEF QueueInv
<1> QED BY <1>5, <1>6, <1>7

\* The owners.
LEMMA QueueOwner ==
    ASSUME TaskAssumption, IInv, QueueInv, NEW t \in Tasks, Owner(t)
    PROVE  QueueInv'
<1>1. CASE AdapterReturns(t) \/ PlannerFails(t) \/ PlannerTooLate(t) \/ CommitSettled(t) \/ FinishChecked(t)
  <2>1. UNCHANGED <<tasks, queue, visible, txn>>
    BY <1>1 DEF AdapterReturns, PlannerFails, PlannerTooLate, CommitSettled, FinishChecked,
                Untouched, inner
  <2> QED BY <2>1, QueueUndisturbed
<1>2. CASE FinishSettled(t)
  <2>1. ~Held' /\ UNCHANGED <<tasks, queue, visible>>
    BY <1>2, Unlocking DEF FinishSettled, Untouched, inner, IInv
  <2> QED BY <2>1, QueueKept DEF QueueInv, Listed
<1>3. CASE FinishPrepare(t) \/ OwnerRetry(t)
  BY <1>3, QueueSaveOnly DEF FinishPrepare, OwnerRetry
<1>4. CASE PlannerPublishes(t) \/ PlannerUpdates(t)
  <2>1. tasks \in [Tasks -> States] /\ tasks[t] # "queued"
    BY <1>4 DEF PlannerPublishes, PlannerUpdates, IInv, Tables, KindSnapshots, Snapshots, OfKind
  <2>2. PICK new \in States \ {"queued"} :
            /\ tasks' = [tasks EXCEPT ![t] = new] /\ visible' = visible
            /\ txn'.saved = Checkpoint /\ queue' = queue
    <3>1. CASE PlannerPublishes(t)
      BY <3>1 DEF PlannerPublishes, Stage, Lock, States, Terminal, Active
    <3>2. CASE PlannerUpdates(t)
      BY <2>1, <3>2 DEF PlannerUpdates, Stage, Lock
    <3> QED BY <1>4, <3>1, <3>2
  <2> QED BY <2>1, <2>2, QueueLeft
<1>5. CASE Finish(t) \/ Commit(t)
  <2>1. EffectiveState(t) \in States \ {"queued"}
    BY DEF EffectiveState, IInv, Tables, Runners, States, Terminal, Active
  <2>2. /\ tasks' = [tasks EXCEPT ![t] = EffectiveState(t)] /\ visible' = visible
        /\ txn'.saved = Checkpoint /\ queue' = Kept(queue, Downloads \ {t})
    BY <1>5 DEF Finish, Commit, Stage, Lock, ClearActive
  <2> HIDE DEF EffectiveState
  <2> QED BY <2>1, <2>2, QueueLeft
<1> QED BY <1>1, <1>2, <1>3, <1>4, <1>5 DEF Owner

\* A save publishes the queue with the tables, or restores both.
LEMMA QueueSave ==
    ASSUME TaskAssumption, IInv, QueueInv, Save
    PROVE  QueueInv'
<1>0. Held
  BY DEF Save, SaveRejected, SaveRenamed, SaveSynced, SaveNotSynced, Saving, Held
<1>1. ASSUME NEW outcome, Conclude(outcome) PROVE ~Held'
  <2>1. CASE Repaired(outcome)
    <3>1. txn' = [txn EXCEPT !.op = Body(txn.op), !.phase = "ready"]
      BY <1>1, <2>1 DEF Conclude
    <3>2. txn'.phase = "ready"
      BY <3>1 DEF IInv, Txn
    <3> QED BY <3>2 DEF Held
  <2>2. CASE ~Repaired(outcome)
    BY <1>1, <2>2, Unlocking DEF Conclude, IInv
  <2> QED BY <2>1, <2>2
<1>2. ASSUME RollBack, visible' = visible, ~Held' PROVE QueueInv'
  <2>1. tasks' = txn.saved.tasks /\ queue' = txn.saved.queue
    BY <1>2 DEF RollBack
  <2> QED BY <1>0, <1>2, <2>1 DEF QueueInv, Listed
<1>3. CASE SaveRejected
  <2>1. PICK outcome \in {"rejected", "permanent"} :
            /\ IF RollsBack(outcome) THEN RollBack ELSE Keep /\ UNCHANGED pending
            /\ Conclude(outcome)
    BY <1>3 DEF SaveRejected
  <2>2. visible' = visible /\ ~Held'
    BY <1>1, <1>3, <2>1 DEF SaveRejected
  <2>3. CASE RollsBack(outcome)
    BY <1>2, <2>1, <2>2, <2>3
  <2>4. CASE ~RollsBack(outcome)
    <3>1. UNCHANGED <<tasks, queue>>
      BY <2>1, <2>4 DEF Keep
    <3> QED BY <2>2, <3>1, QueueKept DEF QueueInv, Listed
  <2> QED BY <2>3, <2>4
<1>4. CASE SaveRenamed
  <2>1. /\ UNCHANGED <<tasks, queue, visible>> /\ txn'.saved = txn.saved
    BY <1>4 DEF SaveRenamed, inner, IInv, Txn
  <2> QED BY <1>0, <2>1 DEF QueueInv, Listed, QueuedIn
<1>5. CASE SaveSynced \/ SaveNotSynced
  <2>1. ~Held'
    BY <1>1, <1>5 DEF SaveSynced, SaveNotSynced
  <2>2. CASE RollBack /\ visible' = visible
    BY <1>2, <2>1, <2>2
  <2>3. CASE Install
    <3>1. UNCHANGED <<tasks, queue>> /\ visible' = tasks
      BY <2>3 DEF Install, Keep
    <3> QED BY <2>1, <3>1, QueueKept DEF QueuedIn
  <2> QED BY <1>5, <2>2, <2>3 DEF SaveSynced, SaveNotSynced
<1> QED BY <1>3, <1>4, <1>5 DEF Save

\* A restart queues the restored downloads anew.
LEMMA QueueRestart ==
    ASSUME TaskAssumption, Restart
    PROVE  QueueInv'
<1> DEFINE again == QueuedIn(tasks)'
<1>1. PICK order \in [1..Cardinality(again) -> again] :
          /\ \A t \in again : \E i \in DOMAIN order : order[i] = t
          /\ queue' = order
  BY DEF Restart, QueuedIn
<1>2. again \in SUBSET Downloads /\ IsFiniteSet(again)
  <2>1. again \subseteq Downloads /\ again \subseteq Tasks
    BY DEF QueuedIn, Tasks
  <2> QED BY <2>1, FS_Subset DEF TaskAssumption
<1>3. Lists(queue', again)
  <2> HIDE DEF again
  <2> QED BY <1>1, <1>2, EnumerationLists
<1>4. /\ visible' = tasks' /\ txn'.saved.tasks = tasks' /\ txn'.saved.queue = queue'
  BY DEF Restart
<1>5. \A t \in again : visible'[t] = "queued"
  BY <1>4 DEF QueuedIn
<1> QED BY <1>3, <1>4, <1>5 DEF QueueInv, Listed, QueuedIn

\* Every step keeps the queue exact.
LEMMA QueueStep ==
    ASSUME TaskAssumption, IInv, QueueInv, [Next]_vars
    PROVE  QueueInv'
<1>1. CASE UNCHANGED <<tasks, queue, visible, txn>>
  BY <1>1, QueueUndisturbed
<1>2. CASE UNCHANGED vars
  BY <1>1, <1>2 DEF vars, inner
<1>3. ASSUME NEW t \in Tasks, Request(t) PROVE QueueInv'
  BY <1>3, QueueRequest
<1>4. ASSUME NEW t \in Tasks, Owner(t) PROVE QueueInv'
  BY <1>4, QueueOwner
<1>5. ASSUME NEW t \in Tasks, Progress(t) PROVE QueueInv'
  <2>1. UNCHANGED <<tasks, queue, txn>> /\ ~Held
    BY <1>5 DEF Progress, Held
  <2>2. visible \in [Tasks -> States]
    BY DEF IInv, Tables, KindSnapshots, Snapshots
  <2>3. visible' = visible \/ (visible' = [visible EXCEPT ![t] = tasks[t]])
    BY <1>5 DEF Progress
  <2>4. ASSUME NEW u \in QueuedIn(tasks) PROVE visible'[u] \in {"absent", "queued"}
    <3>1. visible[u] \in {"absent", "queued"} /\ tasks[u] = "queued" /\ u \in Tasks
      BY DEF QueueInv, Listed, QueuedIn, Tasks
    <3> QED BY <2>2, <2>3, <3>1
  <2>5. ~Held'
    BY <2>1 DEF Held, Unlocked
  <2> QED BY <2>1, <2>4, <2>5, QueueKept
<1>6. CASE ReconcileBegin \/ \E t \in Tasks : Reconcile(t)
  BY <1>1, <1>6 DEF ReconcileBegin, Reconcile, Untouched, inner
<1>7. ASSUME NEW t \in Downloads, Claim(t) PROVE QueueInv'
  BY <1>7, QueueClaim
<1>8. CASE ClaimRetry
  BY <1>8, QueueSaveOnly DEF ClaimRetry
<1>9. ASSUME NEW w \in Watchers, Subscribe(w) \/ Receive(w) \/ Unsubscribe(w) PROVE QueueInv'
  BY <1>1, <1>9 DEF Subscribe, Receive, Unsubscribe, WatcherStep, inner
<1>10. CASE Save
  BY <1>10, QueueSave
<1>11. CASE Restart
  BY <1>11, QueueRestart
<1>12. CASE Tombstone \/ FailUnrestorable
  BY <1>12, QueueLost
<1> QED
  BY <1>2, <1>3, <1>4, <1>5, <1>6, <1>7, <1>8, <1>9, <1>10, <1>11, <1>12 DEF Next

\* What is accepted is done once: between mutations the queue holds every live
\* queued download exactly once, through claims that pass entries over,
\* cancellations, rejected saves and restarts, and a duplicate submission is
\* not a second task (try_claim_next_bilibili_task, clear_active_task_locked,
\* restore_persistence_checkpoint).
THEOREM TaskAcceptedOnce == Spec => []AcceptedOnce
<1>1. Init => QueueInv
  <2> SUFFICES ASSUME Init PROVE QueueInv
    OBVIOUS
  <2>1. /\ tasks = Nothing /\ queue = <<>> /\ txn.saved.tasks = tasks /\ txn.saved.queue = queue
    BY DEF Init, Checkpoint
  <2>2. QueuedIn(tasks) = {}
    BY <2>1 DEF QueuedIn, Nothing, Tasks
  <2>3. Lists(<<>>, {})
    BY DEF Lists
  <2>4. Listed(tasks, queue)
    BY <2>1, <2>2, <2>3 DEF Listed
  <2> QED BY <2>1, <2>4 DEF QueueInv
<1>2. IInv /\ QueueInv /\ [Next]_vars => QueueInv'
  BY QueueStep, TaskAssumption
<1>3. QueueInv => QueueHoldsQueued
  <2> SUFFICES ASSUME QueueInv, NEW t \in Downloads
               PROVE  Cardinality({i \in DOMAIN queue : queue[i] = t})
                          = (IF tasks[t] = "queued" THEN 1 ELSE 0)
    BY DEF QueueHoldsQueued
  <2> DEFINE places == {i \in DOMAIN queue : queue[i] = t}
  <2>1. /\ DOMAIN queue = 1..Len(queue)
        /\ \A i, j \in 1..Len(queue) : queue[i] = queue[j] => i = j
        /\ tasks[t] = "queued" <=> \E i \in 1..Len(queue) : queue[i] = t
    BY SMTT(60) DEF QueueInv, Listed, Lists, QueuedIn
  <2>2. CASE tasks[t] = "queued"
    <3>1. PICK i \in 1..Len(queue) : queue[i] = t
      BY <2>1, <2>2
    <3>2. places = {i}
      BY <2>1, <3>1
    <3> HIDE DEF places
    <3>3. Cardinality(places) = 1
      BY <3>2, FS_Singleton
    <3> QED BY <2>2, <3>3 DEF places
  <2>3. CASE tasks[t] # "queued"
    <3>1. places = {}
      BY <2>1, <2>3
    <3> HIDE DEF places
    <3>2. Cardinality(places) = 0
      BY <3>1, FS_EmptySet
    <3> QED BY <2>3, <3>2 DEF places
  <2> QED BY <2>2, <2>3
<1>4. Spec => []QueueInv
  BY <1>1, <1>2, Invariance, PTL DEF Spec
<1>5. QueueHoldsQueued /\ OneActivePerKey => AcceptedOnce
  BY DEF AcceptedOnce
<1> QED BY <1>3, <1>4, <1>5, TaskOneActivePerKey, PTL

=============================================================================
