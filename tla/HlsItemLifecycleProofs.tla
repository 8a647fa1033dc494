----------------------- MODULE HlsItemLifecycleProofs -----------------------
(***************************************************************************)
(* What HlsItemLifecycle promises, proved for any sessions of a task and    *)
(* any number of faults and crashes: what is offered for offline playback   *)
(* has its media (OfferedMediaExists), and files have an owner that will    *)
(* use or delete them (NoOrphanedFiles).                                    *)
(*                                                                         *)
(* The invariant compares three versions of the task (live, visible, saved) *)
(* with the directories and with the activities that are under way.  Almost *)
(* every action is a save that fails or succeeds, so `Became' says once     *)
(* what any sequence of saves may do to the three versions.                 *)
(***************************************************************************)
EXTENDS HlsItemLifecycle, TLAPS

-----------------------------------------------------------------------------
(* The tables.                                                              *)

\* The items a task has in each of its states.
Shape(t) ==
    /\ t.state \in {"Preparing", "CancelRequested"} => \A s \in Sessions : t.item[s] # "completed"
    /\ t.state \in {"Ended", "Gone"} => \A s \in Sessions : t.item[s] = "none"
    /\ \A s \in Sessions \ Items : t.item[s] = "none"
    /\ t.state = "Playable" /\ Primary \in Items => t.item[Primary] = "playable"
    /\ t.state = "Completed" /\ Primary \in Items => t.item[Primary] = "completed"

\* The version n of a task may come after the version t: once it is planned
\* a task takes no more sessions, and only then it becomes playable.
Follows(t, n) ==
    /\ n.state = "Preparing" => t.state = "Preparing"
    /\ t.state \notin {"Preparing", "Playable"} => n.state # "Playable"
    /\ t.state # "Preparing" =>
          /\ Ready(n) => Ready(t)
          /\ \A s \in Sessions : Uses(n, s) => Uses(t, s)

\* The versions of the task: what is visible came before what is live, and
\* all are one when persistence is available.
StoreOK(b) ==
    /\ Shape(b.reg) /\ Shape(b.vis) /\ Shape(b.disk)
    /\ Follows(b.vis, b.reg)
    /\ b.avail => b.vis = b.reg /\ b.disk = b.reg

\* Sessions that some version has recorded as complete.
Recorded(b) ==
    {s \in Sessions : CompletedItem(b.reg, s) \/ CompletedItem(b.vis, s) \/ CompletedItem(b.disk, s)}

\* A version that lets go of s, and always will.
Dead(t, s) == t.state # "Preparing" /\ ~(Ready(t) /\ Uses(t, s))

DeadIn(b, s) == Dead(b.reg, s) /\ Dead(b.vis, s) /\ Dead(b.disk, s)

-----------------------------------------------------------------------------
(* The invariant.                                                           *)

PendingCleanups == UNION {pending[k] : k \in Keys}

\* Sessions whose files are due for removal.
Due == removal.sessions \cup canceller.todo \cup canceller.failed \cup PendingCleanups
       \cup {s \in current : worker.pc = "discard"}

DueIsDead == \A s \in Due : DeadIn(store, s)

\* The media are there, or were taken by a quota pass with an outdated list.
HasMedia(s) == cache[s] = "completed" \/ s \in outdated

Media == \A s \in Sessions : s \in Recorded(store) \/ runtime[s] = "local" => HasMedia(s)

\* Nothing is filled before the plan is visible.
Fresh == store.vis.state = "Preparing" =>
            /\ \A s \in Sessions : cache[s] # "completed"
            /\ evictor.completed = {}
            /\ worker.pc \notin {"protect", "fill", "publish", "settle", "discard"}

Tracked(s) ==
    \/ Uses(store.reg, s)
    \/ \E k \in Keys : s \in pending[k]
    \/ s \in removal.sessions \cup canceller.todo \cup canceller.failed
    \/ s \in startup.quarantined
    \/ planner # "done"
    \/ s \in lost

\* s has files, or the running fill is about to give it some.
Held(s) == cache[s] # "absent" \/ (worker.pc = "fill" /\ s \in current /\ s \notin retired)

HeldIsTracked == \A s \in Sessions : Held(s) => Tracked(s)

Filling ==
    /\ \A s, x \in current : s = x
    /\ worker.pc = "fill" => \A s \in current : cache[s] # "completed"
    /\ worker.pc = "protect" /\ planner = "done" =>
          \A s \in current : Uses(store.vis, s) => Uses(store.reg, s)

\* The worker has e and a quota pass may not touch it.
Busy(e) == e \in current /\ worker.pc \in {"publish", "settle", "discard"}

\* What a quota pass listed, compared with what has happened since.
Scanning == evictor.pc = "scan" =>
    /\ evictor.spared \subseteq evictor.stable
    /\ \A e \in evictor.partial :
          cache[e] = "completed" /\ (e \in Recorded(store) \/ runtime[e] = "local") =>
              e \in unsaved \/ Busy(e)
    /\ \A e \in evictor.completed \ evictor.stable :
          store.reg.state = "Playable" => ~Uses(store.reg, e)
    /\ \A e \in evictor.completed :
          pending[[kind |-> "item", of |-> e]] = {} \/ e \in evictor.spared

Emptied(e) == cache[e] # "completed" /\ e \in retired

\* Cleanups that are due under the key of an item, or of one session.
Removing ==
    /\ \A s \in Sessions : pending[[kind |-> "session", of |-> s]] \subseteq {s}
    /\ \A e \in Sessions :
          LET P == pending[[kind |-> "item", of |-> e]]
          IN P = {} \/ e \in P \/ Emptied(e)
    /\ removal.by = "nobody" => removal.sessions = {}
    /\ removal.by = "deleter" => evictor.pc = "idle"
    /\ removal.by # "nobody" =>
          /\ removal.key.kind = "item"
          /\ removal.key.of \in removal.sessions \/ Emptied(removal.key.of)
          /\ pending[removal.key] \subseteq removal.sessions

Quiescent ==
    /\ canceller.pc = "idle" => canceller.todo = {} /\ canceller.failed = {}
    /\ startup.resume # {} => evictor.pc = "idle" /\ current = {} /\ removal.by = "nobody"

IInv == /\ TypeOK /\ StoreOK(store) /\ DueIsDead /\ Media /\ Fresh /\ HeldIsTracked
        /\ Filling /\ Scanning /\ Removing /\ Quiescent

-----------------------------------------------------------------------------
(* Tables that follow one another.                                          *)

Stores == [reg : Task, vis : Task, disk : Task, avail : BOOLEAN]

\* A version may stay as it is.
LEMMA FollowsItself == ASSUME NEW t \in Task PROVE Follows(t, t)
BY DEF Follows

\* Changes of the task compose.
LEMMA FollowsOn ==
    ASSUME NEW t \in Task, NEW n \in Task, NEW m \in Task, Follows(t, n), Follows(n, m)
    PROVE  Follows(t, m)
BY DEF Follows

\* A session that was let go of is never taken back by a later version.
LEMMA DeadStaysDead ==
    ASSUME NEW t \in Task, NEW n \in Task, Follows(t, n), NEW s \in Sessions, Dead(t, s)
    PROVE  Dead(n, s)
BY DEF Follows, Dead

\* A session that a version has recorded as complete is offered by it.
LEMMA CompletedIsOffered ==
    ASSUME NEW t \in Task, Shape(t), NEW s \in Sessions, CompletedItem(t, s)
    PROVE  Ready(t) /\ Uses(t, s) /\ ~Dead(t, s)
BY DEF Shape, CompletedItem, Ready, Uses, Dead, Task, TaskStates

\* A version n that may replace t, and records at most S in addition.
Succeeds(t, n, S) ==
    /\ Shape(n) /\ Follows(t, n)
    /\ \A s \in Sessions : CompletedItem(n, s) => CompletedItem(t, s) \/ s \in S

\* Ending the task is a legal change that lets go of every session.
LEMMA EndedSucceeds ==
    ASSUME NEW t \in Task, Shape(t)
    PROVE  /\ EndedTask(t) \in Task /\ Succeeds(t, EndedTask(t), {})
           /\ \A s \in Sessions : ~Uses(EndedTask(t), s)
           /\ \A s \in Sessions : Dead(EndedTask(t), s)
BY DEF Task, TaskStates, EndedTask, Succeeds, Shape, Follows, Ready, Uses, CompletedItem, Dead

\* The published plan is a legal change that uses every session.
LEMMA PlannedSucceeds ==
    ASSUME NEW t \in Task, Shape(t), t.state = "Preparing"
    PROVE  /\ PlayableTask(t) \in Task /\ Succeeds(t, PlayableTask(t), {})
           /\ \A s \in Sessions : Uses(PlayableTask(t), s)
<1> DEFINE f == [s \in Sessions |-> IF s \in Items THEN "playable" ELSE "none"]
<1>1. PlayableTask(t) \in Task
  <2>1. f \in [Sessions -> {"none", "playable", "completed"}]
    OBVIOUS
  <2> HIDE DEF f
  <2>2. [t EXCEPT !.state = "Playable", !.item = f] \in Task
    BY <2>1 DEF Task, TaskStates
  <2> QED BY <2>2 DEF PlayableTask, f
<1>2. /\ PlayableTask(t).state = "Playable"
      /\ \A s \in Sessions : PlayableTask(t).item[s] = IF s \in Items THEN "playable" ELSE "none"
  BY DEF Task, TaskStates, PlayableTask
<1>3. Succeeds(t, PlayableTask(t), {})
  BY <1>1, <1>2, LifecycleAssumption
  DEF Task, Succeeds, Shape, Follows, Ready, Uses, CompletedItem
<1>4. \A s \in Sessions : Uses(PlayableTask(t), s)
  BY <1>2, LifecycleAssumption DEF Uses, Ready
<1> QED BY <1>1, <1>3, <1>4

\* A published result is a legal change of a task that is being planned.
LEMMA ResultSucceeds ==
    ASSUME NEW t \in Task, Shape(t), t.state = "Preparing", NEW s \in Items
    PROVE  LET n == [t EXCEPT !.item[s] = "playable"]
           IN n \in Task /\ Succeeds(t, n, {})
BY LifecycleAssumption
DEF Task, TaskStates, Succeeds, Shape, Follows, Ready, Uses, CompletedItem

\* A requested cancellation keeps the results of the planning.
LEMMA CancelledSucceeds ==
    ASSUME NEW t \in Task, Shape(t), t.state = "Preparing"
    PROVE  LET n == [t EXCEPT !.state = "CancelRequested"]
           IN /\ n \in Task /\ Succeeds(t, n, {})
              /\ \A s \in Sessions : Uses(t, s) => Uses(n, s)
BY LifecycleAssumption
DEF Task, TaskStates, Succeeds, Shape, Follows, Ready, Uses, CompletedItem

\* Completing s records s, and lets go of nothing.
LEMMA CompletedSucceeds ==
    ASSUME NEW t \in Task, Shape(t), NEW s \in Sessions, Completable(t, s)
    PROVE  /\ CompletedTask(t, s) \in Task /\ Succeeds(t, CompletedTask(t, s), {s})
           /\ CompletedItem(CompletedTask(t, s), s)
           /\ \A x \in Sessions : Uses(t, x) => Uses(CompletedTask(t, s), x)
BY LifecycleAssumption
DEF Task, TaskStates, CompletedTask, Completable, Succeeds, Shape, Follows, Ready, Uses, CompletedItem

\* Removing a completed item lets go of it; removing that of the task lets go
\* of everything.
LEMMA RemovedSucceeds ==
    ASSUME NEW t \in Task, Shape(t), NEW s \in Sessions, CompletedItem(t, s)
    PROVE  /\ RemovedTask(t, s) \in Task /\ Succeeds(t, RemovedTask(t, s), {})
           /\ Dead(RemovedTask(t, s), s)
           /\ s = Primary => \A x \in Sessions : Dead(RemovedTask(t, s), x)
           /\ s # Primary => \A x \in Sessions \ {s} : Uses(t, x) => Uses(RemovedTask(t, s), x)
BY LifecycleAssumption
DEF Task, TaskStates, RemovedTask, EndedTask, Succeeds, Shape, Follows, Ready, Uses, CompletedItem, Dead

\* A task whose session cannot be restored records nothing new.
LEMMA UnrestorableSucceeds ==
    ASSUME NEW t \in Task, Shape(t), NEW s \in Sessions
    PROVE  UnrestorableTask(t, s) \in Task /\ Succeeds(t, UnrestorableTask(t, s), {})
BY LifecycleAssumption
DEF Task, TaskStates, UnrestorableTask, EndedTask, Succeeds, Shape, Follows, Ready, Uses, CompletedItem

\* The fill status is not looked at by anything else.
LEMMA StatusSucceeds ==
    ASSUME NEW t \in Task, Shape(t), NEW X \in SUBSET Sessions
    PROVE  LET n == [t EXCEPT !.failed = X]
           IN /\ n \in Task /\ Succeeds(t, n, {})
              /\ \A s \in Sessions : Uses(t, s) <=> Uses(n, s)
              /\ n.state = t.state /\ n.item = t.item
BY DEF Task, TaskStates, Succeeds, Shape, Follows, Ready, Uses, CompletedItem

-----------------------------------------------------------------------------
(* What any sequence of saves does to the store, successful or not.         *)

Became(b, c, S) ==
    /\ StoreOK(c)
    /\ Follows(b.reg, c.reg)
    /\ c.vis = b.vis \/ Follows(b.reg, c.vis)
    /\ c.disk = b.disk \/ Follows(b.reg, c.disk)
    /\ Recorded(c) \subseteq Recorded(b) \cup S

\* ... and the live version lets go of no session.
KeepsUses(b, c) == \A s \in Sessions : Uses(b.reg, s) => Uses(c.reg, s)

Mild(b, c, S) == Became(b, c, S) /\ KeepsUses(b, c)

\* Saving nothing changes nothing.
LEMMA BecameItself == ASSUME NEW b \in Stores, StoreOK(b) PROVE Mild(b, b, {})
BY FollowsItself DEF Stores, Mild, Became, KeepsUses

\* Sequences of saves compose ...
LEMMA BecameOn ==
    ASSUME NEW b \in Stores, NEW c \in Stores, NEW d \in Stores, NEW S, NEW X,
           Became(b, c, S), Became(c, d, X)
    PROVE  Became(b, d, S \cup X)
<1>1. Follows(b.reg, d.reg) /\ (Follows(c.reg, d.vis) => Follows(b.reg, d.vis))
      /\ (Follows(c.reg, d.disk) => Follows(b.reg, d.disk))
  BY FollowsOn DEF Stores, Became
<1> QED BY <1>1 DEF Became

\* ... and so do those that let go of nothing.
LEMMA MildOn ==
    ASSUME NEW b \in Stores, NEW c \in Stores, NEW d \in Stores, NEW S, NEW X,
           Mild(b, c, S), Mild(c, d, X)
    PROVE  Mild(b, d, S \cup X)
BY BecameOn DEF Mild, KeepsUses

\* No save, failed or not, revives a session that all versions let go of.
LEMMA BecameDead ==
    ASSUME NEW b \in Stores, NEW c \in Stores, NEW S, Became(b, c, S),
           NEW s \in Sessions, DeadIn(b, s)
    PROVE  DeadIn(c, s)
BY DeadStaysDead DEF Stores, Became, DeadIn

\* Such a session is recorded as complete by no version.
LEMMA DeadIsUnrecorded ==
    ASSUME NEW b \in Stores, StoreOK(b), NEW s \in Sessions, DeadIn(b, s)
    PROVE  s \notin Recorded(b)
BY CompletedIsOffered DEF Stores, StoreOK, DeadIn, Recorded

\* A save of n succeeds, keeps n in the live table, or takes it back.
LEMMA SavesBecome ==
    ASSUME NEW b \in Stores, StoreOK(b), NEW n \in Task, NEW S, Succeeds(b.reg, n, S),
           NEW policy, NEW o \in Saves(b, n, policy)
    PROVE  /\ o.store \in Stores /\ o.ok \in BOOLEAN
           /\ Became(b, o.store, S)
           /\ o.ok => o.store = Durable(b, n)
           /\ ~o.ok => faults < MaxFaults
           /\ o.store.reg \in {b.reg, n}
           /\ policy = "keep" => o.store.reg = n
           /\ policy = "destructive" /\ ~o.ok => o.store.reg = b.reg /\ o.store.vis = b.vis
<1> DEFINE c == o.store
<1>1. \/ o.ok = TRUE /\ c = Durable(b, n)
      \/ o.ok = FALSE /\ faults < MaxFaults /\ c \in FailedSaves(b, n, policy)
  BY DEF Saves
<1>2. CASE c = Durable(b, n)
  <2>1. c \in Stores /\ c.reg = n /\ c.vis = n /\ c.disk = n /\ c.avail = TRUE
    BY <1>2 DEF Durable, Stores
  <2>2. StoreOK(c)
    BY <2>1, FollowsItself DEF StoreOK, Succeeds
  <2>3. Became(b, c, S)
    BY <2>1, <2>2 DEF Became, Succeeds, Recorded
  <2> QED BY <1>1, <1>2, <2>1, <2>3 DEF FailedSaves, Durable
<1>3. CASE c \in FailedSaves(b, n, policy) /\ o.ok = FALSE /\ faults < MaxFaults
  <2>1. /\ c \in Stores /\ c.avail = FALSE /\ c.disk \in {b.disk, n}
        /\ \/ c.reg = b.reg /\ c.vis = b.vis
           \/ c.reg = n /\ c.vis = b.vis /\ policy = "keep"
           \/ c.reg = n /\ c.vis = n /\ policy # "destructive"
        /\ policy = "keep" => c.reg = n
    <3>1. CASE c = [b EXCEPT !.reg = IF policy = "keep" THEN n ELSE b.reg, !.avail = FALSE]
      BY <3>1 DEF Stores
    <3>2. CASE \E d \in {b.disk, n} :
                  c = IF policy = "destructive" THEN [b EXCEPT !.disk = d, !.avail = FALSE]
                      ELSE [reg |-> n, vis |-> n, disk |-> d, avail |-> FALSE]
      <4>1. PICK d \in {b.disk, n} :
                  c = IF policy = "destructive" THEN [b EXCEPT !.disk = d, !.avail = FALSE]
                      ELSE [reg |-> n, vis |-> n, disk |-> d, avail |-> FALSE]
        BY <3>2
      <4>2. CASE policy = "destructive"
        BY <4>1, <4>2 DEF Stores
      <4>3. CASE policy # "destructive"
        BY <4>1, <4>3 DEF Stores
      <4> QED BY <4>2, <4>3
    <3> QED BY <1>3, <3>1, <3>2 DEF FailedSaves
  <2>2. Follows(b.vis, n) /\ Follows(n, n) /\ Follows(b.reg, b.reg)
    BY FollowsOn, FollowsItself DEF Stores, StoreOK, Succeeds
  <2>3. StoreOK(c)
    BY <2>1, <2>2 DEF StoreOK, Succeeds
  <2>4. Became(b, c, S)
    BY <2>1, <2>2, <2>3 DEF Became, Succeeds, Recorded
  <2> QED BY <1>3, <2>1, <2>4
<1> QED BY <1>1, <1>2, <1>3

\* A retry of pending persistence makes the live version durable or changes
\* only what is visible and saved.
LEMMA RecoveriesBecome ==
    ASSUME store \in Stores, StoreOK(store), NEW r \in Recoveries
    PROVE  /\ r.store \in Stores /\ r.ok \in BOOLEAN
           /\ Mild(store, r.store, {}) /\ r.store.reg = store.reg
           /\ r.ok => /\ r.store.avail = TRUE
                   /\ r.store.vis = store.reg /\ r.store.disk = store.reg
           /\ ~r.ok => r.store = store \/ faults < MaxFaults
<1>1. CASE store.avail
  <2>1. r.ok = TRUE /\ r.store = store
    BY <1>1 DEF Recoveries
  <2> QED BY <1>1, <2>1, BecameItself DEF Stores, StoreOK
<1>2. CASE ~store.avail
  <2>1. r \in Saves(store, store.reg, "keep")
    BY <1>2 DEF Recoveries
  <2>2. store.reg \in Task /\ Succeeds(store.reg, store.reg, {})
    BY FollowsItself DEF Stores, StoreOK, Succeeds
  <2>3. /\ r.store \in Stores /\ r.ok \in BOOLEAN /\ Became(store, r.store, {})
        /\ r.store.reg = store.reg /\ (~r.ok => faults < MaxFaults)
        /\ r.ok => r.store = Durable(store, store.reg)
    BY <2>1, <2>2, SavesBecome
  <2>4. Mild(store, r.store, {})
    BY <2>3 DEF Mild, KeepsUses
  <2>5. LET d == Durable(store, store.reg)
        IN d.avail = TRUE /\ d.vis = store.reg /\ d.disk = store.reg
    BY DEF Durable
  <2> QED BY <2>3, <2>4, <2>5
<1> QED BY <1>1, <1>2

\* Recording the status of a fill changes nothing else of the task.
LEMMA StatusSavesBecome ==
    ASSUME NEW b \in Stores, StoreOK(b), NEW s \in Sessions, NEW failed \in BOOLEAN,
           NEW o \in StatusSaves(b, s, failed)
    PROVE  /\ o.store \in Stores /\ o.ok \in BOOLEAN
           /\ Mild(b, o.store, {})
           /\ o.store.reg.state = b.reg.state /\ o.store.reg.item = b.reg.item
           /\ ~o.ok => faults < MaxFaults \/ (o.store = b /\ b.reg.state = "Gone")
<1> DEFINE X == IF failed THEN b.reg.failed \cup {s} ELSE b.reg.failed \ {s}
           t == [b.reg EXCEPT !.failed = X]
<1>1. b.reg \in Task /\ X \in SUBSET Sessions /\ Shape(b.reg)
  BY DEF Stores, Task, StoreOK
<1>2. /\ t \in Task /\ Succeeds(b.reg, t, {})
      /\ \A x \in Sessions : Uses(b.reg, x) <=> Uses(t, x)
      /\ t.state = b.reg.state /\ t.item = b.reg.item
  <2> HIDE DEF X
  <2> QED BY <1>1, StatusSucceeds
<1>3. t = IF failed THEN [b.reg EXCEPT !.failed = @ \cup {s}]
                    ELSE [b.reg EXCEPT !.failed = @ \ {s}]
  OBVIOUS
<1> HIDE DEF t
<1>4. \/ o \in Saves(b, t, "restore")
      \/ o = [ok |-> t.state # "Gone", store |-> b]
  BY <1>3 DEF StatusSaves
<1>5. CASE o \in Saves(b, t, "restore")
  <2>1. /\ o.store \in Stores /\ o.ok \in BOOLEAN /\ Became(b, o.store, {})
        /\ o.store.reg \in {b.reg, t} /\ (~o.ok => faults < MaxFaults)
    BY <1>2, <1>5, SavesBecome
  <2>2. KeepsUses(b, o.store)
    BY <2>1, <1>2 DEF KeepsUses
  <2> QED BY <2>1, <2>2, <1>2 DEF Mild
<1>6. CASE o = [ok |-> t.state # "Gone", store |-> b]
  BY <1>2, <1>6, BecameItself
<1> QED BY <1>4, <1>5, <1>6

\* Completing a session: afterwards it is recorded, or not the task's.
LEMMA CompletionSavesBecome ==
    ASSUME NEW b \in Stores, StoreOK(b), NEW s \in Sessions, NEW o \in CompletionSaves(b, s)
    PROVE  /\ o.store \in Stores /\ o.ok \in BOOLEAN
           /\ Mild(b, o.store, {s})
           /\ ~o.ok => faults < MaxFaults
           /\ o.ok => o.store.avail
           /\ o.ok => CompletedItem(o.store.reg, s) \/ ~Completable(o.store.reg, s)
<1>1. PICK r \in IF b.avail THEN {[ok |-> TRUE, store |-> b]} ELSE Saves(b, b.reg, "keep") :
          o \in IF r.ok /\ Completable(r.store.reg, s)
                THEN Saves(r.store, CompletedTask(r.store.reg, s), "keep") ELSE {r}
  BY DEF CompletionSaves
<1>2. /\ r.store \in Stores /\ r.ok \in BOOLEAN /\ Mild(b, r.store, {})
      /\ ~r.ok => faults < MaxFaults
      /\ r.ok => r.store.avail
  <2>1. CASE b.avail
    <3>1. r = [ok |-> TRUE, store |-> b]
      BY <1>1, <2>1
    <3> QED BY <3>1, <2>1, BecameItself
  <2>2. CASE ~b.avail
    <3>1. r \in Saves(b, b.reg, "keep")
      BY <1>1, <2>2
    <3>2. b.reg \in Task /\ Succeeds(b.reg, b.reg, {})
      BY FollowsItself DEF Stores, StoreOK, Succeeds
    <3>3. /\ r.store \in Stores /\ r.ok \in BOOLEAN /\ Became(b, r.store, {})
          /\ r.store.reg = b.reg /\ (~r.ok => faults < MaxFaults)
          /\ r.ok => r.store = Durable(b, b.reg)
      BY <3>1, <3>2, SavesBecome
    <3> QED BY <3>3 DEF Mild, KeepsUses, Durable
  <2> QED BY <2>1, <2>2
<1>3. CASE r.ok /\ Completable(r.store.reg, s)
  <2> DEFINE n == CompletedTask(r.store.reg, s)
  <2>1. r.store.reg \in Task /\ Shape(r.store.reg) /\ StoreOK(r.store)
    BY <1>2 DEF Stores, Mild, Became, StoreOK
  <2>2. /\ n \in Task /\ Succeeds(r.store.reg, n, {s}) /\ CompletedItem(n, s)
        /\ \A x \in Sessions : Uses(r.store.reg, x) => Uses(n, x)
    BY <2>1, <1>3, CompletedSucceeds
  <2>3. o \in Saves(r.store, n, "keep")
    BY <1>1, <1>3
  <2> HIDE DEF n
  <2>4. /\ o.store \in Stores /\ o.ok \in BOOLEAN /\ Became(r.store, o.store, {s})
        /\ o.store.reg = n /\ (~o.ok => faults < MaxFaults)
        /\ o.ok => o.store = Durable(r.store, n)
    BY <2>1, <2>2, <2>3, <1>2, SavesBecome, SMTT(60)
  <2>5. Mild(r.store, o.store, {s})
    BY <2>2, <2>4 DEF Mild, KeepsUses
  <2>6. Mild(b, o.store, {} \cup {s})
    BY ONLY <2>5, <2>4, <1>2, MildOn, b \in Stores
  <2>7. o.ok => o.store.avail
    BY <2>4 DEF Durable
  <2> QED BY <2>2, <2>4, <2>6, <2>7
<1>4. CASE ~(r.ok /\ Completable(r.store.reg, s))
  <2>1. o = r
    BY <1>1, <1>4
  <2>2. Mild(b, o.store, {s})
    BY <1>2, <2>1 DEF Mild, Became
  <2> QED BY <1>2, <1>4, <2>1, <2>2
<1> QED BY <1>3, <1>4

\* A session that cannot be restored is dropped only from a durable registry.
LEMMA LossBecomes ==
    ASSUME store \in Stores, StoreOK(store), NEW s \in Sessions,
           NEW o \in SavesOnceDurable(UnrestorableTask(store.reg, s), "destructive")
    PROVE  /\ o.store \in Stores /\ o.ok \in BOOLEAN
           /\ Became(store, o.store, {})
           /\ ~o.ok => KeepsUses(store, o.store)
           /\ ~o.ok => o.store = store \/ faults < MaxFaults
           /\ o.ok => o.store.vis = o.store.reg
<1> DEFINE n == UnrestorableTask(store.reg, s)
<1>1. PICK r \in Recoveries : o \in IF r.ok THEN Saves(r.store, n, "destructive") ELSE {r}
  BY DEF SavesOnceDurable
<1>2. n \in Task /\ Succeeds(store.reg, n, {})
  BY UnrestorableSucceeds DEF Stores, StoreOK
<1> HIDE DEF n
<1>3. /\ r.store \in Stores /\ r.ok \in BOOLEAN
      /\ Mild(store, r.store, {}) /\ r.store.reg = store.reg
      /\ ~r.ok => r.store = store \/ faults < MaxFaults
  BY RecoveriesBecome
<1>4. CASE r.ok
  <2>1. StoreOK(r.store) /\ Succeeds(r.store.reg, n, {}) /\ o \in Saves(r.store, n, "destructive")
    BY <1>1, <1>2, <1>3, <1>4 DEF Mild, Became
  <2>2. /\ o.store \in Stores /\ o.ok \in BOOLEAN /\ Became(r.store, o.store, {})
        /\ ~o.ok => faults < MaxFaults /\ o.store.reg = r.store.reg
        /\ o.ok => o.store = Durable(r.store, n)
    BY <1>2, <1>3, <2>1, SavesBecome
  <2>3. Became(store, o.store, {} \cup {})
    BY ONLY <1>3, <2>2, BecameOn, store \in Stores DEF Mild
  <2>4. ~o.ok => KeepsUses(store, o.store)
    BY <2>2, <1>3 DEF KeepsUses
  <2>5. o.ok => o.store.vis = o.store.reg
    BY <2>2 DEF Durable
  <2> QED BY <2>2, <2>3, <2>4, <2>5
<1>5. CASE ~r.ok
  BY <1>1, <1>3, <1>5 DEF Mild
<1> QED BY <1>4, <1>5

\* A save that fails counts as a fault, within the bound.
LEMMA SavedFaults ==
    ASSUME faults \in 0 .. MaxFaults, NEW o, o.ok \in BOOLEAN, Saved(o),
           ~o.ok => o.store = store \/ faults < MaxFaults
    PROVE  store' = o.store /\ faults' \in 0 .. MaxFaults
BY LifecycleAssumption DEF Saved

-----------------------------------------------------------------------------
(* Steps that touch no files: calls that come and go, saves, and the moves  *)
(* of the fill worker between them.                                         *)

\* A quota pass goes on with fewer entries, or is over.
PassShrinks ==
    \/ evictor' = NoScan
    \/ /\ evictor'.pc = evictor.pc
       /\ evictor'.completed \subseteq evictor.completed /\ evictor'.partial \subseteq evictor.partial
       /\ evictor'.spared = evictor.spared /\ evictor'.stable = evictor.stable

\* A step that may let go of sessions in the tables, if it takes them as due,
\* and may record those of S, which have their media.
RecordStep(S) ==
    /\ Became(store, store', S)
    /\ UNCHANGED <<cache, retired, pending, outdated>>
    /\ PassShrinks
    /\ \A s \in Sessions : Tracked(s) => Tracked(s)'
    /\ \A s \in Due' : s \in Due \/ DeadIn(store', s)
    /\ \A s \in S : cache[s] = "completed" /\ store.vis.state # "Preparing"
    /\ \A s \in Sessions : runtime'[s] = "local" =>
          runtime[s] = "local" \/ s \in S \/ (cache[s] = "completed" /\ evictor.pc = "idle")
    /\ evictor.pc = "scan" => \A s \in Sessions :
          cache[s] = "completed" /\ (s \in unsaved \/ Busy(s) \/ s \in S) =>
              s \in unsaved' \/ Busy(s)'

TableStep ==
    /\ Became(store, store', {})
    /\ UNCHANGED <<cache, retired, pending, outdated, unsaved>>
    /\ PassShrinks
    /\ \A s \in Sessions : Tracked(s) => Tracked(s)'
    /\ \A s \in Due' : s \in Due \/ DeadIn(store', s)
    /\ \A s \in Sessions : runtime'[s] = "local" =>
          runtime[s] = "local" \/ (cache[s] = "completed" /\ evictor.pc = "idle")

CalmStep ==
    /\ Became(store, store', {})
    /\ KeepsUses(store, store') \/ planner # "done"
    /\ UNCHANGED <<cache, retired, pending, lost, removal, outdated, unsaved>>
    /\ planner' = "done" <=> planner = "done"
    /\ evictor' \in {evictor, NoScan}
    /\ canceller'.todo = canceller.todo /\ canceller'.failed = canceller.failed
    /\ canceller'.pc = "idle" => canceller.pc = "idle"
    /\ startup'.quarantined = startup.quarantined
    /\ startup'.resume \subseteq startup.resume
    /\ startup'.resume # {} => current' = current
    /\ \A s \in Sessions : runtime'[s] = "local" =>
          runtime[s] = "local" \/ (cache[s] = "completed" /\ evictor.pc = "idle")

\* What the worker may do meanwhile.
WorkerMoves ==
    /\ current' \subseteq current \/ \E s \in Sessions : current' = {s}
    /\ worker'.pc \in {"protect", "fill", "publish", "settle", "discard"} =>
          store'.vis.state # "Preparing"
    /\ worker'.pc = "fill" => \A s \in current' :
          /\ cache[s] # "completed"
          /\ \/ worker.pc = "fill" /\ s \in current
             \/ Uses(store'.reg, s) \/ planner' # "done"
    /\ worker'.pc = "protect" /\ planner' = "done" => \A s \in current' :
          Uses(store'.vis, s) => Uses(store'.reg, s)

WorkerTurn ==
    /\ WorkerMoves
    /\ worker'.pc = "discard" => worker.pc = "discard" /\ current' \subseteq current
    /\ evictor.pc = "scan" => \A e \in Sessions : Busy(e) /\ cache[e] = "completed" => Busy(e)'

\* A visible plan stays one, and sessions the tables agree on are not lost.
LEMMA PlannedStays ==
    ASSUME IInv, store' \in Stores, NEW S, Became(store, store', S)
    PROVE  /\ store.vis.state # "Preparing" =>
                 store.reg.state # "Preparing" /\ store'.vis.state # "Preparing"
                 /\ store'.reg.state # "Preparing"
           /\ KeepsUses(store, store') => \A s \in Sessions :
                 store.vis.state # "Preparing" /\ (Uses(store.vis, s) => Uses(store.reg, s)) =>
                    (Uses(store'.vis, s) => Uses(store'.reg, s))
BY DEF IInv, StoreOK, Became, Follows, KeepsUses

\* A step that leaves the fill worker alone is no turn of its own.
LEMMA WorkerStays ==
    ASSUME IInv, store' \in Stores, Became(store, store', {}),
           \/ KeepsUses(store, store') \/ store'.vis = store'.reg
           \/ planner # "done",
           planner' = "done" <=> planner = "done",
           UNCHANGED <<current, worker>>
    PROVE  WorkerTurn
<1>1. worker.pc \in {"protect", "fill", "publish", "settle", "discard"} =>
          store.vis.state # "Preparing" /\ store'.vis.state # "Preparing"
  BY PlannedStays DEF IInv, Fresh
<1>2. current \subseteq Sessions
  BY DEF IInv, TypeOK
<1>3. worker.pc = "protect" /\ planner = "done" => \A s \in current :
          Uses(store'.vis, s) => Uses(store'.reg, s)
  BY <1>1, <1>2, PlannedStays DEF IInv, Filling
<1>4. worker.pc = "fill" => \A s \in current : cache[s] # "completed"
  BY DEF IInv, Filling
<1> QED BY <1>1, <1>2, <1>3, <1>4 DEF WorkerTurn, WorkerMoves, Busy

\* What is due for removal are sessions of the task ...
LEMMA DueSessions == TypeOK => Due \subseteq Sessions
<1> SUFFICES ASSUME TypeOK PROVE Due \subseteq Sessions
  OBVIOUS
<1>1. \A k \in Keys : pending[k] \subseteq Sessions
  BY DEF TypeOK
<1>2. PendingCleanups \subseteq Sessions
  BY <1>1 DEF PendingCleanups
<1>3. /\ removal.sessions \subseteq Sessions /\ current \subseteq Sessions
      /\ canceller.todo \subseteq Sessions /\ canceller.failed \subseteq Sessions
  BY DEF TypeOK
<1> QED BY <1>2, <1>3 DEF Due

\* ... after a step as well.
LEMMA DueSessionsNext == TypeOK' => Due' \subseteq Sessions
<1> SUFFICES ASSUME TypeOK' PROVE Due' \subseteq Sessions
  OBVIOUS
<1>1. \A k \in Keys : pending'[k] \subseteq Sessions
  BY DEF TypeOK
<1>2. PendingCleanups' \subseteq Sessions
  BY <1>1 DEF PendingCleanups
<1>3. /\ removal'.sessions \subseteq Sessions /\ current' \subseteq Sessions
      /\ canceller'.todo \subseteq Sessions /\ canceller'.failed \subseteq Sessions
  BY DEF TypeOK
<1> QED BY <1>2, <1>3 DEF Due

\* The general case: a step of the tables that touches no files and may record
\* complete sessions preserves the invariant.
LEMMA RecordsMove ==
    ASSUME IInv, TypeOK', NEW S \in SUBSET Sessions, RecordStep(S), WorkerMoves, Removing', Quiescent'
    PROVE  IInv'
<1>1. store \in Stores /\ store' \in Stores
  BY DEF IInv, TypeOK, Stores
<1>2. StoreOK(store) /\ StoreOK(store')
  BY DEF IInv, RecordStep, Became
<1>3. DueIsDead'
  <2>1. Due \subseteq Sessions
    BY DueSessions DEF IInv
  <2>2. \A s \in Due : DeadIn(store', s)
    BY <1>1, <2>1, BecameDead DEF IInv, DueIsDead, RecordStep
  <2> QED BY <2>2 DEF DueIsDead, RecordStep
<1>4. Recorded(store') \subseteq Recorded(store) \cup S
  BY DEF RecordStep, Became
<1>5. \A s \in Sessions : HasMedia(s)' = HasMedia(s)
  BY DEF RecordStep, HasMedia
<1>6. Media'
  <2>1. \A s \in Sessions : s \in Recorded(store') \/ runtime'[s] = "local" => HasMedia(s)
    BY <1>4 DEF IInv, Media, RecordStep, HasMedia
  <2> QED BY <1>5, <2>1 DEF Media
<1>7. Fresh'
  <2>1. store'.vis.state = "Preparing" => store.vis.state = "Preparing"
    BY <1>1, PlannedStays DEF RecordStep
  <2>2. evictor.completed = {} => evictor'.completed = {}
    BY DEF RecordStep, PassShrinks, NoScan
  <2> QED BY <2>1, <2>2 DEF IInv, Fresh, RecordStep, WorkerMoves
<1>9. HeldIsTracked'
  <2>1. ASSUME NEW s \in Sessions, Held(s)' PROVE Tracked(s)'
    <3>1. CASE Held(s)
      BY <3>1 DEF IInv, HeldIsTracked, RecordStep
    <3>2. CASE ~Held(s)
      <4>1. worker'.pc = "fill" /\ s \in current' /\ s \notin retired
        BY <3>2, <2>1 DEF Held, RecordStep
      <4>2. Uses(store'.reg, s) \/ planner' # "done"
        BY <4>1, <3>2 DEF WorkerMoves, Held
      <4> QED BY <4>2 DEF Tracked
    <3> QED BY <3>1, <3>2
  <2> QED BY <2>1 DEF HeldIsTracked
<1>10. Filling'
  BY DEF IInv, Filling, WorkerMoves, RecordStep
<1>11. Scanning'
  <2>1. CASE evictor'.pc = "scan" /\ evictor.pc = "scan" /\ evictor' # NoScan
    <3>1. \A e \in evictor'.partial :
            cache[e] = "completed" /\ (e \in Recorded(store') \/ runtime'[e] = "local") =>
              e \in unsaved' \/ Busy(e)'
      <4>1. evictor'.partial \subseteq evictor.partial /\ evictor.partial \subseteq Sessions
        BY <2>1 DEF IInv, TypeOK, RecordStep, PassShrinks
      <4>2. \A e \in Sessions : cache[e] = "completed" /\ (e \in unsaved \/ Busy(e) \/ e \in S) =>
              e \in unsaved' \/ Busy(e)'
        BY <2>1 DEF RecordStep
      <4>3. \A e \in Sessions : runtime'[e] = "local" => runtime[e] = "local" \/ e \in S
        BY <2>1 DEF RecordStep
      <4> QED BY <2>1, <4>1, <4>2, <4>3, <1>4 DEF IInv, Scanning
    <3>2. \A e \in evictor'.completed \ evictor.stable :
            store'.reg.state = "Playable" => ~Uses(store'.reg, e)
      <4>1. evictor'.completed \subseteq evictor.completed /\ evictor.completed \subseteq Sessions
        BY <2>1 DEF IInv, TypeOK, RecordStep, PassShrinks
      <4>2. evictor.completed # {} => store.reg.state # "Preparing"
        BY <1>1, PlannedStays DEF IInv, Fresh, RecordStep
      <4>3. Follows(store.reg, store'.reg)
        BY DEF RecordStep, Became
      <4>4. store.reg.state \notin {"Preparing", "Playable"} => store'.reg.state # "Playable"
        BY <4>3 DEF Follows
      <4>5. store.reg.state # "Preparing" =>
               \A e \in Sessions : Uses(store'.reg, e) => Uses(store.reg, e)
        BY <4>3 DEF Follows
      <4> QED BY <2>1, <4>1, <4>2, <4>4, <4>5 DEF IInv, Scanning
    <3>3. /\ evictor'.spared = evictor.spared /\ evictor'.stable = evictor.stable
          /\ evictor'.completed \subseteq evictor.completed
      BY <2>1 DEF RecordStep, PassShrinks
    <3> QED BY <2>1, <3>1, <3>2, <3>3 DEF IInv, Scanning, RecordStep
  <2>2. CASE evictor'.pc # "scan"
    BY <2>2 DEF Scanning
  <2>3. evictor'.pc = "scan" => evictor.pc = "scan" /\ evictor' # NoScan
    BY DEF RecordStep, PassShrinks, NoScan
  <2> QED BY <2>1, <2>2, <2>3
<1> QED BY <1>2, <1>3, <1>6, <1>7, <1>9, <1>10, <1>11 DEF IInv

\* ... and one that records nothing.
LEMMA TablesMove ==
    ASSUME IInv, TypeOK', TableStep, WorkerTurn, Removing', Quiescent'
    PROVE  IInv'
<1>1. RecordStep({}) /\ WorkerMoves
  BY DEF TableStep, WorkerTurn, RecordStep
<1> QED BY <1>1, RecordsMove

\* The common case: neither files nor removals change, and nothing is let go.
LEMMA Calm ==
    ASSUME IInv, TypeOK', CalmStep, WorkerTurn
    PROVE  IInv'
<1>1. Due' \subseteq Due
  BY DEF CalmStep, WorkerTurn, WorkerMoves, Due, PendingCleanups
<1>2. \A s \in Sessions : Tracked(s) => Tracked(s)'
  BY DEF CalmStep, Tracked, KeepsUses
<1>3. PassShrinks
  BY DEF CalmStep, PassShrinks
<1>4. TableStep
  BY <1>1, <1>2, <1>3 DEF CalmStep, TableStep
<1>5. Removing'
  BY DEF IInv, Removing, CalmStep, Emptied, NoScan
<1>6. Quiescent'
  BY DEF IInv, Quiescent, CalmStep, NoScan
<1> QED BY <1>4, <1>5, <1>6, TablesMove

\* Steps that do not save.
LEMMA StoreStays ==
    ASSUME IInv, UNCHANGED store
    PROVE  store \in Stores /\ Became(store, store', {}) /\ KeepsUses(store, store')
BY BecameItself DEF IInv, TypeOK, Stores, Mild

\* Take starts the worker on a queued session.
LEMMA TakeCalm ==
    ASSUME IInv, NEW s \in Sessions, Take(s), startup.resume = {}
    PROVE  IInv'
<1>1. TypeOK'
  <2>1. /\ worker' \in [pc : {"start"}, outcome : Outcomes]
        /\ current' = {s} /\ current' # {} /\ queued' \in SUBSET Sessions
        /\ current' \in SUBSET Sessions /\ revoked' \in BOOLEAN
    BY DEF IInv, TypeOK, Take, Goes
  <2>2. worker'.pc = "start" /\ worker' \in [pc : {"idle", "start", "protect", "fill", "publish",
                "settle", "discard", "decide", "finish"}, outcome : Outcomes]
    BY <2>1
  <2> QED BY <2>1, <2>2 DEF IInv, TypeOK, Take, cacheVars
<1>2. CalmStep
  <2>1. startup'.resume # {} => startup.resume # {}
    BY DEF Take
  <2> QED BY StoreStays DEF IInv, Take, Goes, cacheVars, CalmStep
<1>3. WorkerTurn
  BY DEF IInv, TypeOK, Take, Goes, cacheVars, WorkerTurn, WorkerMoves, Busy
<1> QED BY <1>1, <1>2, <1>3, Calm

\* Protect fills only a published session, which the task uses.
LEMMA ProtectCalm ==
    ASSUME IInv, Protect
    PROVE  IInv'
<1>1. PICK s \in current :
          \/ Cancelled(s) /\ Ends("Finished")
          \/ ~Cancelled(s) /\ Goes(IF cache[s] = "completed" THEN "publish" ELSE "fill")
  BY DEF Protect
<1>2. TypeOK'
  BY <1>1 DEF IInv, TypeOK, Protect, Goes, Ends, cacheVars, Outcomes
<1>3. CalmStep
  BY StoreStays DEF IInv, Protect, cacheVars, CalmStep
<1>4. WorkerTurn
  <2>1. \A x \in current : x = s
    BY <1>1 DEF IInv, Filling
  <2>2. s \in Sessions
    BY <1>1 DEF IInv, TypeOK
  <2>3. ~Cancelled(s) => Ready(store.vis) /\ store.vis.state # "Preparing" /\ Uses(store.vis, s)
    <3>1. ~Cancelled(s) => PlayableSession(store.vis, s)
      BY DEF Cancelled, Publication
    <3> QED BY <3>1 DEF PlayableSession, Ready, Uses
  <2>4. ~Cancelled(s) => Uses(store.reg, s) \/ planner # "done"
    BY <2>3, <1>1 DEF IInv, Filling, Protect
  <2>5. UNCHANGED <<store, cache, current, planner>> /\ worker.pc = "protect"
    BY DEF Protect, cacheVars
  <2>6. CASE Cancelled(s) /\ Ends("Finished")
    BY <2>5, <2>6 DEF WorkerTurn, WorkerMoves, Ends, Busy
  <2>7. CASE ~Cancelled(s) /\ cache[s] = "completed" /\ Goes("publish")
    BY <2>3, <2>5, <2>7 DEF WorkerTurn, WorkerMoves, Goes, Busy, IInv, TypeOK
  <2>8. CASE ~Cancelled(s) /\ cache[s] # "completed" /\ Goes("fill")
    BY <2>1, <2>3, <2>4, <2>5, <2>8 DEF WorkerTurn, WorkerMoves, Goes, Busy, IInv, TypeOK
  <2> QED BY <1>1, <2>6, <2>7, <2>8
<1> QED BY <1>2, <1>3, <1>4, Calm

\* Settle waits for Q, so no quota pass sees the worker leave.
LEMMA SettleCalm ==
    ASSUME IInv, Settle
    PROVE  IInv'
<1>1. TypeOK'
  BY DEF IInv, TypeOK, Settle, Ends, cacheVars, Outcomes
<1>2. CalmStep
  BY StoreStays DEF IInv, Settle, cacheVars, CalmStep
<1>3. WorkerTurn
  BY DEF IInv, TypeOK, Settle, QFree, Ends, cacheVars, WorkerTurn, WorkerMoves, Busy
<1> QED BY <1>1, <1>2, <1>3, Calm

\* Finish queues the session again or drops it.
LEMMA FinishCalm ==
    ASSUME IInv, Finish, startup.resume = {}
    PROVE  IInv'
<1>1. TypeOK'
  <2>1. {s \in current : ShouldRequeue(s) /\ ~revoked} \subseteq Sessions
    BY DEF IInv, TypeOK
  <2> QED BY <2>1 DEF IInv, TypeOK, Finish, cacheVars, Outcomes
<1>2. CalmStep
  BY StoreStays DEF IInv, Finish, cacheVars, CalmStep
<1>3. WorkerTurn
  BY DEF IInv, TypeOK, Finish, cacheVars, WorkerTurn, WorkerMoves, Busy
<1> QED BY <1>1, <1>2, <1>3, Calm

\* Waiting cancellations, the end of a quota pass, and clients.
LEMMA IdleCalm ==
    ASSUME IInv,
           \/ CancelDrained \/ EvictEnd
           \/ \E s \in Sessions : Serve(s) \/ ServeRefused(s) \/ EndRead(s) \/ LeaseExpires(s)
    PROVE  IInv'
<1>1. CASE CancelDrained
  <2>1. TypeOK'
    BY <1>1 DEF IInv, TypeOK, CancelDrained, CancelFills, cacheVars
  <2>2. CalmStep
    BY <1>1, StoreStays DEF IInv, TypeOK, CancelDrained, CancelFills, cacheVars, CalmStep
  <2>3. WorkerTurn
    BY <1>1, WorkerStays, StoreStays DEF CancelDrained, CancelFills
  <2> QED BY <2>1, <2>2, <2>3, Calm
<1>2. CASE EvictEnd
  <2>1. TypeOK'
    BY <1>2 DEF IInv, TypeOK, EvictEnd, cacheVars, fillVars, NoScan
  <2>2. CalmStep
    BY <1>2, StoreStays DEF IInv, EvictEnd, cacheVars, fillVars, CalmStep
  <2>3. WorkerTurn
    BY <1>2, WorkerStays, StoreStays DEF EvictEnd, fillVars
  <2> QED BY <2>1, <2>2, <2>3, Calm
<1>3. CASE \E s \in Sessions : Serve(s)
  <2>1. PICK s \in Sessions : Serve(s)
    BY <1>3
  <2>2. Restored(s) \in {"online", "local"} /\ (Restored(s) = "local" =>
            runtime[s] = "local" \/ cache[s] = "completed")
    BY <2>1 DEF Restored, Serve, IInv, TypeOK
  <2>3. TypeOK'
    BY <2>1, <2>2 DEF IInv, TypeOK, Serve, fillVars
  <2>4. CalmStep
    BY <2>1, <2>2, StoreStays DEF IInv, TypeOK, Serve, QFree, fillVars, CalmStep
  <2>5. WorkerTurn
    BY <2>1, WorkerStays, StoreStays DEF Serve, fillVars
  <2> QED BY <2>3, <2>4, <2>5, Calm
<1>4. CASE \E s \in Sessions : ServeRefused(s)
  <2>1. PICK s \in Sessions : ServeRefused(s)
    BY <1>4
  <2>2. TypeOK'
    BY <2>1 DEF IInv, TypeOK, ServeRefused, StopServing, fillVars
  <2>3. CalmStep
    BY <2>1, StoreStays DEF IInv, TypeOK, ServeRefused, StopServing, fillVars, CalmStep
  <2>4. WorkerTurn
    BY <2>1, WorkerStays, StoreStays DEF ServeRefused, fillVars
  <2> QED BY <2>2, <2>3, <2>4, Calm
<1>5. CASE \E s \in Sessions : EndRead(s) \/ LeaseExpires(s)
  <2>1. PICK s \in Sessions : EndRead(s) \/ LeaseExpires(s)
    BY <1>5
  <2>2. TypeOK'
    BY <2>1 DEF IInv, TypeOK, EndRead, LeaseExpires, cacheVars, fillVars
  <2>3. CalmStep
    BY <2>1, StoreStays DEF IInv, EndRead, LeaseExpires, cacheVars, fillVars, CalmStep
  <2>4. WorkerTurn
    BY <2>1, WorkerStays, StoreStays DEF EndRead, LeaseExpires, fillVars
  <2> QED BY <2>2, <2>3, <2>4, Calm
<1> QED BY <1>1, <1>2, <1>3, <1>4, <1>5

\* A recovery and then a save.
LEMMA MildOnward ==
    ASSUME NEW b \in Stores, NEW c \in Stores, NEW d \in Stores, NEW S,
           Mild(b, c, {}), Mild(c, d, S)
    PROVE  Mild(b, d, S)
<1>1. Mild(b, d, {} \cup S)
  BY MildOn
<1>2. {} \cup S = S
  OBVIOUS
<1> QED BY <1>1, <1>2

\* Whatever the worker saves on its way leads from one calm point to another.
LEMMA AdmitCalm ==
    ASSUME IInv, Admit
    PROVE  IInv'
<1>1. PICK s \in current, r \in Recoveries :
          \/ /\ ~r.ok /\ Saved(r) /\ Ends("PersistencePending")
          \/ /\ r.ok /\ Saved(r) /\ Ends("Finished")
          \/ /\ r.ok
             /\ Ready(r.store.reg) /\ Uses(r.store.reg, s)
             /\ \E o \in StatusSaves(r.store, s, FALSE) :
                   /\ Saved(o)
                   /\ IF ~o.ok THEN Ends("PersistencePending")
                      ELSE IF ~revoked /\ PlayableSession(o.store.vis, s) THEN Goes("protect")
                      ELSE Ends("Finished")
  BY DEF Admit
<1>2. /\ worker.pc = "start" /\ s \in Sessions
      /\ UNCHANGED <<cacheVars, queued, current, revoked, planner, deleter, canceller,
                     evictor, removal, reader, lease, startup, crashes>>
      /\ \A x \in current : x = s
  BY <1>1 DEF Admit, IInv, TypeOK, Filling
<1>3. store \in Stores /\ StoreOK(store)
  BY DEF IInv, TypeOK, Stores
<1>4. /\ r.store \in Stores /\ r.ok \in BOOLEAN
      /\ Mild(store, r.store, {}) /\ StoreOK(r.store)
      /\ ~r.ok => r.store = store \/ faults < MaxFaults
  BY <1>3, RecoveriesBecome DEF Mild, Became
<1>5. /\ store' \in Stores /\ faults' \in 0 .. MaxFaults /\ Mild(store, store', {})
      /\ worker' \in [pc : {"decide", "protect"}, outcome : Outcomes]
      /\ worker'.pc = "protect" => store'.vis.state # "Preparing" /\ Uses(store'.reg, s)
  <2>1. CASE Saved(r) /\ (Ends("PersistencePending") \/ Ends("Finished"))
    <3>1. store' = r.store /\ faults' \in 0 .. MaxFaults
      BY <1>4, <2>1, SavedFaults DEF IInv, TypeOK
    <3> QED BY <1>4, <2>1, <3>1 DEF Ends, Outcomes
  <2>2. ASSUME r.ok, Ready(r.store.reg), Uses(r.store.reg, s),
               NEW o \in StatusSaves(r.store, s, FALSE), Saved(o),
               IF ~o.ok THEN Ends("PersistencePending")
               ELSE IF ~revoked /\ PlayableSession(o.store.vis, s) THEN Goes("protect")
               ELSE Ends("Finished")
        PROVE  /\ store' \in Stores /\ faults' \in 0 .. MaxFaults /\ Mild(store, store', {})
               /\ worker' \in [pc : {"decide", "protect"}, outcome : Outcomes]
               /\ worker'.pc = "protect" => store'.vis.state # "Preparing" /\ Uses(store'.reg, s)
    <3>1. /\ o.store \in Stores /\ o.ok \in BOOLEAN
          /\ Mild(r.store, o.store, {})
          /\ o.store.reg.state = r.store.reg.state /\ o.store.reg.item = r.store.reg.item
          /\ ~o.ok => faults < MaxFaults \/ r.store.reg.state = "Gone"
      BY <1>2, <1>4, <2>2, StatusSavesBecome
    <3>2. ~o.ok => faults < MaxFaults
      BY <2>2, <3>1 DEF Ready
    <3>3. store' = o.store /\ faults' \in 0 .. MaxFaults
      BY <2>2, <3>1, <3>2, SavedFaults DEF IInv, TypeOK
    <3>4. Mild(store, o.store, {})
      BY <1>3, <1>4, <3>1, MildOnward
    <3>5. Uses(o.store.reg, s)
      BY <2>2, <3>1 DEF Uses, Ready
    <3>6. PlayableSession(o.store.vis, s) => o.store.vis.state # "Preparing"
      BY DEF PlayableSession
    <3>7. worker' \in [pc : {"decide", "protect"}, outcome : Outcomes]
      BY <2>2 DEF Ends, Goes, Outcomes, IInv, TypeOK
    <3>8. worker'.pc = "protect" => PlayableSession(o.store.vis, s)
      BY <2>2 DEF Ends, Goes
    <3> QED BY <3>1, <3>3, <3>4, <3>5, <3>6, <3>7, <3>8
  <2> QED BY <1>1, <2>1, <2>2
<1>6. TypeOK'
  BY <1>1, <1>2, <1>5 DEF IInv, TypeOK, Stores, cacheVars
<1>7. CalmStep
  BY <1>2, <1>5 DEF IInv, TypeOK, CalmStep, Mild, cacheVars
<1>8. WorkerTurn
  BY <1>2, <1>5 DEF WorkerTurn, WorkerMoves, Busy
<1> QED BY <1>6, <1>7, <1>8, Calm

\* A fill that stops early records its status at most.
LEMMA FillStopsCalm ==
    ASSUME IInv, NEW outcome \in {"Preempted", "Retry", "Failed", "Finished"}, FillStops(outcome)
    PROVE  IInv'
<1>1. /\ worker.pc = "fill"
      /\ UNCHANGED <<cacheVars, queued, current, revoked, planner, deleter, canceller,
                     evictor, removal, reader, lease, startup, crashes>>
  BY DEF FillStops
<1>2. store \in Stores /\ StoreOK(store)
  BY DEF IInv, TypeOK, Stores
<1>3. /\ store' \in Stores /\ faults' \in 0 .. MaxFaults /\ Mild(store, store', {})
      /\ worker' \in [pc : {"decide"}, outcome : Outcomes]
  <2>1. CASE UNCHANGED store /\ faults' \in 0 .. MaxFaults /\ \E c \in Outcomes : Ends(c)
    BY <1>2, <2>1, BecameItself DEF Ends
  <2>2. ASSUME NEW s \in current, faults < MaxFaults, faults' = faults + 1,
               NEW o \in StatusSaves(store, s, TRUE), store' = o.store,
               Ends(IF o.ok THEN "Failed" ELSE "PersistencePending")
        PROVE  /\ store' \in Stores /\ faults' \in 0 .. MaxFaults /\ Mild(store, store', {})
               /\ worker' \in [pc : {"decide"}, outcome : Outcomes]
    <3>1. s \in Sessions
      BY <2>2 DEF IInv, TypeOK
    <3>2. o.store \in Stores /\ Mild(store, o.store, {})
      BY <1>2, <2>2, <3>1, StatusSavesBecome
    <3>3. faults' \in 0 .. MaxFaults
      BY <2>2, LifecycleAssumption DEF IInv, TypeOK
    <3>4. worker' \in [pc : {"decide"}, outcome : Outcomes]
      BY <2>2 DEF Ends, Outcomes
    <3> QED BY <2>2, <3>2, <3>3, <3>4
  <2>3. PICK s \in current :
          \/ Ends("Preempted") /\ UNCHANGED <<store, faults>>
          \/ Ends("Retry") /\ Fault /\ UNCHANGED store
          \/ /\ faults < MaxFaults /\ faults' = faults + 1
             /\ \E o \in StatusSaves(store, s, TRUE) :
                   store' = o.store /\ Ends(IF o.ok THEN "Failed" ELSE "PersistencePending")
          \/ Ends("Finished") /\ UNCHANGED <<store, faults>>
    BY DEF FillStops
  <2>4. /\ faults \in 0 .. MaxFaults
        /\ Fault => faults' \in 0 .. MaxFaults
        /\ {"Preempted", "Retry", "Finished"} \subseteq Outcomes
    BY LifecycleAssumption DEF Fault, Outcomes, IInv, TypeOK
  <2>5. CASE Ends("Preempted") /\ UNCHANGED <<store, faults>>
    BY <2>1, <2>4, <2>5
  <2>6. CASE Ends("Retry") /\ Fault /\ UNCHANGED store
    BY <2>1, <2>4, <2>6
  <2>7. CASE Ends("Finished") /\ UNCHANGED <<store, faults>>
    BY <2>1, <2>4, <2>7
  <2> QED BY <2>2, <2>3, <2>5, <2>6, <2>7
<1>4. TypeOK'
  BY <1>1, <1>3 DEF IInv, TypeOK, Stores, cacheVars
<1>5. CalmStep
  BY <1>1, <1>3 DEF CalmStep, Mild, cacheVars
<1>6. WorkerTurn
  BY <1>1, <1>3 DEF WorkerTurn, WorkerMoves, Busy
<1> QED BY <1>4, <1>5, <1>6, Calm

\* Decide records the status of the outcome.
LEMMA DecideCalm ==
    ASSUME IInv, Decide
    PROVE  IInv'
<1>1. /\ worker.pc = "decide"
      /\ UNCHANGED <<cacheVars, queued, current, revoked, planner, deleter, canceller,
                     evictor, removal, reader, lease, startup, crashes>>
  BY DEF Decide
<1>2. store \in Stores /\ StoreOK(store)
  BY DEF IInv, TypeOK, Stores
<1>3. /\ store' \in Stores /\ faults' \in 0 .. MaxFaults /\ Mild(store, store', {})
      /\ worker' \in [pc : {"finish"}, outcome : Outcomes]
  <2>1. CASE Goes("finish") /\ UNCHANGED <<store, faults>>
    BY <1>2, <2>1, BecameItself DEF Goes, IInv, TypeOK
  <2>2. ASSUME NEW s \in current, NEW f \in BOOLEAN, NEW o \in StatusSaves(store, s, f), Saved(o),
               worker' = [pc |-> "finish", outcome |-> IF o.ok THEN worker.outcome
                                                       ELSE "PersistencePending"]
        PROVE  /\ store' \in Stores /\ faults' \in 0 .. MaxFaults /\ Mild(store, store', {})
               /\ worker' \in [pc : {"finish"}, outcome : Outcomes]
    <3>1. s \in Sessions
      BY <2>2 DEF IInv, TypeOK
    <3>2. /\ o.store \in Stores /\ o.ok \in BOOLEAN /\ Mild(store, o.store, {})
          /\ ~o.ok => faults < MaxFaults \/ o.store = store
      BY <1>2, <2>2, <3>1, StatusSavesBecome
    <3>3. store' = o.store /\ faults' \in 0 .. MaxFaults
      BY <2>2, <3>2, SavedFaults DEF IInv, TypeOK
    <3>4. worker' \in [pc : {"finish"}, outcome : Outcomes]
      BY <2>2 DEF Outcomes, IInv, TypeOK
    <3> QED BY <3>2, <3>3, <3>4
  <2> QED BY <2>1, <2>2 DEF Decide
<1>4. TypeOK'
  BY <1>1, <1>3 DEF IInv, TypeOK, Stores, cacheVars
<1>5. CalmStep
  BY <1>1, <1>3 DEF CalmStep, Mild, cacheVars
<1>6. WorkerTurn
  BY <1>1, <1>3 DEF WorkerTurn, WorkerMoves, Busy
<1> QED BY <1>4, <1>5, <1>6, Calm

\* What every step with a recovery in front starts from.
LEMMA Recovered ==
    ASSUME IInv, NEW r \in Recoveries
    PROVE  /\ store \in Stores /\ StoreOK(store) /\ r.store \in Stores /\ StoreOK(r.store)
           /\ r.ok \in BOOLEAN /\ Mild(store, r.store, {}) /\ r.store.reg = store.reg
           /\ store.reg \in Task /\ Shape(store.reg)
           /\ r.ok => r.store.avail /\ r.store.vis = store.reg /\ r.store.disk = store.reg
           /\ ~r.ok => r.store = store \/ faults < MaxFaults
           /\ Saved(r) => store' = r.store /\ faults' \in 0 .. MaxFaults
<1>1. store \in Stores /\ StoreOK(store) /\ store.reg \in Task /\ Shape(store.reg)
  BY DEF IInv, TypeOK, Stores, StoreOK
<1>2. /\ r.store \in Stores /\ r.ok \in BOOLEAN
      /\ Mild(store, r.store, {}) /\ r.store.reg = store.reg
      /\ r.ok => /\ r.store.avail = TRUE
                 /\ r.store.vis = store.reg /\ r.store.disk = store.reg
      /\ ~r.ok => r.store = store \/ faults < MaxFaults
  BY <1>1, RecoveriesBecome
<1>3. faults \in 0 .. MaxFaults
  BY DEF IInv, TypeOK
<1>4. Saved(r) => store' = r.store /\ faults' \in 0 .. MaxFaults
  BY <1>2, <1>3, SavedFaults
<1>5. StoreOK(r.store)
  BY <1>2 DEF Mild, Became
<1> QED BY <1>1, <1>2, <1>4, <1>5

\* A save of n on a registry that was made durable first.
LEMMA SavedAfter ==
    ASSUME IInv, NEW r \in Recoveries, NEW n \in Task, NEW S, Succeeds(store.reg, n, S),
           NEW policy, NEW o \in Saves(r.store, n, policy), Saved(o)
    PROVE  /\ store' = o.store /\ store' \in Stores /\ faults' \in 0 .. MaxFaults
           /\ o.ok \in BOOLEAN /\ Became(store, store', S)
           /\ o.ok => store'.reg = n /\ store'.vis = n /\ store'.disk = n
           /\ policy = "keep" => store'.reg = n
           /\ policy = "destructive" /\ ~o.ok => store'.reg = store.reg
           /\ store'.reg \in {store.reg, n}
<1>1. /\ store \in Stores /\ r.store \in Stores /\ StoreOK(r.store)
      /\ Became(store, r.store, {}) /\ r.store.reg = store.reg /\ faults \in 0 .. MaxFaults
  BY Recovered DEF Mild, IInv, TypeOK
<1>2. /\ o.store \in Stores /\ o.ok \in BOOLEAN
      /\ Became(r.store, o.store, S)
      /\ o.ok => o.store = Durable(r.store, n)
      /\ ~o.ok => faults < MaxFaults
      /\ o.store.reg \in {store.reg, n}
      /\ policy = "keep" => o.store.reg = n
      /\ policy = "destructive" /\ ~o.ok => o.store.reg = store.reg
  <2>1. Succeeds(r.store.reg, n, S)
    BY <1>1
  <2> QED BY <1>1, <2>1, SavesBecome
<1>3. Became(store, o.store, {} \cup S) /\ {} \cup S = S
  BY <1>1, <1>2, BecameOn
<1>4. store' = o.store /\ faults' \in 0 .. MaxFaults
  BY <1>1, <1>2, SavedFaults
<1>5. o.ok => o.store.reg = n /\ o.store.vis = n /\ o.store.disk = n
  BY <1>2 DEF Durable
<1> QED BY <1>2, <1>3, <1>4, <1>5

\* Planning that fails ends the task and keeps the files for PlanCleanUp.
LEMMA PlanAbandonStep ==
    ASSUME IInv, PlanAbandon
    PROVE  IInv'
<1>1. /\ planner # "done" /\ planner' = "abandoning"
      /\ UNCHANGED <<cacheVars, fillVars, deleter, canceller, evictor, removal, reader,
                     lease, startup, crashes>>
  BY DEF PlanAbandon
<1>2. store \in Stores /\ StoreOK(store) /\ store.reg \in Task /\ Shape(store.reg)
  BY DEF IInv, TypeOK, Stores, StoreOK
<1>3. store' \in Stores /\ faults' \in 0 .. MaxFaults /\ Became(store, store', {})
  <2>1. ASSUME NEW r \in Recoveries, Saved(r)
        PROVE  store' \in Stores /\ faults' \in 0 .. MaxFaults /\ Became(store, store', {})
    BY <2>1, Recovered DEF Mild
  <2>2. ASSUME NEW o \in Saves(store, EndedTask(store.reg), "keep"), Saved(o)
        PROVE  store' \in Stores /\ faults' \in 0 .. MaxFaults /\ Became(store, store', {})
    <3> DEFINE n == EndedTask(store.reg)
    <3>1. n \in Task /\ Succeeds(store.reg, n, {}) /\ o \in Saves(store, n, "keep")
      BY <1>2, <2>2, EndedSucceeds
    <3> HIDE DEF n
    <3>2. /\ o.store \in Stores /\ o.ok \in BOOLEAN /\ Became(store, o.store, {})
          /\ ~o.ok => faults < MaxFaults
      BY <1>2, <3>1, SavesBecome
    <3> QED BY <3>2, <2>2, SavedFaults DEF IInv, TypeOK
  <2> QED BY <2>1, <2>2 DEF PlanAbandon
<1>4. TypeOK'
  BY <1>1, <1>3 DEF IInv, TypeOK, Stores, cacheVars, fillVars
<1>5. CalmStep
  BY <1>1, <1>3 DEF CalmStep, cacheVars, fillVars
<1>6. WorkerTurn
  BY <1>1, <1>3, WorkerStays DEF fillVars
<1> QED BY <1>4, <1>5, <1>6, Calm

\* A cancellation that ends the task takes all of its sessions as due.
LEMMA CancelTaskStep ==
    ASSUME IInv, CancelTask
    PROVE  IInv'
<1>1. /\ canceller.pc = "idle" /\ canceller.todo = {} /\ canceller.failed = {}
      /\ UNCHANGED <<cacheVars, planner, deleter, evictor, removal, reader, lease, startup,
                     crashes, current, worker>>
  BY DEF CancelTask, CancelFills, fillVars, IInv, Quiescent
<1>2. queued' \in SUBSET Sessions /\ revoked' \in BOOLEAN
  BY DEF CancelTask, CancelFills, fillVars, IInv, TypeOK
<1>3. ASSUME store' \in Stores, faults' \in 0 .. MaxFaults, Mild(store, store', {}),
             \/ canceller' = canceller
             \/ canceller' = [canceller EXCEPT !.pc = "draining"]
      PROVE  IInv'
  <2>1. TypeOK'
    BY <1>1, <1>2, <1>3 DEF IInv, TypeOK, Stores, cacheVars
  <2>2. CalmStep
    BY <1>1, <1>3 DEF CalmStep, Mild, cacheVars, IInv, TypeOK
  <2>3. WorkerTurn
    BY <1>1, <1>3, WorkerStays DEF Mild
  <2> QED BY <2>1, <2>2, <2>3, Calm
<1>4. ASSUME NEW r \in Recoveries, Saved(r),
             \/ canceller' = canceller
             \/ canceller' = [canceller EXCEPT !.pc = "draining"]
      PROVE  IInv'
  BY <1>3, <1>4, Recovered
<1>5. ASSUME NEW r \in Recoveries, r.ok, r.store.vis.state = "Preparing", UNCHANGED canceller,
             NEW o \in Saves(r.store, [r.store.reg EXCEPT !.state = "CancelRequested"], "keep"),
             Saved(o)
      PROVE  IInv'
  <2> DEFINE n == [r.store.reg EXCEPT !.state = "CancelRequested"]
  <2>1. /\ r.store.reg = store.reg /\ store.reg.state = "Preparing"
        /\ store.reg \in Task /\ Shape(store.reg)
    BY <1>5, Recovered
  <2>2. /\ n \in Task /\ Succeeds(store.reg, n, {}) /\ o \in Saves(r.store, n, "keep")
        /\ \A s \in Sessions : Uses(store.reg, s) => Uses(n, s)
    BY <1>5, <2>1, CancelledSucceeds
  <2> HIDE DEF n
  <2>3. /\ store' \in Stores /\ faults' \in 0 .. MaxFaults /\ Became(store, store', {})
        /\ store'.reg = n
    BY <1>5, <2>2, SavedAfter
  <2> QED BY <1>3, <1>5, <2>2, <2>3 DEF Mild, KeepsUses
<1>6. ASSUME NEW r \in Recoveries, r.ok, r.store.vis.state = "Playable",
             NEW o \in Saves(r.store, EndedTask(r.store.reg), "destructive"), Saved(o),
             \/ /\ o.ok
                /\ canceller' = [pc |-> "draining", failed |-> {}, todo |-> HlsSessions(r.store.reg)]
             \/ ~o.ok /\ UNCHANGED canceller
      PROVE  IInv'
  <2> DEFINE n == EndedTask(store.reg)
  <2>1. r.store.reg = store.reg /\ store.reg \in Task /\ Shape(store.reg)
    BY <1>6, Recovered
  <2>2. /\ n \in Task /\ Succeeds(store.reg, n, {}) /\ o \in Saves(r.store, n, "destructive")
        /\ \A s \in Sessions : Dead(n, s)
    BY <1>6, <2>1, EndedSucceeds
  <2> HIDE DEF n
  <2>3. /\ store' \in Stores /\ faults' \in 0 .. MaxFaults /\ Became(store, store', {})
        /\ o.ok \in BOOLEAN
        /\ o.ok => store'.reg = n /\ store'.vis = n /\ store'.disk = n
        /\ ~o.ok => store'.reg = store.reg
    BY <1>6, <2>2, SavedAfter
  <2>4. CASE ~o.ok
    BY <1>3, <1>6, <2>3, <2>4 DEF Mild, KeepsUses
  <2>5. CASE o.ok
    <3>1. /\ canceller'.pc = "draining" /\ canceller'.failed = {}
          /\ canceller'.todo = HlsSessions(store.reg) /\ canceller'.todo \subseteq Sessions
          /\ canceller' \in [pc : {"idle", "draining", "removing"}, todo : SUBSET Sessions,
                             failed : SUBSET Sessions]
      BY <1>6, <2>1, <2>5 DEF HlsSessions
    <3>2. TypeOK'
      BY <1>1, <1>2, <2>3, <3>1 DEF IInv, TypeOK, Stores, cacheVars
    <3>3. \A s \in Sessions : Tracked(s) => Tracked(s)'
      BY <1>1, <3>1 DEF Tracked, HlsSessions, cacheVars
    <3>4. \A s \in Due' : s \in Due \/ DeadIn(store', s)
      <4>1. \A s \in Sessions : DeadIn(store', s)
        BY <2>2, <2>3, <2>5 DEF DeadIn
      <4> QED BY <1>1, <3>1, <4>1 DEF Due, PendingCleanups, cacheVars
    <3>5. TableStep
      BY <1>1, <2>3, <3>3, <3>4 DEF TableStep, PassShrinks, cacheVars
    <3>6. WorkerTurn
      BY <1>1, <2>3, <2>5, WorkerStays
    <3>7. Removing' /\ Quiescent'
      BY <1>1, <3>1 DEF IInv, Removing, Quiescent, Emptied, cacheVars
    <3> QED BY <3>2, <3>5, <3>6, <3>7, TablesMove
  <2> QED BY <2>3, <2>4, <2>5
<1>7. PICK r \in Recoveries :
          \/ Saved(r) /\ UNCHANGED canceller
          \/ /\ Saved(r)
             /\ canceller' = canceller \/ canceller' = [canceller EXCEPT !.pc = "draining"]
          \/ /\ r.ok /\ r.store.vis.state = "Preparing"
             /\ \E o \in Saves(r.store, [r.store.reg EXCEPT !.state = "CancelRequested"], "keep") :
                   Saved(o)
             /\ UNCHANGED canceller
          \/ /\ r.ok /\ r.store.vis.state = "Playable"
             /\ \E o \in Saves(r.store, EndedTask(r.store.reg), "destructive") :
                   /\ Saved(o)
                   /\ \/ /\ o.ok
                         /\ canceller' = [pc |-> "draining", failed |-> {},
                                          todo |-> HlsSessions(r.store.reg)]
                      \/ ~o.ok /\ UNCHANGED canceller
  BY DEF CancelTask
<1> QED BY <1>4, <1>5, <1>6, <1>7

\* A session that cannot be restored is let go of, and then called lost.
LEMMA ServeLostStep ==
    ASSUME IInv, NEW s \in Sessions, ServeLost(s)
    PROVE  IInv'
<1>1. PICK o \in SavesOnceDurable(UnrestorableTask(store.reg, s), "destructive") :
          /\ Saved(o)
          /\ lost' = IF o.ok THEN lost \cup (HlsSessions(store.reg) \ HlsSessions(o.store.reg))
                    ELSE lost
  BY DEF ServeLost
<1>2. UNCHANGED <<cache, runtime, retired, pending, unsaved, outdated, fillVars, planner,
                  deleter, canceller, evictor, removal, reader, lease, startup, crashes>>
  BY DEF ServeLost
<1>3. store \in Stores /\ StoreOK(store)
  BY DEF IInv, TypeOK, Stores
<1>4. /\ o.store \in Stores /\ o.ok \in BOOLEAN
      /\ Became(store, o.store, {})
      /\ ~o.ok => KeepsUses(store, o.store)
      /\ ~o.ok => o.store = store \/ faults < MaxFaults
      /\ o.ok => o.store.vis = o.store.reg
  BY <1>3, LossBecomes
<1>5. store' = o.store /\ faults' \in 0 .. MaxFaults
  BY <1>1, <1>4, SavedFaults DEF IInv, TypeOK
<1>6. lost' \in SUBSET Sessions
  BY <1>1 DEF HlsSessions, IInv, TypeOK
<1>7. TypeOK'
  BY <1>2, <1>4, <1>5, <1>6 DEF IInv, TypeOK, Stores, fillVars
<1>8. WorkerTurn
  BY <1>2, <1>4, <1>5, WorkerStays DEF fillVars
<1>9. CASE ~o.ok
  <2>1. CalmStep
    BY <1>1, <1>2, <1>4, <1>5, <1>9 DEF CalmStep, fillVars
  <2> QED BY <2>1, <1>7, <1>8, Calm
<1>10. CASE o.ok
  <2>1. \A x \in Sessions : Uses(store.reg, x) => Uses(store'.reg, x) \/ x \in lost'
    BY <1>1, <1>5, <1>10 DEF HlsSessions
  <2>2. lost \subseteq lost'
    BY <1>1
  <2>3. \A x \in Sessions : Tracked(x) => Tracked(x)'
    BY <1>2, <2>1, <2>2 DEF Tracked
  <2>4. Due' = Due
    BY <1>2 DEF Due, PendingCleanups, fillVars
  <2>5. TableStep
    BY <1>2, <1>4, <1>5, <2>3, <2>4 DEF TableStep, PassShrinks
  <2>6. Removing' /\ Quiescent'
    BY <1>2 DEF IInv, Removing, Quiescent, Emptied, fillVars
  <2> QED BY <1>7, <1>8, <2>5, <2>6, TablesMove
<1> QED BY <1>4, <1>9, <1>10

\* Startup completes an item only when all of its files are there.
LEMMA ResumeStep ==
    ASSUME IInv, NEW s \in Sessions, Resume(s)
    PROVE  IInv'
<1>1. /\ s \in startup.resume
      /\ UNCHANGED <<cache, retired, pending, unsaved, outdated, lost, current, revoked, worker,
                     planner, deleter, canceller, evictor, removal, reader, lease, crashes>>
  BY DEF Resume
<1>2. evictor.pc = "idle" /\ current = {} /\ worker.pc = "idle"
  BY <1>1 DEF IInv, Quiescent, TypeOK
<1>3. /\ startup'.quarantined = startup.quarantined /\ startup'.resume \subseteq startup.resume
      /\ startup' \in [resume : SUBSET Sessions, quarantined : SUBSET Sessions,
                       owned : SUBSET Sessions]
      /\ queued' \in SUBSET Sessions
  <2>1. queued' = queued \/ queued' = queued \cup {s}
    BY DEF Resume
  <2>2. \/ startup' = [startup EXCEPT !.resume = @ \ {s}]
        \/ startup' = [startup EXCEPT !.resume = @ \ {s}, !.owned = @ \cup {s}]
    BY DEF Resume
  <2>3. startup \in [resume : SUBSET Sessions, quarantined : SUBSET Sessions, owned : SUBSET Sessions]
        /\ queued \in SUBSET Sessions
    BY DEF IInv, TypeOK
  <2> QED BY <2>1, <2>2, <2>3
<1>4. WorkerMoves
  BY <1>1, <1>2 DEF WorkerMoves
<1>5. CASE UNCHANGED <<store, runtime, faults>>
  <2>1. TypeOK'
    BY <1>1, <1>3, <1>5 DEF IInv, TypeOK
  <2>2. CalmStep
    BY <1>1, <1>3, <1>5, StoreStays DEF CalmStep
  <2>3. WorkerTurn
    BY <1>1, <1>2, <1>4 DEF WorkerTurn, Busy
  <2> QED BY <2>1, <2>2, <2>3, Calm
<1>6. ASSUME PlayableSession(store.vis, s), cache[s] = "completed",
             runtime' = [runtime EXCEPT ![s] = "local"],
             NEW o \in CompletionSaves(store, s), Saved(o)
      PROVE  IInv'
  <2>1. store \in Stores /\ StoreOK(store)
    BY DEF IInv, TypeOK, Stores
  <2>2. /\ o.store \in Stores /\ o.ok \in BOOLEAN /\ Mild(store, o.store, {s})
        /\ ~o.ok => faults < MaxFaults
    BY <1>6, <2>1, CompletionSavesBecome
  <2>3. store' = o.store /\ faults' \in 0 .. MaxFaults
    BY <1>6, <2>2, SavedFaults DEF IInv, TypeOK
  <2>4. TypeOK'
    BY <1>1, <1>3, <1>6, <2>2, <2>3 DEF IInv, TypeOK, Stores
  <2>5. store.vis.state # "Preparing"
    BY <1>6 DEF PlayableSession
  <2>6. \A x \in Sessions : runtime'[x] = "local" => runtime[x] = "local" \/ x \in {s}
    BY <1>6 DEF IInv, TypeOK
  <2>7. \A x \in Sessions : Tracked(x) => Tracked(x)'
    BY <1>1, <1>3, <2>2, <2>3 DEF Tracked, Mild, KeepsUses
  <2>8. Due' = Due
    BY <1>1 DEF Due, PendingCleanups
  <2>9. RecordStep({s})
    BY <1>1, <1>2, <1>6, <2>2, <2>3, <2>5, <2>6, <2>7, <2>8 DEF RecordStep, Mild, PassShrinks
  <2>10. Removing' /\ Quiescent'
    BY <1>1, <1>3 DEF IInv, Removing, Quiescent, Emptied
  <2>11. {s} \in SUBSET Sessions
    OBVIOUS
  <2> QED BY <1>4, <2>4, <2>9, <2>10, <2>11, RecordsMove
<1> QED BY <1>5, <1>6 DEF Resume

\* The end of a fill, seen by the locks: whoever completes s holds D.
LEMMA PublishStep ==
    ASSUME IInv, Publish
    PROVE  IInv'
<1>1. /\ worker.pc = "publish" /\ removal.by = "nobody"
      /\ UNCHANGED <<cache, retired, pending, outdated, lost, queued, current, revoked, planner,
                     deleter, canceller, evictor, removal, reader, lease, startup, crashes>>
  BY DEF Publish, DFree
<1>2. /\ \A s, x \in current : s = x
      /\ store.vis.state # "Preparing" /\ current \subseteq Sessions
  BY <1>1 DEF IInv, Filling, Fresh, TypeOK
<1>3. ASSUME NEW s \in current, cache[s] # "completed", Ends("PersistencePending"),
             UNCHANGED <<store, runtime, unsaved, faults>>
      PROVE  IInv'
  <2>1. TypeOK'
    BY <1>1, <1>3 DEF IInv, TypeOK, Ends, Outcomes
  <2>2. CalmStep
    BY <1>1, <1>3, StoreStays DEF CalmStep
  <2>3. WorkerTurn
    BY <1>1, <1>2, <1>3 DEF WorkerTurn, WorkerMoves, Busy, Ends
  <2> QED BY <2>1, <2>2, <2>3, Calm
<1>4. ASSUME NEW s \in current, cache[s] = "completed", runtime' = [runtime EXCEPT ![s] = "local"],
             NEW r \in StatusSaves(store, s, FALSE),
             NEW o \in IF r.ok THEN CompletionSaves(r.store, s) ELSE {r},
             Saved(o),
             unsaved' = IF o.ok THEN unsaved \ {s} ELSE unsaved \cup {s},
             IF ~o.ok THEN Ends("PersistencePending")
             ELSE Goes(IF CompletedItem(o.store.reg, s) THEN "settle" ELSE "discard")
      PROVE  IInv'
  <2>1. store \in Stores /\ StoreOK(store) /\ s \in Sessions
    BY <1>2, <1>4 DEF IInv, TypeOK, Stores
  <2>2. /\ r.store \in Stores /\ r.ok \in BOOLEAN /\ Mild(store, r.store, {})
        /\ ~r.ok => faults < MaxFaults \/ r.store = store
    BY <1>4, <2>1, StatusSavesBecome
  <2>3. /\ o.store \in Stores /\ o.ok \in BOOLEAN /\ Mild(store, o.store, {s})
        /\ ~o.ok => o.store = store \/ faults < MaxFaults
        /\ o.ok => o.store.avail
        /\ o.ok => CompletedItem(o.store.reg, s) \/ ~Completable(o.store.reg, s)
    <3>1. CASE ~r.ok
      <4>1. o = r
        BY <1>4, <3>1
      <4>2. Mild(store, o.store, {s})
        BY <2>2, <4>1 DEF Mild, Became
      <4> QED BY <2>2, <3>1, <4>1, <4>2
    <3>2. CASE r.ok
      <4>1. o \in CompletionSaves(r.store, s) /\ StoreOK(r.store)
        BY <1>4, <2>2, <3>2 DEF Mild, Became
      <4>2. /\ o.store \in Stores /\ o.ok \in BOOLEAN /\ Mild(r.store, o.store, {s})
            /\ ~o.ok => faults < MaxFaults
            /\ o.ok => o.store.avail
            /\ o.ok => CompletedItem(o.store.reg, s) \/ ~Completable(o.store.reg, s)
        BY <2>1, <2>2, <4>1, CompletionSavesBecome
      <4>3. Mild(store, o.store, {s})
        BY <2>1, <2>2, <4>2, MildOnward
      <4> QED BY <4>2, <4>3
    <3> QED BY <2>2, <3>1, <3>2
  <2>4. store' = o.store /\ faults' \in 0 .. MaxFaults
    BY <1>4, <2>3, SavedFaults DEF IInv, TypeOK
  <2>5. store'.vis.state # "Preparing" /\ store'.reg.state # "Preparing"
    BY <1>2, <2>3, <2>4, PlannedStays DEF Mild
  <2>6. /\ worker'.pc = IF ~o.ok THEN "decide"
                        ELSE IF CompletedItem(o.store.reg, s) THEN "settle" ELSE "discard"
        /\ worker'.outcome \in Outcomes
        /\ worker' \in [pc : {"decide", "settle", "discard"}, outcome : Outcomes]
    BY <1>4, <2>3 DEF Ends, Goes, Outcomes, IInv, TypeOK
  <2>7. unsaved' \in SUBSET Sessions /\ runtime' \in [Sessions -> {"none", "online", "local"}]
        /\ \A x \in Sessions : runtime'[x] = "local" => runtime[x] = "local" \/ x \in {s}
    BY <1>4, <2>1 DEF IInv, TypeOK
  <2>8. TypeOK'
    BY <1>1, <2>3, <2>4, <2>6, <2>7 DEF IInv, TypeOK, Stores
  <2>9. worker'.pc = "discard" => DeadIn(store', s)
    <3>1. SUFFICES ASSUME o.ok, ~CompletedItem(store'.reg, s), ~Completable(store'.reg, s)
                   PROVE  DeadIn(store', s)
      BY <2>3, <2>4, <2>6
    <3>2. StoreOK(store') /\ store'.avail
      BY <2>3, <2>4, <3>1 DEF Mild, Became
    <3>3. Dead(store'.reg, s)
      BY <2>5, <3>1 DEF Dead, Completable, CompletedItem, Uses
    <3> QED BY <3>2, <3>3 DEF StoreOK, DeadIn
  <2>10. \A x \in Due' : x \in Due \/ DeadIn(store', x)
    BY <1>1, <1>2, <1>4, <2>9 DEF Due, PendingCleanups
  <2>11. \A x \in Sessions : Tracked(x) => Tracked(x)'
    BY <1>1, <2>3, <2>4 DEF Tracked, Mild, KeepsUses
  <2>12. \A x \in Sessions : x \in unsaved \/ Busy(x) \/ x \in {s} => x \in unsaved' \/ Busy(x)'
    BY <1>1, <1>2, <1>4, <2>6 DEF Busy
  <2>13. RecordStep({s})
    BY <1>1, <1>2, <1>4, <2>3, <2>4, <2>7, <2>10, <2>11, <2>12 DEF RecordStep, PassShrinks, Mild
  <2>14. WorkerMoves
    BY <1>1, <2>5, <2>6 DEF WorkerMoves
  <2>15. Removing' /\ Quiescent'
    BY <1>1 DEF IInv, Removing, Quiescent, Emptied
  <2>16. {s} \in SUBSET Sessions
    BY <2>1
  <2> QED BY <2>8, <2>13, <2>14, <2>15, <2>16, RecordsMove
<1> QED BY <1>3, <1>4 DEF Publish

\* What a deletion leaves alone, and the two ways its turn may go.
DeletionFrame(s) ==
    /\ s \in Sessions /\ QFree /\ startup.resume = {}
    /\ UNCHANGED <<cache, retired, pending, unsaved, outdated, lost, planner, canceller, evictor,
                   reader, lease, startup, crashes, current, worker>>
    /\ queued' \in SUBSET Sessions /\ revoked' \in BOOLEAN
    /\ deleter' \in [pc : {"idle", "waiting"}, item : Sessions, sessions : SUBSET Sessions]
    /\ store' \in Stores /\ faults' \in 0 .. MaxFaults
    /\ Became(store, store', {})
    /\ runtime' \in [Sessions -> {"none", "online", "local"}]
    /\ \A x \in Sessions : runtime'[x] = "local" => runtime[x] = "local" \/ cache[x] = "completed"

\* A turn of a deletion that removes nothing.
LEMMA DeletionRests ==
    ASSUME IInv, NEW s, DeletionFrame(s), UNCHANGED removal, KeepsUses(store, store')
    PROVE  IInv'
<1>1. TypeOK'
  BY DEF DeletionFrame, IInv, TypeOK, Stores
<1>2. CalmStep
  BY DEF DeletionFrame, CalmStep, QFree
<1>3. WorkerTurn
  BY WorkerStays DEF DeletionFrame
<1> QED BY <1>1, <1>2, <1>3, Calm

\* A turn of a deletion that commits: its sessions are dead in all versions.
LEMMA DeletionGoes ==
    ASSUME IInv, NEW s, DeletionFrame(s), NEW S \in SUBSET Sessions,
           removal' = [by |-> "deleter", key |-> [kind |-> "item", of |-> s], sessions |-> S],
           \A x \in S : DeadIn(store', x),
           s \in S \/ Emptied(s),
           pending[[kind |-> "item", of |-> s]] \subseteq S,
           \A x \in Sessions : Uses(store.reg, x) => Uses(store'.reg, x) \/ x \in S,
           KeepsUses(store, store') \/ store'.vis = store'.reg
    PROVE  IInv'
<1>1. removal' \in [by : {"nobody", "deleter", "evictor"}, key : Keys, sessions : SUBSET Sessions]
      /\ removal'.sessions = S /\ removal'.key = [kind |-> "item", of |-> s]
      /\ removal'.by = "deleter"
  BY DEF DeletionFrame, Keys
<1>2. TypeOK'
  BY <1>1 DEF DeletionFrame, IInv, TypeOK, Stores
<1>3. WorkerTurn
  BY WorkerStays DEF DeletionFrame
<1>4. removal.sessions = {} /\ evictor.pc = "idle"
  BY DEF DeletionFrame, QFree, IInv, Removing
<1>5. \A x \in Sessions : Tracked(x) => Tracked(x)'
  BY <1>1, <1>4 DEF DeletionFrame, Tracked
<1>6. \A x \in Due' : x \in Due \/ DeadIn(store', x)
  BY <1>1 DEF DeletionFrame, Due, PendingCleanups
<1>7. TableStep
  BY <1>4, <1>5, <1>6 DEF DeletionFrame, TableStep, PassShrinks
<1>8. Removing'
  BY <1>1, <1>4 DEF DeletionFrame, IInv, Removing, Emptied
<1>9. Quiescent'
  BY DEF DeletionFrame, IInv, Quiescent
<1> QED BY <1>2, <1>3, <1>7, <1>8, <1>9, TablesMove

\* The group of a completed item is what its removal lets go of.
LEMMA CompletedGroup ==
    ASSUME NEW t \in Task, Shape(t), NEW s \in Sessions, CompletedItem(t, s)
    PROVE  /\ s \in Group(t, s) /\ Group(t, s) \subseteq Sessions
           /\ s # Primary => Group(t, s) = {s}
           /\ \A x \in Group(t, s) : Dead(RemovedTask(t, s), x)
           /\ \A x \in Sessions : Uses(t, x) => Uses(RemovedTask(t, s), x) \/ x \in Group(t, s)
<1>1. Ready(t) /\ Uses(t, s)
  BY CompletedIsOffered
<1>2. CASE s = Primary
  <2>1. t.state = "Completed"
    BY <1>2, LifecycleAssumption DEF CompletedItem, Shape, Task, TaskStates
  <2>2. Group(t, s) = HlsSessions(t)
    BY <2>1, <1>1, <1>2 DEF Group, SecondaryItem
  <2> QED BY <1>1, <1>2, <2>2, RemovedSucceeds DEF HlsSessions
<1>3. CASE s # Primary
  <2>1. Group(t, s) = {s}
    BY <1>3 DEF Group, SecondaryItem, CompletedItem
  <2> QED BY <1>3, <2>1, RemovedSucceeds
<1> QED BY <1>2, <1>3

\* A turn of delete_completed_hls_library_item, whichever way it goes.
LEMMA DeleteTurnStep ==
    ASSUME IInv, NEW s \in Sessions, startup.resume = {}, DeleteTurn(s)
    PROVE  IInv'
<1> DEFINE K == [kind |-> "item", of |-> s]
<1>1. /\ QFree
      /\ UNCHANGED <<cache, retired, pending, unsaved, outdated, lost, planner, canceller, evictor,
                     reader, lease, startup, crashes>>
  BY DEF DeleteTurn
<1>2. K \in Keys /\ pending[K] \subseteq Sessions
  BY ZenonT(60) DEF Keys, IInv, TypeOK
<1>3. /\ deleter \in [pc : {"idle", "waiting"}, item : Sessions, sessions : SUBSET Sessions]
      /\ queued \in SUBSET Sessions /\ revoked \in BOOLEAN
      /\ runtime \in [Sessions -> {"none", "online", "local"}]
  BY DEF IInv, TypeOK
<1>4. ASSUME store' \in Stores, faults' \in 0 .. MaxFaults, Became(store, store', {}),
             UNCHANGED <<current, worker>>, queued' \in SUBSET Sessions, revoked' \in BOOLEAN,
             deleter' \in [pc : {"idle", "waiting"}, item : Sessions, sessions : SUBSET Sessions],
             \/ UNCHANGED runtime
             \/ /\ cache[s] = "completed"
                /\ runtime' = [runtime EXCEPT ![s] = IF @ = "none" THEN "local" ELSE @]
      PROVE  DeletionFrame(s)
  BY <1>1, <1>3, <1>4 DEF DeletionFrame
<1>5. ASSUME NEW S, CancelFills(S)
      PROVE  UNCHANGED <<current, worker>> /\ queued' \in SUBSET Sessions /\ revoked' \in BOOLEAN
  BY <1>3, <1>5 DEF CancelFills
<1>6. DeletionReturns =>
         deleter' \in [pc : {"idle", "waiting"}, item : Sessions, sessions : SUBSET Sessions]
  BY <1>3 DEF DeletionReturns
<1>7. ASSUME NEW S \in SUBSET Sessions, DeletionWaits(s, S)
      PROVE  /\ deleter' \in [pc : {"idle", "waiting"}, item : Sessions, sessions : SUBSET Sessions]
             /\ UNCHANGED removal
  BY <1>7 DEF DeletionWaits
<1>8. ASSUME NEW S \in SUBSET Sessions, DeletionCommits(s, S)
      PROVE  /\ deleter' \in [pc : {"idle", "waiting"}, item : Sessions, sessions : SUBSET Sessions]
             /\ removal' = [by |-> "deleter", key |-> K, sessions |-> S]
  BY <1>6, <1>8 DEF DeletionCommits
<1> HIDE DEF K
<1>9. ASSUME NEW r \in Recoveries, Saved(r), DeletionReturns, UNCHANGED <<runtime, fillVars, removal>>
      PROVE  IInv'
  <2>1. store' \in Stores /\ faults' \in 0 .. MaxFaults /\ Mild(store, store', {})
    BY <1>9, Recovered
  <2>2. DeletionFrame(s)
    BY <1>3, <1>4, <1>6, <1>9, <2>1 DEF fillVars, Mild
  <2> QED BY <1>9, <2>1, <2>2, DeletionRests DEF Mild
<1>10. ASSUME NEW r \in Recoveries, Saved(r), NEW S \in SUBSET Sessions, CancelFills(S),
              DeletionWaits(s, S),
              \/ UNCHANGED runtime
              \/ /\ cache[s] = "completed"
                 /\ runtime' = [runtime EXCEPT ![s] = IF @ = "none" THEN "local" ELSE @]
       PROVE  IInv'
  <2>1. store' \in Stores /\ faults' \in 0 .. MaxFaults /\ Mild(store, store', {})
    BY <1>10, Recovered
  <2>2. DeletionFrame(s)
    BY <1>4, <1>5, <1>7, <1>10, <2>1 DEF Mild
  <2> QED BY <1>7, <1>10, <2>1, <2>2, DeletionRests DEF Mild
<1>11. ASSUME NEW r \in Recoveries, Saved(r), NEW S \in SUBSET Sessions, CancelFills(S),
              DeletionCommits(s, S), UNCHANGED runtime,
              \A x \in S : DeadIn(r.store, x),
              s \in S \/ Emptied(s), pending[K] \subseteq S
       PROVE  IInv'
  <2>1. /\ store' \in Stores /\ faults' \in 0 .. MaxFaults /\ Mild(store, store', {})
        /\ store' = r.store
    BY <1>11, Recovered
  <2>2. DeletionFrame(s)
    BY <1>4, <1>5, <1>8, <1>11, <2>1 DEF Mild
  <2> QED BY <1>8, <1>11, <2>1, <2>2, DeletionGoes DEF Mild, KeepsUses, K
<1>12. ASSUME NEW r \in Recoveries, r.ok, pending[K] # {}, Saved(r), CancelFills(pending[K]),
              DeletionCommits(s, pending[K]), UNCHANGED runtime
       PROVE  IInv'
  <2>1. \A x \in pending[K] : DeadIn(store, x)
    BY <1>2 DEF IInv, DueIsDead, Due, PendingCleanups
  <2>2. \A x \in pending[K] : DeadIn(r.store, x)
    BY <1>2, <2>1, Recovered, BecameDead DEF Mild
  <2>3. s \in pending[K] \/ Emptied(s)
    BY <1>12 DEF IInv, Removing, K
  <2> QED BY <1>2, <1>11, <1>12, <2>2, <2>3
<1>13. ASSUME NEW r \in Recoveries, r.ok, pending[K] = {}, Saved(r), CancelFills({s}),
              DeletionCommits(s, {s}), UNCHANGED runtime,
              cache[s] = "completed", ~(Ready(r.store.vis) /\ Uses(r.store.vis, s))
       PROVE  IInv'
  <2>1. store.reg.state # "Preparing"
    BY <1>13 DEF IInv, Fresh, StoreOK, Follows
  <2>2. DeadIn(r.store, s)
    BY <1>13, <2>1, Recovered DEF DeadIn, Dead
  <2> QED BY <1>11, <1>13, <2>2
<1>14. ASSUME NEW r \in Recoveries, r.ok, pending[K] = {}, AuthorizedItem(r.store.vis, s),
              runtime' = [runtime EXCEPT ![s] = IF @ = "none" THEN "local" ELSE @],
              CancelFills(Group(r.store.vis, s)),
              NEW o \in Saves(r.store, RemovedTask(r.store.reg, s), "destructive"), Saved(o),
              \/ o.ok /\ DeletionCommits(s, Group(r.store.vis, s))
              \/ ~o.ok /\ DeletionReturns /\ UNCHANGED removal
       PROVE  IInv'
  <2> DEFINE n == RemovedTask(store.reg, s)
             S == Group(store.reg, s)
  <2>1. /\ r.store.reg = store.reg /\ r.store.vis = store.reg
        /\ store.reg \in Task /\ Shape(store.reg) /\ CompletedItem(store.reg, s)
        /\ cache[s] = "completed"
    BY <1>14, Recovered DEF AuthorizedItem
  <2>2. /\ n \in Task /\ Succeeds(store.reg, n, {}) /\ o \in Saves(r.store, n, "destructive")
        /\ s \in S /\ S \in SUBSET Sessions
        /\ \A x \in S : Dead(n, x)
        /\ \A x \in Sessions : Uses(store.reg, x) => Uses(n, x) \/ x \in S
    BY <1>14, <2>1, CompletedGroup, RemovedSucceeds
  <2>3. \/ o.ok /\ DeletionCommits(s, S)
        \/ ~o.ok /\ DeletionReturns /\ UNCHANGED removal
    BY <1>14, <2>1
  <2>4. CancelFills(S)
    BY <1>14, <2>1
  <2> HIDE DEF n, S
  <2>5. /\ store' \in Stores /\ faults' \in 0 .. MaxFaults /\ Became(store, store', {})
        /\ o.ok => store'.reg = n /\ store'.vis = n /\ store'.disk = n
        /\ ~o.ok => store'.reg = store.reg
    BY <1>14, <2>2, SavedAfter
  <2>6. DeletionFrame(s)
    BY <1>4, <1>5, <1>6, <1>8, <1>14, <2>1, <2>2, <2>3, <2>4, <2>5
  <2>7. CASE ~o.ok
    BY <2>3, <2>5, <2>6, <2>7, DeletionRests DEF KeepsUses
  <2>8. CASE o.ok
    <3>1. removal' = [by |-> "deleter", key |-> [kind |-> "item", of |-> s], sessions |-> S]
      BY <1>8, <2>2, <2>3, <2>8 DEF K
    <3>2. \A x \in S : DeadIn(store', x)
      BY <2>2, <2>5, <2>8 DEF DeadIn
    <3>3. /\ pending[[kind |-> "item", of |-> s]] \subseteq S
          /\ \A x \in Sessions : Uses(store.reg, x) => Uses(store'.reg, x) \/ x \in S
          /\ store'.vis = store'.reg
      BY <1>14, <2>2, <2>5, <2>8 DEF K
    <3> QED BY <2>2, <2>6, <3>1, <3>2, <3>3, DeletionGoes
  <2> QED BY <2>7, <2>8
<1>15. ASSUME NEW r \in Recoveries, r.ok, AuthorizedItem(r.store.vis, s)
       PROVE  Group(r.store.vis, s) \in SUBSET Sessions /\ cache[s] = "completed"
  BY <1>15, Recovered, CompletedGroup DEF AuthorizedItem
<1>16. PICK r \in Recoveries :
         \/ /\ ~r.ok
            /\ Saved(r) /\ DeletionReturns
            /\ UNCHANGED <<runtime, fillVars, removal>>
         \/ /\ r.ok /\ pending[K] # {}
            /\ Saved(r) /\ CancelFills(pending[K])
            /\ DeletionWaits(s, pending[K]) \/ DeletionCommits(s, pending[K])
            /\ UNCHANGED runtime
         \/ /\ r.ok
            /\ Saved(r) /\ DeletionReturns
            /\ UNCHANGED <<runtime, fillVars, removal>>
         \/ /\ r.ok /\ pending[K] = {}
            /\ cache[s] = "completed" /\ ~(Ready(r.store.vis) /\ Uses(r.store.vis, s))
            /\ Saved(r) /\ CancelFills({s})
            /\ DeletionWaits(s, {s}) \/ DeletionCommits(s, {s})
            /\ UNCHANGED runtime
         \/ /\ r.ok /\ pending[K] = {} /\ AuthorizedItem(r.store.vis, s)
            /\ runtime' = [runtime EXCEPT ![s] = IF @ = "none" THEN "local" ELSE @]
            /\ CancelFills(Group(r.store.vis, s))
            /\ \/ Saved(r) /\ DeletionWaits(s, Group(r.store.vis, s))
               \/ \E o \in Saves(r.store, RemovedTask(r.store.reg, s), "destructive") :
                    /\ Saved(o)
                    /\ \/ o.ok /\ DeletionCommits(s, Group(r.store.vis, s))
                       \/ ~o.ok /\ DeletionReturns /\ UNCHANGED removal
  BY DEF DeleteTurn, K
<1>17. {s} \in SUBSET Sessions
  OBVIOUS
<1>18. CASE Saved(r) /\ DeletionReturns /\ UNCHANGED <<runtime, fillVars, removal>>
  BY <1>9, <1>18
<1>19. CASE /\ r.ok /\ pending[K] # {}
            /\ Saved(r) /\ CancelFills(pending[K])
            /\ DeletionWaits(s, pending[K]) \/ DeletionCommits(s, pending[K])
            /\ UNCHANGED runtime
  BY <1>2, <1>10, <1>12, <1>19
<1>20. CASE /\ r.ok /\ pending[K] = {}
            /\ cache[s] = "completed" /\ ~(Ready(r.store.vis) /\ Uses(r.store.vis, s))
            /\ Saved(r) /\ CancelFills({s})
            /\ DeletionWaits(s, {s}) \/ DeletionCommits(s, {s})
            /\ UNCHANGED runtime
  BY <1>17, <1>10, <1>13, <1>20
<1>21. CASE /\ r.ok /\ pending[K] = {} /\ AuthorizedItem(r.store.vis, s)
            /\ runtime' = [runtime EXCEPT ![s] = IF @ = "none" THEN "local" ELSE @]
            /\ CancelFills(Group(r.store.vis, s))
            /\ \/ Saved(r) /\ DeletionWaits(s, Group(r.store.vis, s))
               \/ \E o \in Saves(r.store, RemovedTask(r.store.reg, s), "destructive") :
                    /\ Saved(o)
                    /\ \/ o.ok /\ DeletionCommits(s, Group(r.store.vis, s))
                       \/ ~o.ok /\ DeletionReturns /\ UNCHANGED removal
  BY <1>10, <1>14, <1>15, <1>21
<1> QED BY <1>16, <1>18, <1>19, <1>20, <1>21

-----------------------------------------------------------------------------
(* Steps that touch files.                                                  *)

\* What is due stays dead when the step adds only dead sessions.
LEMMA DueMoves ==
    ASSUME IInv, store' \in Stores, NEW S, Became(store, store', S),
           \A x \in Due' : x \in Due \/ DeadIn(store', x)
    PROVE  DueIsDead'
<1>1. store \in Stores /\ Due \subseteq Sessions
  BY DueSessions DEF IInv, TypeOK, Stores
<1>2. \A x \in Due : DeadIn(store', x)
  BY <1>1, BecameDead DEF IInv, DueIsDead
<1> QED BY <1>2 DEF DueIsDead

\* What a pass that goes on has to keep in mind.
LEMMA ScanMoves ==
    ASSUME IInv, store' \in Stores, Became(store, store', {}), PassShrinks,
           evictor'.pc = "scan" => \A x \in Sessions :
              /\ cache'[x] = "completed" /\ (x \in Recorded(store') \/ runtime'[x] = "local") =>
                    \/ x \in unsaved' \/ Busy(x)' \/ x \notin evictor.partial
                    \/ /\ cache[x] = "completed" /\ (x \in Recorded(store') \/ runtime[x] = "local")
                       /\ (x \in unsaved \/ Busy(x) => x \in unsaved' \/ Busy(x)')
              /\ pending[[kind |-> "item", of |-> x]] = {} => pending'[[kind |-> "item", of |-> x]] = {}
    PROVE  Scanning'
<1>1. SUFFICES ASSUME evictor'.pc = "scan" PROVE Scanning'
  BY DEF Scanning
<1>2. evictor' # NoScan
  BY <1>1 DEF NoScan
<1>3. /\ evictor.pc = "scan"
      /\ evictor'.completed \subseteq evictor.completed /\ evictor'.partial \subseteq evictor.partial
      /\ evictor'.spared = evictor.spared /\ evictor'.stable = evictor.stable
  BY <1>1, <1>2 DEF PassShrinks
<1>4. evictor.completed \subseteq Sessions /\ evictor.partial \subseteq Sessions /\ store \in Stores
  BY DEF IInv, TypeOK, Stores
<1>5. Recorded(store') \subseteq Recorded(store)
  BY DEF Became
<1>6. \A e \in evictor'.partial :
         cache'[e] = "completed" /\ (e \in Recorded(store') \/ runtime'[e] = "local") =>
            e \in unsaved' \/ Busy(e)'
  BY <1>1, <1>3, <1>4, <1>5 DEF IInv, Scanning
<1>7. \A e \in evictor'.completed \ evictor.stable :
         store'.reg.state = "Playable" => ~Uses(store'.reg, e)
  <2>1. evictor.completed # {} => store.reg.state # "Preparing"
    BY <1>4, PlannedStays DEF IInv, Fresh
  <2>2. Follows(store.reg, store'.reg)
    BY DEF Became
  <2>3. store.reg.state \notin {"Preparing", "Playable"} => store'.reg.state # "Playable"
    BY <2>2 DEF Follows
  <2>4. store.reg.state # "Preparing" =>
           \A e \in Sessions : Uses(store'.reg, e) => Uses(store.reg, e)
    BY <2>2 DEF Follows
  <2> QED BY <1>3, <1>4, <2>1, <2>3, <2>4 DEF IInv, Scanning
<1>8. \A e \in evictor'.completed :
         pending'[[kind |-> "item", of |-> e]] = {} \/ e \in evictor'.spared
  BY <1>1, <1>3, <1>4 DEF IInv, Scanning
<1> QED BY <1>3, <1>6, <1>7, <1>8 DEF IInv, Scanning

\* Directories of G lose media, or go, or get a manifest.
FileStep(G) ==
    /\ Became(store, store', {})
    /\ \A x \in Sessions \ G : cache'[x] = cache[x]
    /\ \A x \in G : cache'[x] # "completed"
    /\ outdated \subseteq outdated'
    /\ \A x \in G : x \in Recorded(store') \/ runtime'[x] = "local" => x \in outdated'
    /\ \A x \in Sessions : runtime'[x] = "local" => runtime[x] = "local"
    /\ \A x \in Due' : x \in Due \/ DeadIn(store', x)
    /\ store'.vis.state = "Preparing" => evictor'.completed = {}

\* A step that takes media only from sessions that nothing offers, and keeps
\* an owner for all files, preserves the invariant.
LEMMA FilesMove ==
    ASSUME IInv, TypeOK', NEW G \in SUBSET Sessions, FileStep(G), WorkerMoves,
           HeldIsTracked', Scanning', Removing', Quiescent'
    PROVE  IInv'
<1>1. store \in Stores /\ store' \in Stores
  BY DEF IInv, TypeOK, Stores
<1>2. StoreOK(store')
  BY DEF FileStep, Became
<1>3. DueIsDead'
  BY <1>1, DueMoves DEF FileStep
<1>4. Recorded(store') \subseteq Recorded(store)
  BY DEF FileStep, Became
<1>5. Media'
  BY <1>4 DEF IInv, Media, HasMedia, FileStep
<1>6. Fresh'
  <2>1. store'.vis.state = "Preparing" => store.vis.state = "Preparing"
    BY <1>1, PlannedStays DEF FileStep
  <2>2. \A s \in Sessions : cache'[s] = "completed" => cache[s] = "completed"
    BY DEF FileStep
  <2> QED BY <2>1, <2>2 DEF IInv, Fresh, FileStep, WorkerMoves
<1>7. Filling'
  <2>1. \A s, x \in current' : s = x
    BY DEF IInv, Filling, WorkerMoves
  <2>2. worker'.pc = "fill" => \A s \in current' : cache'[s] # "completed"
    BY DEF WorkerMoves, FileStep, TypeOK
  <2> QED BY <2>1, <2>2 DEF Filling, WorkerMoves
<1> QED BY <1>2, <1>3, <1>5, <1>6, <1>7 DEF IInv

\* What remove_hls_sessions does to the directories, failures included.
LEMMA DirectoriesGo ==
    ASSUME IInv, NEW S \in SUBSET Sessions, NEW F \in Removals(S), RemoveDirectories(S, F)
    PROVE  /\ F \subseteq S /\ F \subseteq Sessions /\ faults' \in 0 .. MaxFaults
           /\ cache' \in [Sessions -> {"absent", "partial", "completed"}]
           /\ retired' \in SUBSET Sessions /\ unsaved' \in SUBSET Sessions
           /\ lost' \in SUBSET Sessions /\ outdated' \in SUBSET Sessions
           /\ \A x \in S \ F : cache'[x] = "absent" /\ x \in retired'
           /\ \A x \in Sessions \ (S \ F) :
                 cache'[x] = cache[x] /\ (x \in unsaved <=> x \in unsaved')
                 /\ (x \in lost => x \in lost')
           /\ outdated' = outdated /\ retired \subseteq retired'
           /\ \A x \in Sessions : Emptied(x) => Emptied(x)'
<1>1. F \subseteq S /\ (F \subseteq reader \/ faults < MaxFaults)
  BY DEF Removals
<1>2. faults' \in 0 .. MaxFaults
  BY <1>1, LifecycleAssumption DEF RemoveDirectories, IInv, TypeOK
<1> QED BY <1>1, <1>2 DEF RemoveDirectories, IInv, TypeOK, Emptied

\* The files of S are removed, except those of F, where removal failed.
RemovalStep(S, F) ==
    /\ S \in SUBSET Sessions /\ F \in Removals(S) /\ RemoveDirectories(S, F)
    /\ Became(store, store', {})
    /\ \A x \in S \ F : x \notin Recorded(store') \/ x \in outdated
    /\ \A x \in Sessions : runtime'[x] \in {runtime[x], "none"}
    /\ \A x \in S \ F : runtime'[x] = "none"
    /\ \A x \in Sessions \ (S \ F) : Tracked(x) => Tracked(x)'
    /\ \A x \in Due' : x \in Due \/ DeadIn(store', x)
    /\ store'.vis.state = "Preparing" => evictor'.completed = {}
    /\ worker'.pc = "fill" => UNCHANGED <<worker, current>>

\* A removal of files preserves the invariant if what it removes is recorded
\* by no version and what it could not remove stays tracked.
LEMMA RemovalMoves ==
    ASSUME IInv, TypeOK', NEW S, NEW F, RemovalStep(S, F), WorkerMoves,
           Scanning', Removing', Quiescent'
    PROVE  IInv'
<1>1. /\ S \in SUBSET Sessions /\ F \in Removals(S) /\ RemoveDirectories(S, F)
  BY DEF RemovalStep
<1>2. /\ F \subseteq S
      /\ \A x \in S \ F : cache'[x] = "absent" /\ x \in retired'
      /\ \A x \in Sessions \ (S \ F) : cache'[x] = cache[x]
      /\ outdated' = outdated /\ retired \subseteq retired'
  BY <1>1, DirectoriesGo
<1>3. FileStep(S \ F)
  BY <1>1, <1>2 DEF RemovalStep, FileStep
<1>4. HeldIsTracked'
  <2>1. ASSUME NEW x \in Sessions, Held(x)' PROVE Tracked(x)'
    <3>1. x \notin S \ F
      BY <2>1, <1>2 DEF Held
    <3>2. Held(x)
      BY <2>1, <3>1, <1>2 DEF Held, RemovalStep
    <3> QED BY <3>1, <3>2 DEF IInv, HeldIsTracked, RemovalStep
  <2> QED BY <2>1 DEF HeldIsTracked
<1>5. S \ F \in SUBSET Sessions
  BY <1>1
<1> QED BY <1>3, <1>4, <1>5, FilesMove

\* While a pass goes on, removed entries and the others stay what they were.
LEMMA RemovalScans ==
    ASSUME IInv, store' \in Stores, NEW S, NEW F, RemovalStep(S, F), PassShrinks,
           evictor'.pc = "scan" => \A x \in Sessions :
              /\ Busy(x) /\ (x \in Recorded(store') \/ runtime'[x] = "local") => Busy(x)'
              /\ pending[[kind |-> "item", of |-> x]] = {} => pending'[[kind |-> "item", of |-> x]] = {}
    PROVE  Scanning'
<1>1. /\ S \in SUBSET Sessions /\ F \in Removals(S) /\ RemoveDirectories(S, F)
      /\ Became(store, store', {})
  BY DEF RemovalStep
<1>2. /\ \A x \in S \ F : cache'[x] = "absent"
      /\ \A x \in Sessions \ (S \ F) : cache'[x] = cache[x] /\ (x \in unsaved <=> x \in unsaved')
  BY <1>1, DirectoriesGo
<1>3. ASSUME NEW x \in Sessions, evictor'.pc = "scan",
             cache'[x] = "completed", x \in Recorded(store') \/ runtime'[x] = "local"
      PROVE  /\ cache[x] = "completed" /\ (x \in Recorded(store') \/ runtime[x] = "local")
             /\ (x \in unsaved \/ Busy(x) => x \in unsaved' \/ Busy(x)')
  BY <1>2, <1>3 DEF RemovalStep
<1> QED BY <1>1, <1>3, ScanMoves

\* Files that are due for removal are offered by nobody.
LEMMA DueUnrecorded ==
    ASSUME IInv, NEW x \in Due
    PROVE  x \in Sessions /\ x \notin Recorded(store) /\ DeadIn(store, x)
<1>1. x \in Sessions /\ DeadIn(store, x)
  BY DueSessions DEF IInv, DueIsDead
<1> QED BY <1>1, DeadIsUnrecorded DEF IInv, TypeOK, Stores

\* Cleanups under the keys of items stay as they are.
LEMMA CleanupsStay ==
    ASSUME IInv, UNCHANGED removal, evictor' \in {evictor, NoScan},
           \A x \in Sessions : Emptied(x) => Emptied(x)',
           \A x \in Sessions :
              /\ pending'[[kind |-> "item", of |-> x]] = pending[[kind |-> "item", of |-> x]]
              /\ pending'[[kind |-> "session", of |-> x]] \subseteq {x}
    PROVE  Removing'
<1>1. removal.by # "nobody" =>
        /\ removal.key.of \in Sessions /\ removal.key.kind = "item"
        /\ removal.key = [kind |-> "item", of |-> removal.key.of]
  BY DEF IInv, TypeOK, Removing, Keys
<1>2. removal.by # "nobody" => pending'[removal.key] = pending[removal.key]
  <2> SUFFICES ASSUME removal.by # "nobody" PROVE pending'[removal.key] = pending[removal.key]
    OBVIOUS
  <2> DEFINE e == removal.key.of
             K == [kind |-> "item", of |-> e]
  <2>1. e \in Sessions /\ removal.key = K
    BY <1>1
  <2> HIDE DEF e
  <2>2. pending'[K] = pending[K]
    BY <2>1
  <2> HIDE DEF K
  <2> QED BY <2>1, <2>2
<1>3. removal.by # "nobody" => (Emptied(removal.key.of) => Emptied(removal.key.of)')
  BY <1>1
<1>4. evictor.pc = "idle" => evictor'.pc = "idle"
  BY DEF NoScan
<1> QED BY <1>1, <1>2, <1>3, <1>4 DEF IInv, Removing

\* cancel_task removes one session and remembers a failure.
LEMMA CancelRemovesStep ==
    ASSUME IInv, NEW s \in Sessions, CancelRemoves(s)
    PROVE  IInv'
<1>1. PICK F \in Removals({s}) :
          /\ RemoveDirectories({s}, F)
          /\ StopServing({s} \ F)
          /\ canceller' = [canceller EXCEPT !.todo = @ \ {s}, !.failed = @ \cup F]
  BY DEF CancelRemoves
<1>2. /\ canceller.pc = "removing" /\ s \in canceller.todo
      /\ UNCHANGED <<store, pending, queued, current, revoked, worker, planner, deleter, evictor,
                     removal, reader, lease, startup, crashes>>
  BY DEF CancelRemoves, fillVars
<1>3. /\ F \subseteq {s} /\ F \subseteq Sessions /\ faults' \in 0 .. MaxFaults
      /\ cache' \in [Sessions -> {"absent", "partial", "completed"}]
      /\ retired' \in SUBSET Sessions /\ unsaved' \in SUBSET Sessions
      /\ lost' \in SUBSET Sessions /\ outdated' \in SUBSET Sessions
      /\ \A x \in Sessions \ ({s} \ F) : x \in lost => x \in lost'
      /\ \A x \in Sessions : Emptied(x) => Emptied(x)'
  BY <1>1, DirectoriesGo
<1>4. /\ canceller'.pc = "removing" /\ canceller'.todo = canceller.todo \ {s}
      /\ canceller'.failed = canceller.failed \cup F
      /\ canceller' \in [pc : {"idle", "draining", "removing"}, todo : SUBSET Sessions,
                         failed : SUBSET Sessions]
  BY <1>1, <1>2, <1>3 DEF IInv, TypeOK
<1>5. TypeOK'
  BY <1>1, <1>2, <1>3, <1>4 DEF IInv, TypeOK, StopServing
<1>6. RemovalStep({s}, F)
  <2>1. Became(store, store', {}) /\ store.vis = store'.vis
    BY <1>2, StoreStays
  <2>2. s \in Due
    BY <1>2 DEF Due
  <2>3. s \notin Recorded(store')
    BY <1>2, <2>2, DueUnrecorded
  <2>4. \A x \in Sessions : runtime'[x] \in {runtime[x], "none"}
    BY <1>1 DEF StopServing
  <2>5. \A x \in {s} \ F : runtime'[x] = "none"
    BY <1>1 DEF StopServing
  <2>6. \A x \in Sessions \ ({s} \ F) : Tracked(x) => Tracked(x)'
    BY <1>2, <1>3, <1>4 DEF Tracked
  <2>7. Due' \subseteq Due
    BY <1>2, <1>3, <1>4 DEF Due, PendingCleanups
  <2>8. store'.vis.state = "Preparing" => evictor'.completed = {}
    BY <1>2 DEF IInv, Fresh
  <2> QED BY <1>1, <1>2, <2>1, <2>3, <2>4, <2>5, <2>6, <2>7, <2>8 DEF RemovalStep
<1>7. Scanning'
  <2>1. store' \in Stores /\ PassShrinks
    BY <1>2, <1>5 DEF PassShrinks, TypeOK, Stores
  <2> QED BY <1>2, <1>6, <2>1, RemovalScans DEF Busy
<1>8. Removing' /\ Quiescent'
  <2>1. \A x \in Sessions : pending'[[kind |-> "session", of |-> x]] \subseteq {x}
    BY <1>2 DEF IInv, Removing
  <2>2. Removing'
    BY <1>2, <1>3, <2>1, CleanupsStay
  <2>3. Quiescent'
    BY <1>2, <1>4 DEF IInv, Quiescent
  <2> QED BY <2>2, <2>3
<1>9. WorkerMoves
  BY <1>2, StoreStays, WorkerStays DEF WorkerTurn
<1> QED BY <1>5, <1>6, <1>7, <1>8, <1>9, RemovalMoves

\* Abandoned planning removes everything, with a cleanup per failure.
LEMMA PlanCleanUpStep ==
    ASSUME IInv, startup.resume = {}, PlanCleanUp
    PROVE  IInv'
<1>1. PICK F \in Removals(Sessions) :
          /\ RemoveDirectories(Sessions, F)
          /\ StopServing(Sessions)
          /\ pending' = [k \in Keys |-> IF k.kind = "session" THEN F \cap {k.of}
                                        ELSE pending[k]]
  BY DEF PlanCleanUp
<1>2. /\ planner' = "done" /\ removal.by = "nobody"
      /\ store.avail /\ store.reg.state \in {"Ended", "Gone"}
      /\ UNCHANGED <<store, queued, current, revoked, worker, deleter, canceller, evictor, removal,
                     reader, lease, startup, crashes>>
  BY DEF PlanCleanUp, DFree, fillVars
<1>3. /\ F \subseteq Sessions /\ faults' \in 0 .. MaxFaults
      /\ cache' \in [Sessions -> {"absent", "partial", "completed"}]
      /\ retired' \in SUBSET Sessions /\ unsaved' \in SUBSET Sessions
      /\ lost' \in SUBSET Sessions /\ outdated' \in SUBSET Sessions
      /\ \A x \in Sessions : Emptied(x) => Emptied(x)'
      /\ \A x \in Sessions \ F : x \in retired'
  BY <1>1, DirectoriesGo
<1>4. /\ pending' \in [Keys -> SUBSET Sessions]
      /\ \A x \in Sessions :
            /\ pending'[[kind |-> "item", of |-> x]] = pending[[kind |-> "item", of |-> x]]
            /\ pending'[[kind |-> "session", of |-> x]] = F \cap {x}
            /\ [kind |-> "session", of |-> x] \in Keys
  BY <1>1, <1>3 DEF Keys, IInv, TypeOK
<1>5. TypeOK'
  BY <1>1, <1>2, <1>3, <1>4 DEF IInv, TypeOK, StopServing
<1>6. store.vis = store.reg /\ store.disk = store.reg /\ \A x \in Sessions : ~Uses(store.reg, x)
  BY <1>2 DEF IInv, StoreOK, Shape, Uses, Ready
<1>7. \A x \in Sessions : DeadIn(store, x)
  BY <1>2, <1>6 DEF DeadIn, Dead
<1>8. RemovalStep(Sessions, F)
  <2>1. Became(store, store', {}) /\ store.vis = store'.vis
    BY <1>2, StoreStays
  <2>2. \A x \in Sessions : x \notin Recorded(store')
    BY <1>2, <1>7, DeadIsUnrecorded DEF IInv, TypeOK, Stores
  <2>3. \A x \in Sessions : runtime'[x] = "none"
    BY <1>1 DEF StopServing
  <2>4. \A x \in Sessions \ (Sessions \ F) : Tracked(x)'
    <3>1. ASSUME NEW x \in Sessions, x \in F PROVE \E k \in Keys : x \in pending'[k]
      <4>1. x \in pending'[[kind |-> "session", of |-> x]] /\ [kind |-> "session", of |-> x] \in Keys
        BY <1>4, <3>1
      <4> QED BY <4>1
    <3> QED BY <3>1 DEF Tracked
  <2>5. \A x \in Due' : DeadIn(store', x)
    <3>1. TypeOK' => Due' \subseteq Sessions
      BY DueSessionsNext
    <3> QED BY <1>2, <1>5, <1>7, <3>1
  <2>6. store'.vis.state = "Preparing" => evictor'.completed = {}
    BY <1>2 DEF IInv, Fresh
  <2> QED BY <1>1, <1>2, <2>1, <2>2, <2>3, <2>4, <2>5, <2>6 DEF RemovalStep
<1>9. Scanning'
  <2>1. store' \in Stores /\ PassShrinks
    BY <1>2, <1>5 DEF PassShrinks, TypeOK, Stores
  <2> QED BY <1>2, <1>4, <1>8, <2>1, RemovalScans DEF Busy
<1>10. Removing' /\ Quiescent'
  <2>1. \A x \in Sessions : pending'[[kind |-> "session", of |-> x]] \subseteq {x}
    BY <1>4
  <2>2. Removing'
    BY <1>2, <1>3, <1>4, <2>1, CleanupsStay
  <2>3. Quiescent'
    BY <1>2 DEF IInv, Quiescent
  <2> QED BY <2>2, <2>3
<1>11. WorkerMoves
  <2>1. worker.pc = "fill" => \A s \in current : cache[s] # "completed"
    BY DEF IInv, Filling
  <2>2. worker'.pc \in {"protect", "fill", "publish", "settle", "discard"} =>
          store'.vis.state # "Preparing"
    BY <1>2, <1>6
  <2>3. current \subseteq Sessions
    BY DEF IInv, TypeOK
  <2> QED BY <1>2, <1>6, <2>1, <2>2, <2>3 DEF WorkerMoves
<1> QED BY <1>5, <1>8, <1>9, <1>10, <1>11, RemovalMoves

\* The worker discards a session that the task no longer knows.
LEMMA DiscardStep ==
    ASSUME IInv, Discard
    PROVE  IInv'
<1>1. PICK F \in Removals(current) :
          /\ RemoveDirectories(current, F)
          /\ StopServing(current)
          /\ pending' = [k \in Keys |-> IF k.kind = "session" /\ k.of \in current THEN F
                                        ELSE pending[k]]
  BY DEF Discard
<1>2. /\ worker.pc = "discard" /\ worker' = [pc |-> "decide", outcome |-> "Finished"]
      /\ UNCHANGED <<store, queued, current, revoked, planner, deleter, canceller, evictor, removal,
                     reader, lease, startup, crashes>>
  BY DEF Discard, Ends
<1>3. current \subseteq Sessions /\ \A x, y \in current : x = y
  BY DEF IInv, TypeOK, Filling
<1>4. /\ F \subseteq current /\ faults' \in 0 .. MaxFaults
      /\ cache' \in [Sessions -> {"absent", "partial", "completed"}]
      /\ retired' \in SUBSET Sessions /\ unsaved' \in SUBSET Sessions
      /\ lost' \in SUBSET Sessions /\ outdated' \in SUBSET Sessions
      /\ \A x \in Sessions : Emptied(x) => Emptied(x)'
      /\ \A x \in Sessions \ (current \ F) : x \in lost => x \in lost'
  BY <1>1, <1>3, DirectoriesGo
<1>5. /\ pending' \in [Keys -> SUBSET Sessions]
      /\ \A x \in Sessions :
            /\ pending'[[kind |-> "item", of |-> x]] = pending[[kind |-> "item", of |-> x]]
            /\ pending'[[kind |-> "session", of |-> x]] =
                  IF x \in current THEN F ELSE pending[[kind |-> "session", of |-> x]]
            /\ [kind |-> "session", of |-> x] \in Keys
      /\ \A k \in Keys : pending'[k] = pending[k] \/ (pending'[k] = F /\ k.kind = "session"
                                                      /\ k.of \in current)
  BY <1>1, <1>3, <1>4 DEF Keys, IInv, TypeOK
<1>6. TypeOK'
  BY <1>1, <1>2, <1>3, <1>4, <1>5 DEF IInv, TypeOK, StopServing, Outcomes
<1>7. \A x \in current : x \in Due
  BY <1>2 DEF Due
<1>8. \A x \in current : x \notin Recorded(store') /\ runtime'[x] = "none"
  BY <1>1, <1>2, <1>3, <1>7, DueUnrecorded DEF StopServing
<1>9. RemovalStep(current, F)
  <2>1. Became(store, store', {})
    BY <1>2, StoreStays
  <2>2. \A x \in Sessions : runtime'[x] \in {runtime[x], "none"}
    BY <1>1 DEF StopServing
  <2>3. \A x \in Sessions \ (current \ F) : Tracked(x) => Tracked(x)'
    <3>1. ASSUME NEW x \in Sessions \ (current \ F), NEW k \in Keys, x \in pending[k]
          PROVE  \E j \in Keys : x \in pending'[j]
      <4>1. CASE x \in F
        BY <1>4, <1>5, <4>1, <3>1
      <4>2. CASE x \notin current /\ pending'[k] = F /\ k.kind = "session" /\ k.of \in current
        <5>1. k = [kind |-> "session", of |-> k.of] /\ k.of \in Sessions
          BY <4>2 DEF Keys
        <5>2. pending[[kind |-> "session", of |-> k.of]] \subseteq {k.of}
          BY <5>1 DEF IInv, Removing
        <5>3. pending[k] \subseteq {k.of}
          BY <5>1, <5>2
        <5> QED BY <3>1, <4>2, <5>3
      <4>3. CASE pending'[k] = pending[k]
        BY <3>1, <4>3
      <4> QED BY <3>1, <1>5, <4>1, <4>2, <4>3
    <3>2. UNCHANGED <<store, removal, canceller, startup, planner>>
      BY <1>2
    <3> QED BY <1>4, <3>1, <3>2 DEF Tracked
  <2>4. Due' \subseteq Due
    <3>1. PendingCleanups' \subseteq PendingCleanups \cup F
      BY <1>5 DEF PendingCleanups
    <3> QED BY <1>2, <1>4, <1>7, <3>1 DEF Due
  <2>5. store'.vis.state = "Preparing" => evictor'.completed = {}
    BY <1>2 DEF IInv, Fresh
  <2> QED BY <1>1, <1>2, <1>3, <1>8, <2>1, <2>2, <2>3, <2>4, <2>5 DEF RemovalStep
<1>10. Scanning'
  <2>1. store' \in Stores /\ PassShrinks
    BY <1>2, <1>6 DEF PassShrinks, TypeOK, Stores
  <2> QED BY <1>5, <1>8, <1>9, <2>1, RemovalScans DEF Busy
<1>11. Removing' /\ Quiescent'
  <2>1. \A x \in Sessions : pending'[[kind |-> "session", of |-> x]] \subseteq {x}
    BY <1>3, <1>4, <1>5 DEF IInv, Removing
  <2>2. Removing'
    BY <1>2, <1>4, <1>5, <2>1, CleanupsStay
  <2>3. Quiescent'
    BY <1>2 DEF IInv, Quiescent
  <2> QED BY <2>2, <2>3
<1>12. WorkerMoves
  BY <1>2 DEF WorkerMoves
<1> QED BY <1>6, <1>9, <1>10, <1>11, <1>12, RemovalMoves

\* The second half of a removal keeps a failed session in its cleanup.
LEMMA RemoveFilesStep ==
    ASSUME IInv, startup.resume = {}, RemoveFiles
    PROVE  IInv'
<1> DEFINE S == removal.sessions
           K == removal.key
<1>1. PICK F \in Removals(S) :
          /\ RemoveDirectories(S, F)
          /\ StopServing(S \ F)
          /\ pending' = [pending EXCEPT ![K] = F]
          /\ evictor' = IF removal.by = "evictor" /\ F # {} THEN NoScan ELSE evictor
  BY DEF RemoveFiles
<1>2. /\ removal.by \in {"deleter", "evictor"} /\ removal' = NoRemoval
      /\ UNCHANGED <<store, queued, current, revoked, worker, planner, deleter, canceller,
                     reader, lease, startup, crashes>>
  BY DEF RemoveFiles, fillVars, IInv, TypeOK
<1>3. /\ S \in SUBSET Sessions /\ K \in Keys /\ K.kind = "item" /\ K.of \in Sessions
      /\ K = [kind |-> "item", of |-> K.of]
      /\ K.of \in S \/ Emptied(K.of)
      /\ pending[K] \subseteq S
      /\ removal.by = "deleter" => evictor.pc = "idle"
  BY <1>2 DEF IInv, TypeOK, Removing, Keys
<1> HIDE DEF S, K
<1>4. /\ F \subseteq S /\ faults' \in 0 .. MaxFaults
      /\ cache' \in [Sessions -> {"absent", "partial", "completed"}]
      /\ retired' \in SUBSET Sessions /\ unsaved' \in SUBSET Sessions
      /\ lost' \in SUBSET Sessions /\ outdated' \in SUBSET Sessions
      /\ \A x \in Sessions : Emptied(x) => Emptied(x)'
      /\ \A x \in S \ F : cache'[x] = "absent" /\ x \in retired'
      /\ \A x \in Sessions \ (S \ F) : x \in lost => x \in lost'
  BY <1>1, <1>3, DirectoriesGo
<1>5. /\ pending' \in [Keys -> SUBSET Sessions]
      /\ pending'[K] = F
      /\ \A k \in Keys : k # K => pending'[k] = pending[k]
  BY <1>1, <1>3, <1>4 DEF IInv, TypeOK
<1>6. /\ PassShrinks /\ (evictor.pc = "idle" => evictor'.pc = "idle")
      /\ evictor' \in [pc : {"idle", "scan"}, completed : SUBSET Sessions,
                       partial : SUBSET Sessions, spared : SUBSET Sessions,
                       stable : SUBSET Sessions]
      /\ evictor'.pc = "scan" => F = {}
  BY <1>1, <1>2, <1>3 DEF PassShrinks, NoScan, IInv, TypeOK
<1>7. removal' \in [by : {"nobody", "deleter", "evictor"}, key : Keys, sessions : SUBSET Sessions]
      /\ removal'.sessions = {} /\ removal'.by = "nobody"
  BY <1>2, LifecycleAssumption DEF NoRemoval, Keys
<1>8. TypeOK'
  BY <1>1, <1>2, <1>4, <1>5, <1>6, <1>7 DEF IInv, TypeOK, StopServing
<1>9. RemovalStep(S, F)
  <2>1. Became(store, store', {})
    BY <1>2, StoreStays
  <2>2. \A x \in S : x \in Due /\ x \notin Recorded(store')
    <3>1. \A x \in S : x \in Due
      BY DEF Due, S
    <3> QED BY <1>2, <3>1, DueUnrecorded
  <2>3. \A x \in Sessions : runtime'[x] \in {runtime[x], "none"}
    BY <1>1 DEF StopServing
  <2>4. \A x \in S \ F : runtime'[x] = "none"
    BY <1>1, <1>3 DEF StopServing
  <2>5. \A x \in Sessions \ (S \ F) : Tracked(x) => Tracked(x)'
    <3>1. ASSUME NEW x \in Sessions \ (S \ F), NEW k \in Keys, x \in pending[k]
          PROVE  \E j \in Keys : x \in pending'[j]
      BY <3>1, <1>3, <1>5
    <3>2. ASSUME NEW x \in Sessions \ (S \ F), x \in S
          PROVE  \E j \in Keys : x \in pending'[j]
      BY <3>2, <1>3, <1>5
    <3>3. UNCHANGED <<store, canceller, startup, planner>>
      BY <1>2
    <3> QED BY <1>4, <3>1, <3>2, <3>3 DEF Tracked, S
  <2>6. Due' \subseteq Due
    <3>1. PendingCleanups' \subseteq PendingCleanups \cup F
      BY <1>5 DEF PendingCleanups
    <3> QED BY <1>2, <1>4, <1>7, <2>2, <3>1 DEF Due
  <2>7. store'.vis.state = "Preparing" => evictor'.completed = {}
    BY <1>1, <1>2 DEF IInv, Fresh, NoScan
  <2> QED BY <1>1, <1>2, <1>3, <2>1, <2>2, <2>3, <2>4, <2>5, <2>6, <2>7 DEF RemovalStep
<1>10. Scanning'
  <2>1. store' \in Stores
    BY <1>8 DEF TypeOK, Stores
  <2>2. ASSUME NEW x \in Sessions, evictor'.pc = "scan", pending[[kind |-> "item", of |-> x]] = {}
        PROVE  pending'[[kind |-> "item", of |-> x]] = {}
    <3>1. [kind |-> "item", of |-> x] \in Keys
      BY DEF Keys
    <3>2. CASE [kind |-> "item", of |-> x] = K
      BY <3>2, <1>5, <1>6, <2>2
    <3>3. CASE [kind |-> "item", of |-> x] # K
      BY <3>1, <3>3, <1>5, <2>2
    <3> QED BY <3>2, <3>3
  <2> QED BY <1>2, <1>6, <1>9, <2>1, <2>2, RemovalScans DEF Busy
<1>11. Removing'
  <2>1. \A x \in Sessions : pending'[[kind |-> "session", of |-> x]] \subseteq {x}
    <3>1. \A x \in Sessions : [kind |-> "session", of |-> x] \in Keys
                              /\ [kind |-> "session", of |-> x] # K
      BY <1>3 DEF Keys
    <3> QED BY <1>5, <3>1 DEF IInv, Removing
  <2>2. ASSUME NEW e \in Sessions
        PROVE  LET P == pending'[[kind |-> "item", of |-> e]]
               IN P = {} \/ e \in P \/ Emptied(e)'
    <3> DEFINE k == [kind |-> "item", of |-> e]
    <3>1. k \in Keys /\ k.of = e
      BY DEF Keys
    <3>2. CASE k = K
      <4>1. e \in S \/ Emptied(e)
        BY <1>3, <3>1, <3>2
      <4>2. e \in S \ F => Emptied(e)'
        BY <1>4 DEF Emptied
      <4> QED BY <1>4, <1>5, <3>2, <4>1, <4>2
    <3>3. CASE k # K
      <4>1. pending'[k] = pending[k]
        BY <1>5, <3>1, <3>3
      <4>2. pending[k] = {} \/ e \in pending[k] \/ Emptied(e)
        BY DEF IInv, Removing
      <4> QED BY <1>4, <4>1, <4>2
    <3> QED BY <3>2, <3>3
  <2> QED BY <1>7, <2>1, <2>2 DEF Removing
<1>12. Quiescent'
  BY <1>2 DEF IInv, Quiescent
<1>13. WorkerMoves
  BY <1>2, StoreStays, WorkerStays DEF WorkerTurn
<1> QED BY <1>8, <1>9, <1>10, <1>11, <1>12, <1>13, RemovalMoves

\* The directory of a cancelled fill goes: it was not complete.
LEMMA FillCancelledStep ==
    ASSUME IInv, FillCancelled
    PROVE  IInv'
<1>1. PICK s \in current : cache' = [cache EXCEPT ![s] = "absent"]
  BY DEF FillCancelled
<1>2. /\ worker.pc = "fill" /\ worker' = [pc |-> "decide", outcome |-> "Finished"]
      /\ UNCHANGED <<store, runtime, retired, pending, unsaved, outdated, lost, queued, current,
                     revoked, planner, deleter, canceller, evictor, removal, reader, lease, startup,
                     faults, crashes>>
  BY DEF FillCancelled, Ends
<1>3. s \in Sessions /\ cache[s] # "completed"
  BY <1>1, <1>2 DEF IInv, TypeOK, Filling
<1>4. /\ cache'[s] = "absent" /\ \A x \in Sessions \ {s} : cache'[x] = cache[x]
      /\ cache' \in [Sessions -> {"absent", "partial", "completed"}]
  BY <1>1, <1>3 DEF IInv, TypeOK
<1>5. TypeOK'
  BY <1>2, <1>4 DEF IInv, TypeOK, Outcomes
<1>6. Became(store, store', {}) /\ store' \in Stores
  BY <1>2, StoreStays
<1>7. FileStep({s})
  <2>1. s \in Recorded(store') \/ runtime'[s] = "local" => s \in outdated'
    BY <1>2, <1>3 DEF IInv, Media, HasMedia
  <2>2. Due' \subseteq Due
    BY <1>2 DEF Due, PendingCleanups
  <2>3. store'.vis.state = "Preparing" => evictor'.completed = {}
    BY <1>2 DEF IInv, Fresh
  <2> QED BY <1>2, <1>4, <1>6, <2>1, <2>2, <2>3 DEF FileStep
<1>8. WorkerMoves
  BY <1>2 DEF WorkerMoves
<1>9. HeldIsTracked'
  <2>1. ASSUME NEW x \in Sessions, Held(x)' PROVE Held(x)
    BY <1>2, <1>4, <2>1 DEF Held
  <2>2. \A x \in Sessions : Tracked(x) => Tracked(x)'
    BY <1>2 DEF Tracked
  <2> QED BY <2>1, <2>2 DEF IInv, HeldIsTracked
<1>10. Scanning'
  <2>1. PassShrinks
    BY <1>2 DEF PassShrinks
  <2> QED BY <1>2, <1>3, <1>4, <1>6, <2>1, ScanMoves DEF Busy
<1>11. Removing' /\ Quiescent'
  <2>1. \A x \in Sessions : Emptied(x) => Emptied(x)'
    BY <1>2, <1>4 DEF Emptied
  <2>2. \A x \in Sessions : pending'[[kind |-> "session", of |-> x]] \subseteq {x}
    BY <1>2 DEF IInv, Removing
  <2>3. Removing'
    BY <1>2, <2>1, <2>2, CleanupsStay
  <2>4. Quiescent'
    BY <1>2 DEF IInv, Quiescent
  <2> QED BY <2>3, <2>4
<1>12. {s} \in SUBSET Sessions
  BY <1>3
<1> QED BY <1>5, <1>7, <1>8, <1>9, <1>10, <1>11, <1>12, FilesMove

\* The last file of a fill: the session is busy until it is saved.
LEMMA FillCompletesStep ==
    ASSUME IInv, FillCompletes
    PROVE  IInv'
<1>1. PICK s \in current :
          /\ s \notin retired
          /\ cache' = [cache EXCEPT ![s] = "completed"]
          /\ outdated' = outdated \ {s}
  BY DEF FillCompletes
<1>2. /\ worker.pc = "fill" /\ worker' = [worker EXCEPT !.pc = "publish"]
      /\ UNCHANGED <<store, runtime, retired, pending, unsaved, lost, queued, current,
                     revoked, planner, deleter, canceller, evictor, removal, reader, lease, startup,
                     faults, crashes>>
  BY DEF FillCompletes, Goes
<1>3. s \in Sessions /\ \A x \in current : x = s
  BY <1>1, <1>2 DEF IInv, TypeOK, Filling
<1>4. /\ cache'[s] = "completed" /\ \A x \in Sessions \ {s} : cache'[x] = cache[x]
      /\ cache' \in [Sessions -> {"absent", "partial", "completed"}]
      /\ worker'.pc = "publish" /\ worker' \in [pc : {"publish"}, outcome : Outcomes]
  BY <1>1, <1>2, <1>3 DEF IInv, TypeOK
<1>5. TypeOK'
  BY <1>1, <1>2, <1>3, <1>4 DEF IInv, TypeOK
<1>6. Became(store, store', {}) /\ store' \in Stores
  BY <1>2, StoreStays
<1>7. StoreOK(store')
  BY <1>6 DEF Became
<1>8. DueIsDead'
  <2>1. Due' \subseteq Due
    BY <1>2, <1>4 DEF Due, PendingCleanups
  <2> QED BY <1>6, <2>1, DueMoves
<1>9. Media'
  BY <1>1, <1>2, <1>4 DEF IInv, Media, HasMedia
<1>10. Fresh' /\ store.vis.state # "Preparing"
  BY <1>2 DEF IInv, Fresh
<1>11. HeldIsTracked'
  <2>1. ASSUME NEW x \in Sessions, Held(x)' PROVE Held(x)
    BY <1>1, <1>2, <1>4, <2>1 DEF Held
  <2>2. \A x \in Sessions : Tracked(x) => Tracked(x)'
    BY <1>2 DEF Tracked
  <2> QED BY <2>1, <2>2 DEF IInv, HeldIsTracked
<1>12. Filling'
  BY <1>2, <1>4 DEF IInv, Filling
<1>13. Scanning'
  <2>1. PassShrinks
    BY <1>2 DEF PassShrinks
  <2>2. Busy(s)' /\ \A x \in Sessions : ~Busy(x)
    BY <1>1, <1>2, <1>4 DEF Busy
  <2> QED BY <1>2, <1>4, <1>6, <2>1, <2>2, ScanMoves
<1>14. Removing' /\ Quiescent'
  <2>1. \A x \in Sessions : Emptied(x) => Emptied(x)'
    BY <1>1, <1>2, <1>4 DEF Emptied
  <2>2. \A x \in Sessions : pending'[[kind |-> "session", of |-> x]] \subseteq {x}
    BY <1>2 DEF IInv, Removing
  <2>3. Removing'
    BY <1>2, <2>1, <2>2, CleanupsStay
  <2>4. Quiescent'
    BY <1>2 DEF IInv, Quiescent
  <2> QED BY <2>3, <2>4
<1> QED BY <1>5, <1>7, <1>8, <1>9, <1>10, <1>11, <1>12, <1>13, <1>14 DEF IInv

\* Media that an outdated list takes were not saved yet, or are not offered.
LEMMA EvictPartialStep ==
    ASSUME IInv, NEW e \in Sessions, EvictPartial(e)
    PROVE  IInv'
<1>1. /\ evictor.pc = "scan" /\ e \in evictor.partial /\ e \notin Protected
      /\ cache' = [cache EXCEPT ![e] = IF @ = "completed" THEN "partial" ELSE @]
      /\ outdated' = IF cache[e] = "completed" /\ e \in unsaved THEN outdated \cup {e} ELSE outdated
      /\ evictor' = [evictor EXCEPT !.completed = {}, !.partial = @ \ {e}]
      /\ UNCHANGED <<store, runtime, retired, pending, unsaved, lost, queued, current, revoked,
                     worker, planner, deleter, canceller, removal, reader, lease, startup, faults,
                     crashes>>
  BY DEF EvictPartial, fillVars
<1>2. /\ cache'[e] # "completed" /\ (cache'[e] = "absent" <=> cache[e] = "absent")
      /\ \A x \in Sessions \ {e} : cache'[x] = cache[x]
      /\ cache' \in [Sessions -> {"absent", "partial", "completed"}]
  BY <1>1 DEF IInv, TypeOK
<1>3. /\ evictor'.pc = "scan" /\ evictor'.completed = {} /\ evictor'.partial \subseteq evictor.partial
      /\ evictor'.spared = evictor.spared /\ evictor'.stable = evictor.stable
      /\ evictor' \in [pc : {"idle", "scan"}, completed : SUBSET Sessions,
                       partial : SUBSET Sessions, spared : SUBSET Sessions,
                       stable : SUBSET Sessions]
  BY <1>1 DEF IInv, TypeOK
<1>4. outdated' \in SUBSET Sessions /\ outdated \subseteq outdated'
  BY <1>1 DEF IInv, TypeOK
<1>5. TypeOK'
  BY <1>1, <1>2, <1>3, <1>4 DEF IInv, TypeOK
<1>6. Became(store, store', {}) /\ store' \in Stores
  BY <1>1, StoreStays
<1>7. FileStep({e})
  <2>1. e \in Recorded(store) \/ runtime[e] = "local" => e \in outdated'
    <3>1. SUFFICES ASSUME e \in Recorded(store) \/ runtime[e] = "local" PROVE e \in outdated'
      OBVIOUS
    <3>2. CASE cache[e] = "completed"
      <4>1. e \in unsaved \/ Busy(e)
        BY <1>1, <3>1, <3>2 DEF IInv, Scanning
      <4>2. ~Busy(e)
        BY <1>1 DEF Busy, Protected
      <4> QED BY <1>1, <3>2, <4>1, <4>2
    <3>3. CASE cache[e] # "completed"
      BY <1>4, <3>1, <3>3 DEF IInv, Media, HasMedia
    <3> QED BY <3>2, <3>3
  <2>2. Due' \subseteq Due
    BY <1>1 DEF Due, PendingCleanups
  <2> QED BY <1>1, <1>2, <1>3, <1>4, <1>6, <2>1, <2>2 DEF FileStep
<1>8. WorkerMoves
  BY <1>1, StoreStays, WorkerStays DEF WorkerTurn
<1>9. HeldIsTracked'
  <2>1. ASSUME NEW x \in Sessions, Held(x)' PROVE Held(x)
    BY <1>1, <1>2, <2>1 DEF Held
  <2>2. \A x \in Sessions : Tracked(x) => Tracked(x)'
    BY <1>1 DEF Tracked
  <2> QED BY <2>1, <2>2 DEF IInv, HeldIsTracked
<1>10. Scanning'
  <2>1. PassShrinks
    BY <1>1, <1>3 DEF PassShrinks
  <2> QED BY <1>1, <1>2, <1>6, <2>1, ScanMoves DEF Busy
<1>11. Removing' /\ Quiescent'
  <2>1. \A x \in Sessions : Emptied(x) => Emptied(x)'
    BY <1>1, <1>2 DEF Emptied
  <2>2. Removing'
    BY <1>1, <1>3, <2>1 DEF IInv, Removing, TypeOK, Keys
  <2>3. Quiescent'
    BY <1>1, <1>3 DEF IInv, Quiescent
  <2> QED BY <2>2, <2>3
<1>12. {e} \in SUBSET Sessions
  OBVIOUS
<1> QED BY <1>5, <1>7, <1>8, <1>9, <1>10, <1>11, <1>12, FilesMove

\* The failures of a cancellation become the cleanup of the task; an older
\* cleanup that is replaced is called lost.
LEMMA CancelReturnsStep ==
    ASSUME IInv, CancelReturns
    PROVE  IInv'
<1> DEFINE K == [kind |-> "task", of |-> Primary]
<1>1. /\ canceller.pc = "removing" /\ canceller.todo = {}
      /\ pending' = [pending EXCEPT ![K] = canceller.failed]
      /\ lost' = lost \cup (pending[K] \ canceller.failed)
      /\ canceller' = [pc |-> "idle", todo |-> {}, failed |-> {}]
      /\ UNCHANGED <<store, cache, runtime, retired, unsaved, outdated, queued, current, revoked,
                     worker, planner, deleter, evictor, removal, reader, lease, startup, faults,
                     crashes>>
  BY DEF CancelReturns, fillVars
<1>2. K \in Keys /\ K.kind = "task"
  BY LifecycleAssumption DEF Keys
<1> HIDE DEF K
<1>3. /\ pending' \in [Keys -> SUBSET Sessions] /\ lost' \in SUBSET Sessions
      /\ pending'[K] = canceller.failed
      /\ \A k \in Keys : k # K => pending'[k] = pending[k]
  BY <1>1, <1>2 DEF IInv, TypeOK
<1>4. \A x \in Sessions :
         /\ [kind |-> "item", of |-> x] \in Keys /\ [kind |-> "item", of |-> x] # K
         /\ [kind |-> "session", of |-> x] \in Keys /\ [kind |-> "session", of |-> x] # K
  BY <1>2 DEF Keys
<1>5. TypeOK'
  BY <1>1, <1>3 DEF IInv, TypeOK
<1>6. Became(store, store', {}) /\ store' \in Stores
  BY <1>1, StoreStays
<1>7. FileStep({})
  <2>1. PendingCleanups' \subseteq PendingCleanups \cup canceller.failed
    BY <1>3 DEF PendingCleanups
  <2>2. Due' \subseteq Due
    BY <1>1, <2>1 DEF Due
  <2>3. store'.vis.state = "Preparing" => evictor'.completed = {}
    BY <1>1 DEF IInv, Fresh
  <2> QED BY <1>1, <1>6, <2>2, <2>3 DEF FileStep
<1>8. WorkerMoves
  BY <1>1, StoreStays, WorkerStays DEF WorkerTurn
<1>9. HeldIsTracked'
  <2>1. ASSUME NEW x \in Sessions, Held(x)' PROVE Held(x)
    BY <1>1, <2>1 DEF Held
  <2>2. ASSUME NEW x \in Sessions, x \in canceller.failed PROVE \E k \in Keys : x \in pending'[k]
    BY <1>2, <1>3, <2>2
  <2>3. ASSUME NEW x \in Sessions, NEW k \in Keys, x \in pending[k]
        PROVE  x \in lost' \/ \E j \in Keys : x \in pending'[j]
    BY <1>1, <1>2, <1>3, <2>3
  <2>4. \A x \in Sessions : Tracked(x) => Tracked(x)'
    BY <1>1, <2>2, <2>3 DEF Tracked
  <2> QED BY <2>1, <2>4 DEF IInv, HeldIsTracked
<1>10. Scanning'
  <2>1. PassShrinks
    BY <1>1 DEF PassShrinks
  <2> QED BY <1>1, <1>3, <1>4, <1>6, <2>1, ScanMoves DEF Busy
<1>11. Removing' /\ Quiescent'
  <2>1. \A x \in Sessions : Emptied(x) => Emptied(x)'
    BY <1>1 DEF Emptied
  <2>2. \A x \in Sessions :
           /\ pending'[[kind |-> "item", of |-> x]] = pending[[kind |-> "item", of |-> x]]
           /\ pending'[[kind |-> "session", of |-> x]] = pending[[kind |-> "session", of |-> x]]
    BY <1>3, <1>4
  <2>3. \A x \in Sessions : pending[[kind |-> "session", of |-> x]] \subseteq {x}
    BY DEF IInv, Removing
  <2>4. Removing'
    BY <1>1, <2>1, <2>2, <2>3, CleanupsStay
  <2>5. Quiescent'
    BY <1>1 DEF IInv, Quiescent
  <2> QED BY <2>4, <2>5
<1> QED BY <1>5, <1>7, <1>8, <1>9, <1>10, <1>11, FilesMove

\* A quota pass takes the completed entries S of the group of e.
EvictionFrame(e) ==
    /\ e \in evictor.completed /\ evictor.pc = "scan" /\ removal.by = "nobody"
    /\ UNCHANGED <<cacheVars, fillVars, planner, deleter, canceller, reader, lease, startup, crashes>>
    /\ store' \in Stores /\ faults' \in 0 .. MaxFaults
    /\ Became(store, store', {})

\* A quota pass that gives up.
LEMMA EvictionRests ==
    ASSUME IInv, NEW e, EvictionFrame(e), UNCHANGED removal, evictor' = NoScan,
           KeepsUses(store, store')
    PROVE  IInv'
<1>1. TypeOK'
  BY DEF EvictionFrame, IInv, TypeOK, Stores, cacheVars, fillVars, NoScan
<1>2. CalmStep
  BY DEF EvictionFrame, CalmStep, cacheVars, fillVars
<1>3. WorkerTurn
  BY WorkerStays DEF EvictionFrame, fillVars
<1> QED BY <1>1, <1>2, <1>3, Calm

\* A quota pass that commits to remove a group.
LEMMA EvictionGoes ==
    ASSUME IInv, NEW e, EvictionFrame(e), NEW S \in SUBSET Sessions, e \in S,
           removal' = [by |-> "evictor", key |-> [kind |-> "item", of |-> e], sessions |-> S],
           evictor' = [evictor EXCEPT !.completed = @ \ S, !.partial = @ \ S],
           e \notin evictor.spared,
           \A x \in S : DeadIn(store', x),
           \A x \in Sessions : Uses(store.reg, x) => Uses(store'.reg, x) \/ x \in S,
           KeepsUses(store, store') \/ store'.vis = store'.reg
    PROVE  IInv'
<1>1. e \in Sessions
  BY DEF EvictionFrame, IInv, TypeOK
<1>2. /\ removal' \in [by : {"nobody", "deleter", "evictor"}, key : Keys, sessions : SUBSET Sessions]
      /\ removal'.sessions = S /\ removal'.key = [kind |-> "item", of |-> e]
      /\ removal'.by = "evictor" /\ removal'.key.of = e /\ removal'.key.kind = "item"
  BY <1>1 DEF Keys
<1>3. /\ evictor' \in [pc : {"idle", "scan"}, completed : SUBSET Sessions,
                       partial : SUBSET Sessions, spared : SUBSET Sessions,
                       stable : SUBSET Sessions]
      /\ evictor'.pc = "scan" /\ PassShrinks
  BY DEF EvictionFrame, IInv, TypeOK, PassShrinks
<1>4. TypeOK'
  BY <1>2, <1>3 DEF EvictionFrame, IInv, TypeOK, Stores, cacheVars, fillVars
<1>5. WorkerTurn
  BY WorkerStays DEF EvictionFrame, fillVars
<1>6. removal.sessions = {} /\ pending[[kind |-> "item", of |-> e]] = {}
  BY DEF EvictionFrame, IInv, Removing, Scanning
<1>7. \A x \in Sessions : Tracked(x) => Tracked(x)'
  BY <1>2, <1>6 DEF EvictionFrame, Tracked, cacheVars
<1>8. \A x \in Due' : x \in Due \/ DeadIn(store', x)
  BY <1>2 DEF EvictionFrame, Due, PendingCleanups, cacheVars, fillVars
<1>9. TableStep
  BY <1>3, <1>7, <1>8 DEF EvictionFrame, TableStep, cacheVars
<1>10. Removing'
  BY <1>2, <1>6 DEF EvictionFrame, IInv, Removing, Emptied, cacheVars
<1>11. Quiescent'
  BY DEF EvictionFrame, IInv, Quiescent
<1> QED BY <1>4, <1>5, <1>9, <1>10, <1>11, TablesMove

\* The task, or the item, that the pass takes an entry from.
EvictedItem(e) == IF SecondaryItem(store.vis, e) THEN e ELSE Primary

\* The group of an entry is what the task lets go of when the entry goes.
LEMMA EvictedGroup ==
    ASSUME IInv, NEW e \in Sessions,
           Ready(store.vis), Uses(store.vis, e),
           store.vis.state = "Completed" \/ SecondaryItem(store.vis, e),
           CompletedItem(store.reg, EvictedItem(e))
    PROVE  LET n == RemovedTask(store.reg, EvictedItem(e))
               S == Group(store.vis, e)
           IN /\ n \in Task /\ Succeeds(store.reg, n, {})
              /\ e \in S /\ S \in SUBSET Sessions
              /\ \A x \in S : Dead(n, x)
              /\ \A x \in Sessions : Uses(store.reg, x) => Uses(n, x) \/ x \in S
<1>1. /\ store.reg \in Task /\ Shape(store.reg) /\ store.vis \in Task /\ Shape(store.vis)
      /\ Primary \in Sessions
  BY LifecycleAssumption DEF IInv, TypeOK, StoreOK
<1>2. CASE SecondaryItem(store.vis, e)
  <2>1. EvictedItem(e) = e /\ Group(store.vis, e) = {e}
    BY <1>2 DEF EvictedItem, Group
  <2>2. e # Primary
    BY <1>1, <1>2, LifecycleAssumption DEF SecondaryItem, Shape, Task, TaskStates
  <2> QED BY <1>1, <2>1, <2>2, RemovedSucceeds
<1>3. CASE ~SecondaryItem(store.vis, e)
  <2>1. EvictedItem(e) = Primary /\ Group(store.vis, e) = HlsSessions(store.vis)
    BY <1>3 DEF EvictedItem, Group
  <2>2. \A x \in Sessions : Uses(store.reg, x) => Uses(store.vis, x)
    BY DEF IInv, StoreOK, Follows, Ready
  <2> QED BY <1>1, <2>1, <2>2, RemovedSucceeds DEF HlsSessions
<1> QED BY <1>2, <1>3

\* A quota pass takes a completed entry: the task lets go of it first, or did
\* long ago.
LEMMA EvictCompletedStep ==
    ASSUME IInv, NEW e \in Sessions, EvictCompleted(e)
    PROVE  IInv'
<1> DEFINE S == Group(store.vis, e)
           c == EvictedItem(e)
           owned == Ready(store.vis) /\ Uses(store.vis, e)
                    /\ (store.vis.state = "Completed" \/ SecondaryItem(store.vis, e))
           evict == [by |-> "evictor", key |-> [kind |-> "item", of |-> e], sessions |-> S]
           next == [evictor EXCEPT !.completed = @ \ S, !.partial = @ \ S]
<1>1. /\ evictor.pc = "scan" /\ e \in evictor.completed /\ removal.by = "nobody"
      /\ S \cap Spared(e) = {}
      /\ Evictable(e)
      /\ \/ /\ ~owned
            /\ removal' = evict /\ evictor' = next
            /\ UNCHANGED <<store, faults>>
         \/ evictor' = NoScan /\ UNCHANGED <<removal, store, faults>>
         \/ /\ owned /\ CompletedItem(store.reg, c)
            /\ \E o \in Saves(store, RemovedTask(store.reg, c), "destructive") :
                  /\ Saved(o)
                  /\ \/ o.ok /\ removal' = evict /\ evictor' = next
                     \/ ~o.ok /\ evictor' = NoScan /\ UNCHANGED removal
      /\ UNCHANGED <<cacheVars, fillVars, planner, deleter, canceller, reader, lease, startup,
                     crashes>>
  BY DEF EvictCompleted, DFree, EvictedItem, CompletedItem
<1>2. store \in Stores /\ StoreOK(store) /\ faults \in 0 .. MaxFaults
  BY DEF IInv, TypeOK, Stores
<1>3. store.vis.state # "Preparing" /\ evictor.spared \subseteq evictor.stable
  BY <1>1 DEF IInv, Fresh, Scanning
<1>4. ASSUME store' \in Stores, faults' \in 0 .. MaxFaults, Became(store, store', {})
      PROVE  EvictionFrame(e)
  BY <1>1, <1>4 DEF EvictionFrame
<1>5. CASE evictor' = NoScan /\ UNCHANGED <<removal, store, faults>>
  BY <1>2, <1>4, <1>5, StoreStays, EvictionRests
<1>6. CASE ~owned /\ removal' = evict /\ evictor' = next /\ UNCHANGED <<store, faults>>
  <2>1. S = {e}
    BY <1>6 DEF Group, Ready
  <2>2. store.vis = store.reg /\ store.disk = store.reg
    BY <1>1, <1>2, <1>6 DEF Evictable, StoreOK, Ready
  <2>3. ~(Ready(store.vis) /\ Uses(store.vis, e))
    <3>1. SUFFICES ASSUME Ready(store.vis), Uses(store.vis, e) PROVE FALSE
      OBVIOUS
    <3>2. store.vis.state = "Playable"
      BY <1>6, <3>1 DEF Ready
    <3>3. Spared(e) = evictor.stable
      BY <3>2 DEF Spared
    <3>4. e \notin evictor.stable
      BY <1>1, <2>1, <3>3
    <3> QED BY <1>1, <2>2, <3>1, <3>2, <3>4 DEF IInv, Scanning
  <2>4. DeadIn(store, e)
    BY <1>3, <2>2, <2>3 DEF DeadIn, Dead
  <2>5. e \notin evictor.spared
    BY <1>1, <1>3, <2>1 DEF Spared
  <2>6. EvictionFrame(e) /\ KeepsUses(store, store')
    BY <1>2, <1>4, <1>6, StoreStays
  <2>7. S \in SUBSET Sessions /\ e \in S /\ \A x \in S : DeadIn(store', x)
    BY <2>1, <2>4, <1>6
  <2> QED BY <1>6, <2>5, <2>6, <2>7, EvictionGoes DEF KeepsUses
<1>7. ASSUME owned, CompletedItem(store.reg, c),
             NEW o \in Saves(store, RemovedTask(store.reg, c), "destructive"),
             Saved(o),
             \/ o.ok /\ removal' = evict /\ evictor' = next
             \/ ~o.ok /\ evictor' = NoScan /\ UNCHANGED removal
      PROVE  IInv'
  <2> DEFINE n == RemovedTask(store.reg, c)
  <2>1. /\ n \in Task /\ Succeeds(store.reg, n, {})
        /\ e \in S /\ S \in SUBSET Sessions
        /\ \A x \in S : Dead(n, x)
        /\ \A x \in Sessions : Uses(store.reg, x) => Uses(n, x) \/ x \in S
    BY <1>7, EvictedGroup
  <2>2. o \in Saves(store, n, "destructive")
    BY <1>7
  <2>3. e \notin evictor.spared
    BY <1>1, <1>3, <2>1 DEF Spared
  <2> HIDE DEF n, S
  <2>4. /\ o.store \in Stores /\ o.ok \in BOOLEAN /\ Became(store, o.store, {})
        /\ o.ok => o.store = Durable(store, n)
        /\ ~o.ok => faults < MaxFaults
        /\ ~o.ok => o.store.reg = store.reg
    <3>1. n \in Task /\ Succeeds(store.reg, n, {})
      BY <2>1
    <3> QED BY ONLY <1>2, <3>1, <2>2, SavesBecome
  <2>5. store' = o.store /\ faults' \in 0 .. MaxFaults
    BY <1>2, <1>7, <2>4, SavedFaults
  <2>6. EvictionFrame(e)
    BY <1>4, <2>4, <2>5
  <2>7. CASE ~o.ok
    BY <1>7, <2>4, <2>5, <2>6, <2>7, EvictionRests DEF KeepsUses
  <2>8. CASE o.ok
    <3>1. store'.reg = n /\ store'.vis = n /\ store'.disk = n
      BY <2>4, <2>5, <2>8 DEF Durable
    <3>2. \A x \in S : DeadIn(store', x)
      BY <2>1, <3>1 DEF DeadIn
    <3>3. \A x \in Sessions : Uses(store.reg, x) => Uses(store'.reg, x) \/ x \in S
      BY <2>1, <3>1
    <3>4. removal' = evict /\ evictor' = next
      BY <1>7, <2>8
    <3> QED BY <2>1, <2>3, <2>6, <3>1, <3>2, <3>3, <3>4, EvictionGoes
  <2> QED BY <2>4, <2>7, <2>8
<1> HIDE DEF S, c, owned, evict, next
<1> QED BY <1>1, <1>5, <1>6, <1>7

\* A quota pass lists the directories after it retried the cleanups.
LEMMA EvictBeginStep ==
    ASSUME IInv, startup.resume = {}, EvictBegin
    PROVE  IInv'
<1> DEFINE S == PendingCleanups
<1>1. PICK F \in Removals(S) :
          /\ RemoveDirectories(S, F)
          /\ StopServing(S \ F)
          /\ pending' = [k \in Keys |-> pending[k] \cap F]
          /\ evictor' = [pc |-> "scan",
                         completed |-> {s \in Sessions : cache'[s] = "completed"},
                         partial |-> {s \in Sessions : cache'[s] = "partial"},
                         spared |-> lease \cup F,
                         stable |-> lease \cup F \cup TaskProtected(store.vis)]
  BY DEF EvictBegin, PendingCleanups
<1>2. /\ removal.by = "nobody" /\ evictor.pc = "idle"
      /\ UNCHANGED <<store, queued, current, revoked, worker, planner, deleter, canceller, removal,
                     reader, lease, startup, crashes>>
  BY DEF EvictBegin, QFree, fillVars
<1>3. S \in SUBSET Sessions
  <2>1. \A k \in Keys : pending[k] \subseteq Sessions
    BY DEF IInv, TypeOK
  <2> QED BY <2>1 DEF PendingCleanups
<1>4. /\ F \subseteq S /\ F \subseteq Sessions /\ faults' \in 0 .. MaxFaults
      /\ cache' \in [Sessions -> {"absent", "partial", "completed"}]
      /\ retired' \in SUBSET Sessions /\ unsaved' \in SUBSET Sessions
      /\ lost' \in SUBSET Sessions /\ outdated' \in SUBSET Sessions
      /\ \A x \in Sessions : Emptied(x) => Emptied(x)'
      /\ \A x \in S \ F : cache'[x] = "absent" /\ x \in retired'
      /\ \A x \in Sessions \ (S \ F) : cache'[x] = cache[x] /\ (x \in lost => x \in lost')
  BY <1>1, <1>3, DirectoriesGo
<1>5. /\ pending' \in [Keys -> SUBSET Sessions]
      /\ \A k \in Keys : pending'[k] = pending[k] \cap F /\ pending[k] \subseteq S
  <2>1. \A k \in Keys : pending[k] \subseteq Sessions /\ pending[k] \subseteq S
    BY DEF IInv, TypeOK, PendingCleanups
  <2> QED BY <1>1, <2>1
<1> HIDE DEF S
<1>6. TaskProtected(store.vis) \subseteq Sessions /\ lease \subseteq Sessions
  BY DEF TaskProtected, HlsSessions, IInv, TypeOK
<1>7. evictor' \in [pc : {"idle", "scan"}, completed : SUBSET Sessions,
                    partial : SUBSET Sessions, spared : SUBSET Sessions,
                    stable : SUBSET Sessions]
  BY <1>1, <1>4, <1>6
<1>8. TypeOK'
  BY <1>1, <1>2, <1>4, <1>5, <1>7 DEF IInv, TypeOK, StopServing
<1>9. store.vis.state = "Preparing" => \A x \in Sessions : cache'[x] # "completed"
  BY <1>3, <1>4 DEF IInv, Fresh
<1>10. RemovalStep(S, F)
  <2>1. Became(store, store', {})
    BY <1>2, StoreStays
  <2>2. \A x \in S : x \in Due /\ x \notin Recorded(store')
    <3>1. \A x \in S : x \in Due
      BY DEF Due, S
    <3> QED BY <1>2, <3>1, DueUnrecorded
  <2>3. \A x \in Sessions : runtime'[x] \in {runtime[x], "none"}
    BY <1>1 DEF StopServing
  <2>4. \A x \in S \ F : runtime'[x] = "none"
    BY <1>1, <1>3 DEF StopServing
  <2>5. \A x \in Sessions \ (S \ F) : Tracked(x) => Tracked(x)'
    <3>1. ASSUME NEW x \in Sessions \ (S \ F), NEW k \in Keys, x \in pending[k]
          PROVE  \E j \in Keys : x \in pending'[j]
      <4>1. x \in pending'[k]
        BY <3>1, <1>5
      <4> QED BY <4>1
    <3>2. UNCHANGED <<store, removal, canceller, startup, planner>>
      BY <1>2
    <3> QED BY <1>4, <3>1, <3>2 DEF Tracked
  <2>6. Due' \subseteq Due
    <3>1. PendingCleanups' \subseteq PendingCleanups
      BY <1>5 DEF PendingCleanups
    <3> QED BY <1>2, <3>1 DEF Due
  <2>7. store'.vis.state = "Preparing" => evictor'.completed = {}
    BY <1>1, <1>2, <1>9
  <2> QED BY <1>1, <1>2, <1>3, <2>1, <2>2, <2>3, <2>4, <2>5, <2>6, <2>7 DEF RemovalStep
<1>11. Scanning'
  <2>1. ASSUME NEW e \in evictor'.completed \ evictor'.stable, store'.reg.state = "Playable"
        PROVE  ~Uses(store'.reg, e)
    <3>1. e \in Sessions /\ cache'[e] = "completed" /\ e \notin TaskProtected(store.vis)
      BY <1>1, <2>1
    <3>2. store.vis.state # "Preparing" /\ Follows(store.vis, store.reg)
      BY <1>9, <3>1 DEF IInv, StoreOK
    <3>3. store.vis.state = "Playable"
      BY <1>2, <2>1, <3>2 DEF Follows
    <3>4. ~Uses(store.vis, e)
      BY <3>1, <3>3 DEF TaskProtected, HlsSessions
    <3> QED BY <1>2, <3>1, <3>2, <3>4 DEF Follows
  <2>2. ASSUME NEW e \in evictor'.completed
        PROVE  pending'[[kind |-> "item", of |-> e]] = {} \/ e \in evictor'.spared
    <3> DEFINE k == [kind |-> "item", of |-> e]
    <3>1. e \in Sessions /\ cache'[e] = "completed" /\ evictor'.spared = lease \cup F
      BY <1>1, <2>2
    <3>2. k \in Keys
      BY <3>1 DEF Keys
    <3>3. ~Emptied(e)
      BY <1>4, <3>1 DEF Emptied
    <3>4. pending[k] = {} \/ e \in pending[k]
      BY <3>1, <3>3 DEF IInv, Removing
    <3>5. e \in S => e \in F
      BY <1>4, <3>1
    <3> QED BY <1>5, <3>1, <3>2, <3>4, <3>5
  <2>3. \A e \in evictor'.partial : cache'[e] # "completed"
    BY <1>1
  <2>4. evictor'.spared \subseteq evictor'.stable
    BY <1>1
  <2> QED BY <2>1, <2>2, <2>3, <2>4 DEF Scanning
<1>12. Removing'
  <2>1. \A x \in Sessions : pending'[[kind |-> "session", of |-> x]] \subseteq {x}
    <3>1. \A x \in Sessions : [kind |-> "session", of |-> x] \in Keys
      BY DEF Keys
    <3>2. \A x \in Sessions : pending[[kind |-> "session", of |-> x]] \subseteq {x}
      BY DEF IInv, Removing
    <3> QED BY <1>5, <3>1, <3>2
  <2>2. ASSUME NEW e \in Sessions
        PROVE  LET P == pending'[[kind |-> "item", of |-> e]]
               IN P = {} \/ e \in P \/ Emptied(e)'
    <3> DEFINE k == [kind |-> "item", of |-> e]
    <3>1. k \in Keys
      BY DEF Keys
    <3>2. pending[k] = {} \/ e \in pending[k] \/ Emptied(e)
      BY DEF IInv, Removing
    <3>3. e \in S \ F => Emptied(e)'
      BY <1>4 DEF Emptied
    <3> QED BY <1>4, <1>5, <3>1, <3>2, <3>3
  <2> QED BY <1>2, <2>1, <2>2 DEF IInv, Removing
<1>13. Quiescent'
  BY <1>2 DEF IInv, Quiescent
<1>14. WorkerMoves
  BY <1>2, StoreStays, WorkerStays DEF WorkerTurn
<1> QED BY <1>8, <1>10, <1>11, <1>12, <1>13, <1>14, RemovalMoves

\* What is authorized is used, and what is complete is authorized if its files
\* are there.
LEMMA AuthorizedIsUsed ==
    ASSUME NEW t \in Task, Shape(t), NEW s \in Sessions
    PROVE  /\ Authorized(t, s) => Uses(t, s)
           /\ CompletedItem(t, s) => Authorized(t, s) \/ cache[s] # "completed"
BY LifecycleAssumption DEF Authorized, Uses, Ready, CompletedItem, Shape, Task, TaskStates

\* The reconciliation of a quarantined session uses or removes it.
LEMMA ReconcileStep ==
    ASSUME IInv, NEW s \in Sessions, startup.resume = {}, Reconcile(s)
    PROVE  IInv'
<1>1. /\ removal.by = "nobody" /\ evictor.pc = "idle"
      /\ UNCHANGED <<fillVars, planner, deleter, canceller, evictor, removal, reader, lease, crashes>>
  BY DEF Reconcile, QFree
<1>2. ASSUME NEW r \in Recoveries, Saved(r), UNCHANGED <<cacheVars, startup>>
      PROVE  IInv'
  <2>1. store' \in Stores /\ faults' \in 0 .. MaxFaults /\ Mild(store, store', {})
    BY <1>2, Recovered
  <2>2. TypeOK'
    BY <1>1, <1>2, <2>1 DEF IInv, TypeOK, Stores, cacheVars, fillVars
  <2>3. CalmStep
    BY <1>1, <1>2, <2>1 DEF CalmStep, cacheVars, fillVars, Mild
  <2>4. WorkerTurn
    BY <1>1, <2>1, WorkerStays DEF fillVars, Mild
  <2> QED BY <2>2, <2>3, <2>4, Calm
<1>3. ASSUME NEW r \in Recoveries, r.ok, Authorized(r.store.vis, s), Saved(r),
             startup' = [startup EXCEPT !.quarantined = @ \ {s}], UNCHANGED cacheVars
      PROVE  IInv'
  <2>1. /\ store' \in Stores /\ faults' \in 0 .. MaxFaults /\ Mild(store, store', {})
        /\ store' = r.store /\ r.store.vis = store.reg /\ store'.reg = store.reg
        /\ store.reg \in Task /\ Shape(store.reg)
    BY <1>3, Recovered
  <2>2. /\ startup' \in [resume : SUBSET Sessions, quarantined : SUBSET Sessions,
                         owned : SUBSET Sessions]
        /\ startup'.resume = startup.resume
        /\ startup'.quarantined = startup.quarantined \ {s}
    BY <1>3 DEF IInv, TypeOK
  <2>3. TypeOK'
    BY <1>1, <1>3, <2>1, <2>2 DEF IInv, TypeOK, Stores, cacheVars, fillVars
  <2>4. Uses(store'.reg, s)
    BY <1>3, <2>1, AuthorizedIsUsed
  <2>5. \A x \in Sessions : Tracked(x) => Tracked(x)'
    BY <1>1, <1>3, <2>1, <2>2, <2>4 DEF Tracked, cacheVars
  <2>6. Due' = Due
    BY <1>1, <1>3 DEF Due, PendingCleanups, cacheVars, fillVars
  <2>7. TableStep
    BY <1>1, <1>3, <2>1, <2>5, <2>6 DEF TableStep, PassShrinks, cacheVars, Mild
  <2>8. WorkerTurn
    BY <1>1, <2>1, WorkerStays DEF fillVars, Mild
  <2>9. Removing' /\ Quiescent'
    BY <1>1, <1>3, <2>2 DEF IInv, Removing, Quiescent, Emptied, cacheVars, fillVars
  <2> QED BY <2>3, <2>7, <2>8, <2>9, TablesMove
<1>4. ASSUME NEW r \in Recoveries, r.ok, ~Authorized(r.store.vis, s), store' = r.store,
             NEW F \in Removals({s}), RemoveDirectories({s}, F), StopServing({s} \ F),
             startup' = [startup EXCEPT !.quarantined = (@ \ {s}) \cup F], UNCHANGED pending
      PROVE  IInv'
  <2>1. /\ store' \in Stores /\ Mild(store, store', {})
        /\ r.store.vis = store.reg /\ store'.vis = store.reg /\ store'.reg = store.reg
        /\ store'.disk = store.reg
        /\ store.reg \in Task /\ Shape(store.reg)
    BY <1>4, Recovered
  <2>2. /\ F \subseteq {s} /\ F \subseteq Sessions /\ faults' \in 0 .. MaxFaults
        /\ cache' \in [Sessions -> {"absent", "partial", "completed"}]
        /\ retired' \in SUBSET Sessions /\ unsaved' \in SUBSET Sessions
        /\ lost' \in SUBSET Sessions /\ outdated' \in SUBSET Sessions
        /\ \A x \in Sessions \ ({s} \ F) : x \in lost => x \in lost'
        /\ \A x \in Sessions : Emptied(x) => Emptied(x)'
    BY <1>4, DirectoriesGo
  <2>3. /\ startup' \in [resume : SUBSET Sessions, quarantined : SUBSET Sessions,
                         owned : SUBSET Sessions]
        /\ startup'.resume = startup.resume
        /\ startup'.quarantined = (startup.quarantined \ {s}) \cup F
    BY <1>4, <2>2 DEF IInv, TypeOK
  <2>4. TypeOK'
    BY <1>1, <1>4, <2>1, <2>2, <2>3 DEF IInv, TypeOK, Stores, fillVars, StopServing
  <2>5. RemovalStep({s}, F)
    <3>1. s \in Recorded(store') => s \in outdated
      <4>1. SUFFICES ASSUME CompletedItem(store.reg, s) PROVE s \in outdated
        BY <2>1 DEF Recorded
      <4>2. cache[s] # "completed"
        BY <1>4, <2>1, <4>1, AuthorizedIsUsed
      <4> QED BY <4>1, <4>2 DEF IInv, Media, HasMedia, Recorded
    <3>2. \A x \in Sessions : runtime'[x] \in {runtime[x], "none"}
      BY <1>4 DEF StopServing
    <3>3. \A x \in {s} \ F : runtime'[x] = "none"
      BY <1>4 DEF StopServing
    <3>4. \A x \in Sessions \ ({s} \ F) : Tracked(x) => Tracked(x)'
      BY <1>1, <1>4, <2>1, <2>2, <2>3 DEF Tracked
    <3>5. Due' \subseteq Due
      BY <1>1, <1>4 DEF Due, PendingCleanups, fillVars
    <3>6. store'.vis.state = "Preparing" => evictor'.completed = {}
      <4>1. store'.vis.state = "Preparing" => store.vis.state = "Preparing"
        BY <2>1, PlannedStays DEF Mild
      <4> QED BY <1>1, <4>1 DEF IInv, Fresh
    <3> QED BY <1>1, <1>4, <2>1, <3>1, <3>2, <3>3, <3>4, <3>5, <3>6 DEF RemovalStep, Mild, fillVars
  <2>6. Scanning'
    BY <1>1 DEF Scanning
  <2>7. Removing' /\ Quiescent'
    <3>1. \A x \in Sessions : pending'[[kind |-> "session", of |-> x]] \subseteq {x}
      BY <1>4 DEF IInv, Removing
    <3>2. Removing'
      BY <1>1, <1>4, <2>2, <3>1, CleanupsStay
    <3>3. Quiescent'
      BY <1>1, <2>3 DEF IInv, Quiescent
    <3> QED BY <3>2, <3>3
  <2>8. WorkerMoves
    BY <1>1, <2>1, WorkerStays DEF WorkerTurn, fillVars, Mild
  <2> QED BY <2>4, <2>5, <2>6, <2>7, <2>8, RemovalMoves
<1> QED BY <1>2, <1>3, <1>4 DEF Reconcile

\* Planning, before the worker or a quota pass has anything to do with it.
LEMMA PlanMoves ==
    ASSUME IInv, TypeOK', store.vis.state = "Preparing",
           Became(store, store', {}), NEW S \in SUBSET Sessions,
           runtime' = [x \in Sessions |-> IF x \in S THEN "online" ELSE runtime[x]],
           \/ cache' = [x \in Sessions |-> IF x \in S /\ cache[x] = "absent" THEN "partial" ELSE cache[x]]
           \/ cache' = cache,
           UNCHANGED <<retired, pending, unsaved, outdated, lost, current, worker, deleter, canceller,
                       evictor, removal, startup>>,
           HeldIsTracked'
    PROVE  IInv'
<1>1. \A x \in Sessions : cache[x] # "completed" /\ cache'[x] # "completed"
  BY DEF IInv, TypeOK, Fresh
<1>2. store' \in Stores
  BY DEF TypeOK, Stores
<1>3. FileStep(Sessions)
  <2>1. Recorded(store') \subseteq Recorded(store)
    BY DEF Became
  <2>2. \A x \in Sessions : runtime'[x] = "local" => runtime[x] = "local"
    OBVIOUS
  <2>3. \A x \in Sessions : x \in Recorded(store') \/ runtime'[x] = "local" => x \in outdated
    BY <1>1, <2>1, <2>2 DEF IInv, Media, HasMedia
  <2>4. Due' = Due
    BY DEF Due, PendingCleanups
  <2>5. evictor'.completed = {}
    BY DEF IInv, Fresh
  <2> QED BY <1>1, <2>2, <2>3, <2>4, <2>5 DEF FileStep
<1>4. WorkerMoves
  BY DEF IInv, Fresh, WorkerMoves
<1>5. Scanning'
  <2>1. PassShrinks
    BY DEF PassShrinks
  <2> QED BY <1>1, <1>2, <2>1, ScanMoves
<1>6. Removing'
  <2>1. \A x \in Sessions : Emptied(x) => Emptied(x)'
    BY <1>1 DEF Emptied
  <2>2. \A x \in Sessions : pending'[[kind |-> "session", of |-> x]] \subseteq {x}
    BY DEF IInv, Removing
  <2> QED BY <2>1, <2>2, CleanupsStay
<1>7. Quiescent'
  BY DEF IInv, Quiescent
<1> QED BY <1>3, <1>4, <1>5, <1>6, <1>7, FilesMove

\* A published result gets its manifest while the task is being planned.
LEMMA PlanResultStep ==
    ASSUME IInv, NEW s \in Sessions, PlanResult(s)
    PROVE  IInv'
<1> DEFINE n == [store.reg EXCEPT !.item[s] = "playable"]
<1>1. /\ s \in Items /\ planner = "planning"
      /\ store.vis.state = "Preparing" /\ store.reg.state = "Preparing"
      /\ UNCHANGED <<retired, pending, unsaved, outdated, lost, queued, current, revoked, worker,
                     planner, deleter, canceller, evictor, removal, reader, lease, startup, crashes>>
  BY DEF PlanResult, fillVars
<1>2. PICK o \in Saves(store, n, "keep") :
          /\ store' = o.store
          /\ faults' = IF o.ok /\ cache'[s] # "absent" THEN faults ELSE faults + 1
  BY DEF PlanResult
<1>3. store \in Stores /\ StoreOK(store) /\ store.reg \in Task /\ Shape(store.reg)
  BY DEF IInv, TypeOK, Stores, StoreOK
<1>4. n \in Task /\ Succeeds(store.reg, n, {})
  BY <1>1, <1>3, ResultSucceeds
<1> HIDE DEF n
<1>5. /\ o.store \in Stores /\ o.ok \in BOOLEAN /\ Became(store, o.store, {})
      /\ ~o.ok => faults < MaxFaults
  BY <1>2, <1>3, <1>4, SavesBecome
<1>6. /\ runtime' = [x \in Sessions |-> IF x \in {s} THEN "online" ELSE runtime[x]]
      /\ \/ cache' = [x \in Sessions |-> IF x \in {s} /\ cache[x] = "absent"
                                         THEN "partial" ELSE cache[x]]
         \/ faults < MaxFaults /\ cache' = cache
  BY DEF PlanResult, SaveManifest
<1>7. faults' \in 0 .. MaxFaults
  <2>1. cache'[s] = "absent" => faults < MaxFaults
    BY <1>6
  <2> QED BY <1>2, <1>5, <2>1, LifecycleAssumption DEF IInv, TypeOK
<1>8. TypeOK'
  BY <1>1, <1>2, <1>5, <1>6, <1>7 DEF IInv, TypeOK, Stores
<1>9. HeldIsTracked'
  BY <1>1 DEF HeldIsTracked, Tracked
<1>10. Became(store, store', {}) /\ {s} \in SUBSET Sessions
  BY <1>2, <1>5
<1> QED BY <1>1, <1>6, <1>8, <1>9, <1>10, PlanMoves

\* The published plan uses every session that has a manifest.
LEMMA PlanCompleteStep ==
    ASSUME IInv, PlanComplete
    PROVE  IInv'
<1> DEFINE n == PlayableTask(store.reg)
           S == Sessions \ Items
<1>1. /\ planner' = "done" /\ queued' = queued \cup Sessions
      /\ store.vis.state = "Preparing" /\ store.reg.state = "Preparing"
      /\ UNCHANGED <<retired, pending, unsaved, outdated, lost, current, revoked, worker,
                     deleter, canceller, evictor, removal, reader, lease, startup, crashes>>
  BY DEF PlanComplete
<1>2. PICK o \in Saves(store, n, "keep") :
          /\ store' = o.store
          /\ faults' = IF o.ok /\ \A s \in S : cache'[s] # "absent" THEN faults ELSE faults + 1
  BY DEF PlanComplete
<1>3. store \in Stores /\ StoreOK(store) /\ store.reg \in Task /\ Shape(store.reg)
  BY DEF IInv, TypeOK, Stores, StoreOK
<1>4. n \in Task /\ Succeeds(store.reg, n, {}) /\ \A s \in Sessions : Uses(n, s)
  BY <1>1, <1>3, PlannedSucceeds
<1> HIDE DEF n
<1>5. /\ o.store \in Stores /\ o.ok \in BOOLEAN /\ Became(store, o.store, {})
      /\ ~o.ok => faults < MaxFaults
      /\ o.store.reg = n
  BY <1>2, <1>3, <1>4, SavesBecome
<1>6. /\ runtime' = [x \in Sessions |-> IF x \in S THEN "online" ELSE runtime[x]]
      /\ \/ cache' = [x \in Sessions |-> IF x \in S /\ cache[x] = "absent"
                                         THEN "partial" ELSE cache[x]]
         \/ faults < MaxFaults /\ cache' = cache
  BY DEF PlanComplete, SaveManifest
<1>7. faults' \in 0 .. MaxFaults
  <2>1. (\E s \in S : cache'[s] = "absent") => faults < MaxFaults
    BY <1>6
  <2> QED BY <1>2, <1>5, <2>1, LifecycleAssumption DEF IInv, TypeOK
<1>8. TypeOK'
  BY <1>1, <1>2, <1>5, <1>6, <1>7 DEF IInv, TypeOK, Stores
<1>9. HeldIsTracked'
  BY <1>2, <1>4, <1>5 DEF HeldIsTracked, Tracked
<1>10. Became(store, store', {}) /\ S \in SUBSET Sessions
  BY <1>2, <1>5
<1> HIDE DEF S
<1> QED BY <1>1, <1>6, <1>8, <1>9, <1>10, PlanMoves

-----------------------------------------------------------------------------
(* A restart.                                                               *)

\* from_persisted_state ends a task whose planning was interrupted.
LEMMA RestoredFollows ==
    ASSUME NEW t \in Task, Shape(t)
    PROVE  LET R == RestoredTask(t)
           IN /\ R \in Task /\ Shape(R)
              /\ R = t \/ (t.state \in {"Preparing", "CancelRequested"} /\ R.state = "Ended")
              /\ R.state \notin {"Preparing", "CancelRequested"}
              /\ \A s \in Sessions : CompletedItem(R, s) => CompletedItem(t, s)
<1>1. CASE t.state \in {"Preparing", "CancelRequested"}
  <2>1. RestoredTask(t) = EndedTask(t) /\ EndedTask(t).state = "Ended"
    BY <1>1 DEF RestoredTask, EndedTask, Task, TaskStates
  <2>2. /\ EndedTask(t) \in Task /\ Succeeds(t, EndedTask(t), {})
    BY EndedSucceeds
  <2> QED BY <1>1, <2>1, <2>2 DEF Succeeds
<1>2. CASE t.state \notin {"Preparing", "CancelRequested"}
  BY <1>2 DEF RestoredTask
<1> QED BY <1>1, <1>2

\* fail_unrestorable_playback_tasks drops what has no files.
LEMMA ReconciledFollows ==
    ASSUME NEW t \in Task, Shape(t), t.state \notin {"Preparing", "CancelRequested"}
    PROVE  LET n == Reconciled(t)
           IN /\ n \in Task /\ Succeeds(t, n, {}) /\ n.state # "Preparing"
              /\ t.state = "Ended" => n = t
<1>1. CASE ~Ready(t)
  BY <1>1, FollowsItself DEF Reconciled, Succeeds
<1>2. CASE Ready(t) /\ (cache[Primary] = "absent" \/ (t.state = "Completed" /\ cache[Primary] # "completed"))
  <2>1. Reconciled(t) = EndedTask(t)
    BY <1>2 DEF Reconciled
  <2>2. EndedTask(t).state = "Ended"
    BY DEF EndedTask, Task, TaskStates
  <2> QED BY <1>2, <2>1, <2>2, EndedSucceeds DEF Ready
<1>3. CASE Ready(t) /\ ~(cache[Primary] = "absent" \/ (t.state = "Completed" /\ cache[Primary] # "completed"))
  <2> DEFINE f == [s \in Sessions |->
                     IF \/ t.item[s] = "playable" /\ cache[s] # "absent"
                        \/ t.item[s] = "completed" /\ cache[s] = "completed" THEN t.item[s] ELSE "none"]
  <2>1. Reconciled(t) = [t EXCEPT !.item = f]
    BY <1>3 DEF Reconciled
  <2>2. /\ f \in [Sessions -> {"none", "playable", "completed"}]
        /\ \A s \in Sessions : f[s] \in {t.item[s], "none"}
    BY DEF Task
  <2>3. Primary \in Items => f[Primary] = t.item[Primary]
    BY <1>3, LifecycleAssumption DEF Shape, Ready
  <2> DEFINE n == [t EXCEPT !.item = f]
  <2> HIDE DEF f
  <2>4. n \in Task /\ n.state = t.state /\ n.item = f
    BY <2>2 DEF Task, TaskStates
  <2> HIDE DEF n
  <2>5. Succeeds(t, n, {})
    BY <1>3, <2>2, <2>3, <2>4, LifecycleAssumption
    DEF Succeeds, Shape, Follows, Ready, Uses, CompletedItem
  <2>6. Reconciled(t) = n
    BY <2>1 DEF n
  <2> QED BY <1>3, <2>4, <2>5, <2>6 DEF Ready
<1> QED BY <1>1, <1>2, <1>3

\* The registry that a restart reads, and what it may have saved of its own.
LEMMA RestartSaves ==
    ASSUME store \in Stores, Shape(store.disk),
           NEW o \in LET t == Reconciled(RestoredTask(store.disk))
                         b == [store EXCEPT !.reg = RestoredTask(store.disk),
                                            !.vis = RestoredTask(store.disk), !.avail = TRUE]
                     IN IF t = store.disk THEN {[ok |-> TRUE, store |-> b]} ELSE Saves(b, t, "keep")
    PROVE  LET t == Reconciled(RestoredTask(store.disk))
           IN /\ o.store \in Stores /\ o.ok \in BOOLEAN /\ (~o.ok => faults < MaxFaults)
              /\ StoreOK(o.store)
              /\ t \in Task /\ Shape(t)
              /\ o.store.reg = t /\ o.store.vis.state # "Preparing"
              /\ o.ok => o.store.vis = t /\ o.store.disk = t
              /\ Recorded(o.store) \subseteq Recorded(store)
<1> DEFINE R == RestoredTask(store.disk)
           t == Reconciled(R)
           b == [store EXCEPT !.reg = R, !.vis = R, !.avail = TRUE]
           d == store.disk
<1>1. /\ d \in Task /\ R \in Task /\ Shape(R)
      /\ R = d \/ (d.state \in {"Preparing", "CancelRequested"} /\ R.state = "Ended")
      /\ R.state \notin {"Preparing", "CancelRequested"}
      /\ \A s \in Sessions : CompletedItem(R, s) => CompletedItem(d, s)
  BY RestoredFollows DEF Stores
<1> HIDE DEF R
<1>2. /\ t \in Task /\ Succeeds(R, t, {}) /\ t.state # "Preparing"
      /\ R.state = "Ended" => t = R
  BY <1>1, ReconciledFollows
<1> HIDE DEF t
<1>3. Shape(t) /\ Follows(R, t) /\ Follows(t, t) /\ Follows(R, R)
      /\ \A s \in Sessions : CompletedItem(t, s) => CompletedItem(d, s)
  BY <1>1, <1>2, FollowsItself DEF Succeeds
<1>4. o \in IF t = d THEN {[ok |-> TRUE, store |-> b]} ELSE Saves(b, t, "keep")
  BY DEF t, b, d, R
<1>5. b \in Stores /\ b.reg = R /\ b.vis = R /\ b.disk = d /\ b.avail = TRUE
  BY <1>1 DEF Stores
<1> HIDE DEF b, d
<1>6. /\ o.ok \in BOOLEAN /\ (~o.ok => faults < MaxFaults)
      /\ o.store \in Stores /\ o.store.reg = t /\ o.store.vis \in {R, t} /\ o.store.disk \in {d, t}
      /\ o.ok => o.store.vis = t /\ o.store.disk = t
      /\ o.store.avail => o.ok
  <2>1. CASE t = d
    <3>1. o.ok = TRUE /\ o.store = b
      BY <1>4, <2>1
    <3>2. R = d
      <4>1. CASE R # d
        BY <1>1, <1>2, <2>1, <4>1
      <4> QED BY <4>1
    <3> QED BY <1>5, <2>1, <3>1, <3>2
  <2>2. CASE o = [ok |-> TRUE, store |-> Durable(b, t)]
    BY <1>2, <2>2 DEF Durable, Stores
  <2>3. CASE \E f \in FailedSaves(b, t, "keep") : o = [ok |-> FALSE, store |-> f] /\ faults < MaxFaults
    <3>1. PICK f \in FailedSaves(b, t, "keep") : o = [ok |-> FALSE, store |-> f] /\ faults < MaxFaults
      BY <2>3
    <3>2. \/ f = [b EXCEPT !.reg = t, !.avail = FALSE]
          \/ \E e \in {b.disk, t} : f = [reg |-> t, vis |-> t, disk |-> e, avail |-> FALSE]
      BY <3>1 DEF FailedSaves
    <3>3. f \in Stores /\ f.reg = t /\ f.vis \in {R, t} /\ f.disk \in {d, t} /\ f.avail = FALSE
      <4>1. CASE f = [b EXCEPT !.reg = t, !.avail = FALSE]
        BY <1>1, <1>2, <1>5, <4>1 DEF Stores
      <4>2. ASSUME NEW e \in {b.disk, t}, f = [reg |-> t, vis |-> t, disk |-> e, avail |-> FALSE]
            PROVE  f \in Stores /\ f.reg = t /\ f.vis \in {R, t} /\ f.disk \in {d, t} /\ f.avail = FALSE
        <5>1. e \in {d, t} /\ e \in Task
          BY <1>1, <1>2, <1>5, <4>2
        <5> QED BY <1>2, <4>2, <5>1 DEF Stores
      <4> QED BY <3>2, <4>1, <4>2
    <3> QED BY <3>1, <3>3
  <2> QED BY <1>4, <2>1, <2>2, <2>3 DEF Saves
<1>7. Shape(d)
  BY DEF d
<1>8. StoreOK(o.store)
  BY <1>1, <1>3, <1>6, <1>7 DEF StoreOK
<1>9. Recorded(o.store) \subseteq Recorded(store)
  BY <1>1, <1>3, <1>6 DEF Recorded, d
<1> QED BY <1>1, <1>2, <1>3, <1>6, <1>8, <1>9 DEF t, R

\* A crash and restart: what is offered has its files, and what has files is
\* claimed or quarantined.
LEMMA RestartStep ==
    ASSUME IInv, Restart
    PROVE  IInv'
<1> DEFINE R == RestoredTask(store.disk)
           t == Reconciled(R)
           b == [store EXCEPT !.reg = R, !.vis = R, !.avail = TRUE]
           present == {s \in Sessions : cache[s] # "absent"}
           claimed == {s \in present : Authorized(t, s)}
<1>1. /\ crashes < MaxCrashes /\ crashes' = crashes + 1
      /\ queued' = {} /\ current' = {} /\ revoked' = FALSE
      /\ worker' = [pc |-> "idle", outcome |-> "Finished"]
      /\ planner' = "done"
      /\ deleter' = [pc |-> "idle", item |-> Primary, sessions |-> {}]
      /\ canceller' = [pc |-> "idle", todo |-> {}, failed |-> {}]
      /\ evictor' = NoScan
      /\ removal' = NoRemoval
      /\ pending' = [k \in Keys |-> {}]
      /\ reader' = {} /\ lease' = {}
  BY DEF Restart
<1>2. PICK o \in IF t = store.disk THEN {[ok |-> TRUE, store |-> b]} ELSE Saves(b, t, "keep") :
         \E F \in IF ~o.ok THEN {present} ELSE
                   IF faults < MaxFaults THEN SUBSET (present \ claimed) ELSE {{}} :
             LET kept == IF o.ok THEN claimed ELSE present IN
             /\ store' = o.store
             /\ faults' = IF o.ok /\ F = {} THEN faults ELSE faults + 1
             /\ cache' = [s \in Sessions |-> IF s \in kept \cup F THEN cache[s] ELSE "absent"]
             /\ retired' = present \ (kept \cup F)
             /\ runtime' = [s \in Sessions |->
                    IF ~o.ok \/ s \notin claimed THEN "none"
                    ELSE IF CompletedItem(t, s) /\ cache[s] = "completed" THEN "local" ELSE "online"]
             /\ UNCHANGED outdated
             /\ unsaved' = {}
             /\ lost' = {}
             /\ startup' = [quarantined |-> F, owned |-> {}, resume |-> kept]
  BY DEF Restart
<1> DEFINE kept == IF o.ok THEN claimed ELSE present
<1>3. PICK F \in IF ~o.ok THEN {present} ELSE
                   IF faults < MaxFaults THEN SUBSET (present \ claimed) ELSE {{}} :
             /\ store' = o.store
             /\ faults' = IF o.ok /\ F = {} THEN faults ELSE faults + 1
             /\ cache' = [s \in Sessions |-> IF s \in kept \cup F THEN cache[s] ELSE "absent"]
             /\ retired' = present \ (kept \cup F)
             /\ runtime' = [s \in Sessions |->
                    IF ~o.ok \/ s \notin claimed THEN "none"
                    ELSE IF CompletedItem(t, s) /\ cache[s] = "completed" THEN "local" ELSE "online"]
             /\ UNCHANGED outdated
             /\ unsaved' = {}
             /\ lost' = {}
             /\ startup' = [quarantined |-> F, owned |-> {}, resume |-> kept]
  BY <1>2
<1>4. store \in Stores /\ Shape(store.disk)
  BY DEF IInv, TypeOK, Stores, StoreOK
<1>5. /\ o.store \in Stores /\ o.ok \in BOOLEAN /\ (~o.ok => faults < MaxFaults)
      /\ StoreOK(o.store)
      /\ t \in Task /\ Shape(t)
      /\ o.store.reg = t /\ o.store.vis.state # "Preparing"
      /\ o.ok => o.store.vis = t /\ o.store.disk = t
      /\ Recorded(o.store) \subseteq Recorded(store)
  BY <1>2, <1>4, RestartSaves
<1> HIDE DEF R, t, b
<1>6. /\ present \subseteq Sessions /\ claimed \subseteq present /\ kept \subseteq present
      /\ F \subseteq present /\ (~o.ok => F = present)
      /\ (F # {} => faults < MaxFaults)
      /\ \A s \in claimed : Authorized(t, s)
      /\ \A s \in Sessions : s \in present <=> cache[s] # "absent"
      /\ \A s \in present : Authorized(t, s) => s \in claimed
  BY <1>3, <1>5
<1>7. /\ o.ok => kept = claimed
      /\ ~o.ok => kept = present
  OBVIOUS
<1> HIDE DEF present, claimed, kept
<1>8. faults' \in 0 .. MaxFaults /\ crashes' \in 0 .. MaxCrashes
  BY <1>1, <1>3, <1>5, <1>6, LifecycleAssumption DEF IInv, TypeOK
<1>9. /\ cache' \in [Sessions -> {"absent", "partial", "completed"}]
      /\ runtime' \in [Sessions -> {"none", "online", "local"}]
      /\ retired' \in SUBSET Sessions /\ unsaved' = {} /\ lost' = {} /\ outdated' \in SUBSET Sessions
      /\ startup' \in [resume : SUBSET Sessions, quarantined : SUBSET Sessions,
                       owned : SUBSET Sessions]
  BY <1>3, <1>6 DEF IInv, TypeOK
<1>10. /\ evictor' \in [pc : {"idle", "scan"}, completed : SUBSET Sessions,
                        partial : SUBSET Sessions, spared : SUBSET Sessions,
                        stable : SUBSET Sessions]
       /\ removal' \in [by : {"nobody", "deleter", "evictor"}, key : Keys, sessions : SUBSET Sessions]
       /\ removal'.sessions = {} /\ removal'.by = "nobody"
       /\ pending' \in [Keys -> SUBSET Sessions] /\ \A k \in Keys : pending'[k] = {}
  BY <1>1, LifecycleAssumption DEF NoScan, NoRemoval, Keys
<1>11. TypeOK'
  BY <1>1, <1>3, <1>5, <1>8, <1>9, <1>10, LifecycleAssumption, ZenonT(60) DEF TypeOK, Stores, Outcomes
<1>12. DueIsDead'
  <2>1. PendingCleanups' = {}
    BY <1>10 DEF PendingCleanups
  <2> QED BY <1>1, <1>10, <2>1 DEF DueIsDead, Due
<1>13. Media'
  <2>1. ASSUME NEW s \in Sessions, s \in Recorded(o.store), cache[s] = "completed"
        PROVE  s \in kept
    <3>1. CASE ~o.ok
      BY <2>1, <3>1, <1>6, <1>7
    <3>2. CASE o.ok
      <4>1. CompletedItem(t, s)
        BY <1>5, <2>1, <3>2 DEF Recorded
      <4>2. Authorized(t, s)
        BY <1>5, <2>1, <4>1, AuthorizedIsUsed
      <4> QED BY <2>1, <3>2, <4>2, <1>6, <1>7
    <3> QED BY <1>5, <3>1, <3>2
  <2>2. ASSUME NEW s \in Sessions, runtime'[s] = "local"
        PROVE  cache[s] = "completed" /\ s \in kept
    BY <1>3, <1>7, <2>2
  <2>3. ASSUME NEW s \in Sessions, s \in Recorded(o.store), cache[s] # "completed"
        PROVE  s \in outdated
    BY <1>5, <2>3 DEF IInv, Media, HasMedia
  <2>4. \A s \in kept : s \in Sessions /\ cache'[s] = cache[s]
    BY <1>3, <1>6
  <2> QED BY <1>3, <2>1, <2>2, <2>3, <2>4 DEF Media, HasMedia
<1>14. Fresh'
  BY <1>3, <1>5 DEF Fresh
<1>15. HeldIsTracked'
  <2>1. ASSUME NEW s \in Sessions, Held(s)' PROVE Tracked(s)'
    <3>1. s \in kept \cup F
      BY <1>1, <1>3, <2>1 DEF Held
    <3>2. CASE s \in F
      BY <1>3, <3>2 DEF Tracked
    <3>3. CASE s \notin F
      <4>1. o.ok /\ s \in claimed
        BY <1>5, <1>6, <1>7, <3>1, <3>3
      <4>2. Uses(t, s)
        BY <1>5, <1>6, <4>1, AuthorizedIsUsed
      <4> QED BY <1>3, <1>5, <4>2 DEF Tracked
    <3> QED BY <3>2, <3>3
  <2> QED BY <2>1 DEF HeldIsTracked
<1>16. Filling' /\ Scanning' /\ Quiescent'
  BY <1>1, <1>10 DEF Filling, Scanning, Quiescent, NoScan
<1>17. Removing'
  <2>1. \A x \in Sessions : /\ [kind |-> "session", of |-> x] \in Keys
                            /\ [kind |-> "item", of |-> x] \in Keys
    BY DEF Keys
  <2> QED BY <1>1, <1>10, <2>1 DEF Removing, NoScan
<1>18. StoreOK(store')
  BY <1>3, <1>5
<1> QED BY <1>11, <1>12, <1>13, <1>14, <1>15, <1>16, <1>17, <1>18 DEF IInv

-----------------------------------------------------------------------------
(* The invariant, and what follows from it.                                 *)

\* The invariant holds at first.
LEMMA InitHolds == Init => IInv
<1> SUFFICES ASSUME Init PROVE IInv
  OBVIOUS
<1>1. /\ NewTask \in Task /\ NewTask.state = "Preparing"
      /\ \A s \in Sessions : NewTask.item[s] = "none"
  BY DEF NewTask, Task, TaskStates
<1>2. /\ NoRemoval \in [by : {"nobody", "deleter", "evictor"}, key : Keys, sessions : SUBSET Sessions]
      /\ NoRemoval.by = "nobody" /\ NoRemoval.sessions = {}
      /\ NoScan \in [pc : {"idle", "scan"}, completed : SUBSET Sessions,
                     partial : SUBSET Sessions, spared : SUBSET Sessions, stable : SUBSET Sessions]
      /\ NoScan.pc = "idle" /\ NoScan.completed = {}
      /\ NoStartup \in [resume : SUBSET Sessions, quarantined : SUBSET Sessions, owned : SUBSET Sessions]
      /\ NoStartup.resume = {}
  BY LifecycleAssumption DEF NoRemoval, NoScan, NoStartup, Keys
<1>3. pending \in [Keys -> SUBSET Sessions] /\ \A k \in Keys : pending[k] = {}
  BY DEF Init
<1>4. \A x \in Sessions : /\ [kind |-> "session", of |-> x] \in Keys
                          /\ [kind |-> "item", of |-> x] \in Keys
  BY DEF Keys
<1>5. /\ store \in [reg : Task, vis : Task, disk : Task, avail : BOOLEAN]
      /\ store.reg = NewTask /\ store.vis = NewTask /\ store.disk = NewTask
  BY <1>1 DEF Init
<1>6. TypeOK
  <2>1. /\ cache \in [Sessions -> {"absent", "partial", "completed"}]
        /\ runtime \in [Sessions -> {"none", "online", "local"}]
    BY DEF Init
  <2>2. /\ worker \in [pc : {"idle"}, outcome : Outcomes] /\ current = {}
        /\ deleter \in [pc : {"idle", "waiting"}, item : Sessions, sessions : SUBSET Sessions]
        /\ canceller \in [pc : {"idle", "draining", "removing"}, todo : SUBSET Sessions,
                          failed : SUBSET Sessions]
        /\ faults \in 0 .. MaxFaults /\ crashes \in 0 .. MaxCrashes
    BY LifecycleAssumption DEF Init, Outcomes
  <2>3. evictor = NoScan /\ removal = NoRemoval /\ startup = NoStartup
        /\ retired = {} /\ queued = {} /\ revoked = FALSE /\ planner = "planning"
        /\ reader = {} /\ lease = {} /\ unsaved = {} /\ outdated = {} /\ lost = {}
    BY DEF Init
  <2> HIDE DEF Init
  <2> QED BY <1>2, <1>3, <1>5, <2>1, <2>2, <2>3 DEF TypeOK
<1>7. StoreOK(store)
  BY <1>1, <1>5, FollowsItself DEF StoreOK, Shape
<1>8. DueIsDead
  <2>1. PendingCleanups = {}
    BY <1>3 DEF PendingCleanups
  <2> QED BY <1>2, <2>1 DEF Init, DueIsDead, Due
<1>9. Media /\ HeldIsTracked /\ Fresh
  <2>1. \A s \in Sessions : ~CompletedItem(NewTask, s)
    BY <1>1 DEF CompletedItem
  <2>2. Recorded(store) = {}
    BY <1>5, <2>1 DEF Recorded
  <2> QED BY <1>2, <2>2 DEF Init, Media, HeldIsTracked, Held, Fresh
<1>10. Filling /\ Scanning /\ Quiescent /\ Removing
  BY <1>2, <1>3, <1>4 DEF Init, Filling, Scanning, Quiescent, Removing
<1> QED BY <1>6, <1>7, <1>8, <1>9, <1>10 DEF IInv

\* Every step of the fill worker preserves it.
LEMMA WorkerStepHolds ==
    ASSUME IInv, startup.resume = {}, WorkerStep
    PROVE  IInv'
BY AdmitCalm, ProtectCalm, FillCompletesStep, FillCancelledStep, FillStopsCalm, PublishStep,
   SettleCalm, DiscardStep, DecideCalm, FinishCalm
DEF WorkerStep

\* Every step preserves it.
LEMMA NextHolds == IInv /\ [Next]_vars => IInv'
<1> SUFFICES ASSUME IInv, [Next]_vars PROVE IInv'
  OBVIOUS
<1>1. CASE Restart
  BY <1>1, RestartStep
<1>2. CASE \E s \in Sessions : Resume(s)
  BY <1>2, ResumeStep
<1>3. CASE startup.resume = {} /\ (PlanComplete \/ PlanAbandon \/ PlanCleanUp)
  BY <1>3, PlanCompleteStep, PlanAbandonStep, PlanCleanUpStep
<1>4. CASE startup.resume = {} /\ WorkerStep
  BY <1>4, WorkerStepHolds
<1>5. CASE startup.resume = {} /\ DeleteAgain
  <2>1. deleter.item \in Sessions
    BY DEF IInv, TypeOK
  <2> QED BY <1>5, <2>1, DeleteTurnStep DEF DeleteAgain
<1>6. CASE startup.resume = {} /\ (RemoveFiles \/ EvictBegin)
  BY <1>6, RemoveFilesStep, EvictBeginStep
<1>7. CASE CancelTask \/ CancelReturns \/ CancelDrained \/ EvictEnd
  BY <1>7, CancelTaskStep, CancelReturnsStep, IdleCalm
<1>8. CASE \E s \in Sessions : Serve(s) \/ ServeRefused(s) \/ EndRead(s) \/ LeaseExpires(s)
  BY <1>8, IdleCalm
<1>9. CASE startup.resume = {} /\ \E s \in Sessions : Take(s) \/ DeleteItem(s) \/ Reconcile(s)
  BY <1>9, TakeCalm, DeleteTurnStep, ReconcileStep DEF DeleteItem
<1>10. CASE \E s \in Sessions : \/ PlanResult(s) \/ CancelRemoves(s) \/ EvictCompleted(s)
                                \/ EvictPartial(s) \/ ServeLost(s)
  BY <1>10, PlanResultStep, CancelRemovesStep, EvictCompletedStep, EvictPartialStep, ServeLostStep
<1>11. CASE UNCHANGED vars
  <2>1. UNCHANGED <<store, cache, runtime, retired, pending, unsaved, outdated, lost, queued, current,
                    revoked, worker, planner, deleter, canceller, evictor, removal, reader, lease,
                    startup, faults, crashes>>
    BY <1>11 DEF vars, cacheVars, fillVars
  <2>2. TypeOK'
    BY <2>1 DEF IInv, TypeOK
  <2>3. CalmStep
    BY <2>1, StoreStays DEF CalmStep
  <2>4. WorkerTurn
    BY <2>1, StoreStays, WorkerStays
  <2> QED BY <2>2, <2>3, <2>4, Calm
<1> QED BY <1>1, <1>2, <1>3, <1>4, <1>5, <1>6, <1>7, <1>8, <1>9, <1>10, <1>11 DEF Next

\* The invariant of the composed lifecycle holds for any sessions, faults and
\* crashes.
THEOREM LifecycleInvariant == Spec => []IInv
BY InitHolds, NextHolds, PTL DEF Spec

\* It implies the properties of the model.
LEMMA InvariantImplies == IInv => TypeOK /\ OfferedMediaExists /\ NoOrphanedFiles
<1> SUFFICES ASSUME IInv PROVE TypeOK /\ OfferedMediaExists /\ NoOrphanedFiles
  OBVIOUS
<1>1. OfferedMediaExists
  BY DEF IInv, Media, HasMedia, Recorded, OfferedMediaExists, OfferedItemHasMedia, LocalSessionHasMedia
<1>2. NoOrphanedFiles
  <2>1. \A s \in Sessions : Tracked(s) => Owned(s)
    BY DEF Tracked, Owned
  <2> QED BY <2>1 DEF IInv, HeldIsTracked, Held, NoOrphanedFiles
<1> QED BY <1>1, <1>2 DEF IInv

\* Every variable keeps its type.
THEOREM ItemTypeCorrect == Spec => []TypeOK
BY LifecycleInvariant, InvariantImplies, PTL

\* A completed item that is visible, or a session that is served from local
\* files, has its media, or lost them to a quota pass whose list was outdated
\* before the completion was saved (OfferedMediaExists): deletion, eviction,
\* cancellation, refill, failed saves and restarts in any order.
THEOREM ItemMediaExist == Spec => []OfferedMediaExists
BY LifecycleInvariant, InvariantImplies, PTL

\* Session files always have an owner that will use or delete them, or were
\* given up by a request (NoOrphanedFiles), however saves and removals fail.
THEOREM ItemFilesAreOwned == Spec => []NoOrphanedFiles
BY LifecycleInvariant, InvariantImplies, PTL
=============================================================================
