-------------------------- MODULE HlsFillScheduler --------------------------
(***************************************************************************)
(* The scheduler of background cache fills, hls_fill_scheduler.rs, with the *)
(* single worker it feeds and the tasks that wait for it to drain.          *)
(*                                                                         *)
(* What a method does under the scheduler's mutex is one action; what it    *)
(* does after the unlock (notify_one, notify_waiters) is another, and so    *)
(* are the making of a Notified, the look at the queues and the await: the  *)
(* steps between which another thread may come.                             *)
(*                                                                         *)
(* The two deques are sets of jobs: a push always carries the next sequence *)
(* number, so the order of a deque is the order of its sequence numbers,    *)
(* the front the smallest and the back the largest.  A job's preemption     *)
(* token is shared by `current' and the worker's copy of the job, so its    *)
(* two flags live in the record of `current'.                               *)
(***************************************************************************)
EXTENDS Naturals

CONSTANTS
    Sessions,     \* HLS playback sessions
    Tasks,        \* tasks; a task owns any number of sessions
    TaskOf,       \* the task each session belongs to
    Cancellers,   \* handlers that cancel fill work and wait for it to stop
    MaxSequence,  \* bound on next_sequence
    MaxCallers,   \* bound on the enqueues and promotions that have unlocked
                  \* and not yet notified
    MaxPanics     \* bound on the worker tasks that die while running a job

ASSUME SchedulerAssumption ==
    /\ TaskOf \in [Sessions -> Tasks]
    /\ MaxSequence \in Nat
    /\ MaxCallers \in Nat
    /\ MaxPanics \in Nat

VARIABLES
    foreground,      \* HlsFillSchedulerInner.foreground
    demoted,         \* HlsFillSchedulerInner.demoted
    current,         \* HlsFillSchedulerInner.current, a set of at most one job
    worker_started,  \* HlsFillSchedulerInner.worker_started
    closed,          \* HlsFillSchedulerInner.closed
    next_sequence,   \* HlsFillSchedulerInner.next_sequence
    worker,          \* where the worker task is
    missed,          \* notify_waiters was called on `notify' since the worker
                     \* made the Notified it has yet to poll
    permit,          \* the permit stored in `notify'
    owed,            \* how many callers have yet to call notify.notify_one()
    stopping,        \* how many guards have marked their worker stopped and
                     \* have yet to call current_finished.notify_waiters()
    shutdown,        \* where shutdown_and_wait_for_worker is
    canceller,       \* where each canceller is and what it cancels
    quiesced,        \* history: sessions a canceller found drained, since when
                     \* nobody has enqueued them and no worker has died
    panics           \* history: workers that died

queueVars == <<foreground, demoted, current, next_sequence>>
syncVars  == <<worker, missed, permit, shutdown>>
callVars  == <<owed, stopping>>
vars == <<foreground, demoted, current, worker_started, closed, next_sequence,
          worker, missed, permit, owed, stopping, shutdown, canceller,
          quiesced, panics>>

Priorities == {"Foreground", "Demoted"}

Job == [session : Sessions, priority : Priorities, sequence : Nat,
        preempted : BOOLEAN, cancelled : BOOLEAN]

\* absent: no worker; starting: an enqueue took it on itself to spawn one;
\* ready: about to make its Notified; looking: about to look at the queues;
\* awaiting: found nothing and is about to poll its Notified; parked: polled
\* it in vain; running: inside a job; finished, requeued: after finish_current
\* unlocked, without and with the job put back; notifying: about to notify_one.
WorkerPlaces == {"absent", "starting", "ready", "looking", "awaiting", "parked",
                 "running", "finished", "requeued", "notifying"}

ShutdownPlaces == {"idle", "closing", "ready", "awaiting", "parked", "done"}

\* looking: its Notified is enabled; waiting: it awaits it; woken: it was notified.
Canceller == [pc : {"idle", "looking", "waiting"}, sessions : SUBSET Sessions,
              woken : BOOLEAN]

TypeOK ==
    /\ foreground \in SUBSET Job
    /\ demoted \in SUBSET Job
    /\ current \in SUBSET Job
    /\ worker_started \in BOOLEAN
    /\ closed \in BOOLEAN
    /\ next_sequence \in Nat
    /\ worker \in WorkerPlaces
    /\ missed \in BOOLEAN
    /\ permit \in BOOLEAN
    /\ owed \in Nat
    /\ stopping \in Nat
    /\ shutdown \in ShutdownPlaces
    /\ canceller \in [Cancellers -> Canceller]
    /\ quiesced \in SUBSET Sessions
    /\ panics \in Nat

Init ==
    /\ foreground = {} /\ demoted = {} /\ current = {}
    /\ worker_started = FALSE
    /\ closed = FALSE
    /\ next_sequence = 0
    /\ worker = "absent"
    /\ missed = FALSE
    /\ permit = FALSE
    /\ owed = 0
    /\ stopping = 0
    /\ shutdown = "idle"
    /\ canceller = [c \in Cancellers |->
                      [pc |-> "idle", sessions |-> {}, woken |-> FALSE]]
    /\ quiesced = {}
    /\ panics = 0

-----------------------------------------------------------------------------
(* Helpers on jobs.                                                         *)

Queued == foreground \cup demoted

TaskSessions(t) == {s \in Sessions : TaskOf[s] = t}

CreateJob_Underflow(s, p) ==
    [session |-> s, priority |-> p, sequence |-> next_sequence - 1,
     preempted |-> FALSE, cancelled |-> FALSE]

CreateJob(s, p) ==
    [session |-> s, priority |-> p, sequence |-> next_sequence + 1,
     preempted |-> FALSE, cancelled |-> FALSE]

RefreshJob(j, p) == CreateJob(j.session, p)

Preempt(jobs) == {[j EXCEPT !.preempted = TRUE] : j \in jobs}

\* cancel of the jobs of sessions S; `current' is the only argument it gets.
CancelIn(jobs, S) ==
    {IF j.session \in S THEN [j EXCEPT !.cancelled = TRUE] ELSE j : j \in jobs}

Retain(jobs, S) == {j \in jobs : j.session \notin S}

OfSession(jobs, s) == {j \in jobs : j.session = s}

Front(jobs) == {j \in jobs : \A k \in jobs : j.sequence <= k.sequence}
Back(jobs)  == {j \in jobs : \A k \in jobs : k.sequence <= j.sequence}

\* take_queued_session: the first job of s in foreground, else in demoted.
Taken(s) == IF OfSession(foreground, s) # {}
            THEN Front(OfSession(foreground, s))
            ELSE Front(OfSession(demoted, s))

-----------------------------------------------------------------------------
(* The two Notify objects (tokio), as the scheduler uses them.              *)

\* notify.notify_one(), the worker aside: wake the parked shutdown, or store
\* the permit.
NotifyShutdown ==
    \/ /\ shutdown = "parked"
       /\ shutdown' = "ready"
       /\ UNCHANGED permit
    \/ /\ shutdown # "parked"
       /\ permit' = TRUE
       /\ UNCHANGED shutdown

\* notify.notify_one(): wake a parked waiter, or store the permit.
NotifyOne ==
    \/ /\ worker = "parked"
       /\ worker' = "ready"
       /\ UNCHANGED <<missed, permit, shutdown>>
    \/ /\ worker = "parked" => shutdown = "parked"
       /\ NotifyShutdown
       /\ UNCHANGED <<worker, missed>>

\* The first poll of a Notified of `notify': a stored permit ends it,
\* and so does a notify_waiters since it was made; otherwise it parks.
Polled(since) == IF permit \/ since THEN "ready" ELSE "parked"

\* current_finished.notify_waiters(): wake every canceller that has enabled its
\* Notified, whether or not it awaits it already.
Woken == [c \in Cancellers |->
            IF canceller[c].pc # "idle"
            THEN [canceller[c] EXCEPT !.woken = TRUE] ELSE canceller[c]]

-----------------------------------------------------------------------------
(* Producers.                                                               *)

Push(s, p) ==
    /\ foreground' = foreground \cup (IF p = "Foreground" THEN {CreateJob(s, p)} ELSE {})
    /\ demoted' = demoted \cup (IF p = "Demoted" THEN {CreateJob(s, p)} ELSE {})
    /\ next_sequence' = next_sequence + 1

PreemptOthers_Never(s) == current

\* New foreground work preempts the running job of any other session.
PreemptOthers(s) == OfSession(current, s) \cup Preempt(Retain(current, {s}))

\* Whoever finds no worker starts one; everybody has yet to notify.
StartOrOwe ==
    \/ /\ worker_started
       /\ owed < MaxCallers
       /\ owed' = owed + 1
       /\ UNCHANGED worker
    \/ /\ ~worker_started
       /\ worker' = "starting"
       /\ UNCHANGED owed

Enqueue(s, p) ==
    /\ ~closed
    /\ next_sequence < MaxSequence
    /\ Push(s, p)
    /\ current' = IF p = "Foreground" THEN PreemptOthers(s) ELSE current
    /\ worker_started' = TRUE
    /\ StartOrOwe
    /\ quiesced' = quiesced \ {s}
    /\ UNCHANGED <<closed, missed, permit, stopping, shutdown, canceller, panics>>

\* After shutdown began an enqueue drops the job; it still notifies.
EnqueueClosed ==
    /\ closed
    /\ owed < MaxCallers
    /\ owed' = owed + 1
    /\ UNCHANGED <<queueVars, worker_started, closed, syncVars, stopping,
                   canceller, quiesced, panics>>

\* The notify_one with which an enqueue, a promotion or a guard's drop ends.
Notify ==
    /\ owed > 0
    /\ owed' = owed - 1
    /\ NotifyOne
    /\ UNCHANGED <<queueVars, worker_started, closed, stopping, canceller,
                   quiesced, panics>>

\* The same of the enqueue that starts the worker, which it spawns next.
SpawnWorker ==
    /\ worker = "starting"
    /\ worker' = "ready"
    /\ NotifyShutdown
    /\ UNCHANGED <<queueVars, worker_started, closed, missed, callVars, canceller,
                   quiesced, panics>>

EnqueueForeground(s) == Enqueue(s, "Foreground")
EnqueueDemoted(s) == Enqueue(s, "Demoted")

\* The job of s moves to the back of the foreground, with a fresh token.
Promote(s) ==
    /\ current' = Preempt(current)
    /\ \E j \in (IF Taken(s) # {} THEN Taken(s) ELSE OfSession(current, s)) :
          foreground' = (foreground \ Taken(s)) \cup {RefreshJob(j, "Foreground")}
    /\ demoted' = demoted \ Taken(s)
    /\ next_sequence' = next_sequence + 1
    /\ owed < MaxCallers
    /\ owed' = owed + 1
    /\ UNCHANGED <<worker_started, closed, syncVars, stopping, canceller, quiesced,
                   panics>>

\* s is being filled: only a seek, or a preemption that already happened,
\* queues it again in front.
PromoteCurrent(s, restart_current) ==
    /\ ~closed
    /\ next_sequence < MaxSequence
    /\ \E j \in current : j.session = s /\ (restart_current \/ j.preempted)
    /\ Promote(s)

\* s is only queued.
PromoteQueued(s) ==
    /\ ~closed
    /\ next_sequence < MaxSequence
    /\ OfSession(current, s) = {}
    /\ Taken(s) # {}
    /\ Promote(s)

-----------------------------------------------------------------------------
(* The worker, run_hls_cache_fill_worker around next_job_until_shutdown.    *)

\* A Notified is made before the queues are looked at.
Listen ==
    /\ worker = "ready"
    /\ worker' = "looking"
    /\ missed' = FALSE
    /\ UNCHANGED <<queueVars, worker_started, closed, permit, callVars, shutdown,
                   canceller, quiesced, panics>>

\* pop_back of foreground, or else pop_front of demoted.
NextJob ==
    /\ worker = "looking"
    /\ ~closed
    /\ \E j \in (IF foreground # {} THEN Back(foreground) ELSE Front(demoted)) :
          /\ current' = {j}
          /\ foreground' = foreground \ {j}
          /\ demoted' = demoted \ {j}
    /\ worker' = "running"
    /\ UNCHANGED <<worker_started, closed, next_sequence, missed, permit, callVars,
                   shutdown, canceller, quiesced, panics>>

\* There is nothing to do; the lock is released.
LookInVain ==
    /\ worker = "looking"
    /\ ~closed
    /\ Queued = {}
    /\ worker' = "awaiting"
    /\ UNCHANGED <<queueVars, worker_started, closed, missed, permit, callVars,
                   shutdown, canceller, quiesced, panics>>

\* The Notified made after the look knows nothing of what came between.
AwaitJob_ListensLate ==
    /\ worker = "awaiting"
    /\ permit' = FALSE
    /\ worker' = Polled(FALSE)
    /\ missed' = FALSE
    /\ UNCHANGED <<queueVars, worker_started, closed, callVars, shutdown,
                   canceller, quiesced, panics>>

\* notified.await
AwaitJob ==
    /\ worker = "awaiting"
    /\ permit' = FALSE
    /\ worker' = Polled(missed)
    /\ missed' = FALSE
    /\ UNCHANGED <<queueVars, worker_started, closed, callVars, shutdown,
                   canceller, quiesced, panics>>

ShouldRequeue_Cancelled(j, requeue_preempted) ==
    /\ requeue_preempted
    /\ ~closed
    /\ OfSession(Queued, j.session) = {}

ShouldRequeue(j, requeue_preempted) ==
    /\ requeue_preempted
    /\ ~j.cancelled
    /\ ~closed
    /\ OfSession(Queued, j.session) = {}

\* The job ended; finish_current, as far as it holds the lock, with the
\* worker's verdict on requeueing.
FinishCurrent(requeue_preempted) ==
    /\ worker = "running"
    /\ \E j \in current :
          \/ /\ ShouldRequeue(j, requeue_preempted)
             /\ next_sequence < MaxSequence
             /\ demoted' = demoted \cup {RefreshJob(j, "Demoted")}
             /\ next_sequence' = next_sequence + 1
             /\ worker' = "requeued"
          \/ /\ ~ShouldRequeue(j, requeue_preempted)
             /\ worker' = "finished"
             /\ UNCHANGED <<demoted, next_sequence>>
    /\ current' = {}
    /\ UNCHANGED <<foreground, worker_started, closed, missed, permit, callVars,
                   shutdown, canceller, quiesced, panics>>

\* current_finished.notify_waiters()
FinishedNotifies ==
    /\ \/ worker = "finished" /\ worker' = "ready"
       \/ worker = "requeued" /\ worker' = "notifying"
    /\ canceller' = Woken
    /\ UNCHANGED <<queueVars, worker_started, closed, missed, permit, callVars,
                   shutdown, quiesced, panics>>

\* notify.notify_one() after a requeue, by the worker itself.
RequeuedNotifies ==
    /\ worker = "notifying"
    /\ worker' = "ready"
    /\ NotifyShutdown
    /\ UNCHANGED <<queueVars, worker_started, closed, missed, callVars, canceller,
                   quiesced, panics>>

MarkWorkerStopped_NotReset ==
    /\ UNCHANGED worker_started
    /\ worker' = "absent"
    /\ stopping' = stopping + 1

\* The drop of HlsFillWorkerGuard, mark_worker_stopped, as far as the unlock.
MarkWorkerStopped ==
    /\ worker_started' = FALSE
    /\ worker' = "absent"
    /\ stopping' = stopping + 1

\* next_job_until_shutdown returned None.
WorkerExits ==
    /\ worker = "looking"
    /\ closed
    /\ MarkWorkerStopped
    /\ missed' = FALSE
    /\ UNCHANGED <<queueVars, closed, permit, owed, shutdown, canceller, quiesced,
                   panics>>

\* The worker task unwinds in the middle of a job and leaves `current' behind.
WorkerPanics ==
    /\ worker = "running"
    /\ panics < MaxPanics
    /\ panics' = panics + 1
    /\ MarkWorkerStopped
    /\ quiesced' = {}
    /\ UNCHANGED <<queueVars, closed, missed, permit, owed, shutdown, canceller>>

\* mark_worker_stopped goes on: notify_waiters here, notify_one next.
StoppedNotifies ==
    /\ stopping > 0
    /\ stopping' = stopping - 1
    /\ owed' = owed + 1
    /\ canceller' = Woken
    /\ UNCHANGED <<queueVars, worker_started, closed, syncVars, quiesced, panics>>

-----------------------------------------------------------------------------
(* Cancellation and shutdown.                                               *)

CancelJobs_ForegroundOnly(S) ==
    /\ foreground' = Retain(foreground, S)
    /\ demoted' = demoted
    /\ current' = CancelIn(current, S)

CancelJobs(S) ==
    /\ foreground' = Retain(foreground, S)
    /\ demoted' = Retain(demoted, S)
    /\ current' = CancelIn(current, S)

\* The worker is still inside a job of S.
Busy(S) == worker_started /\ \E j \in current : j.session \in S

\* The cancellation of S reports to have drained it, if no worker has died.
Drained(S) == IF Busy(S) \/ panics > 0 THEN quiesced ELSE quiesced \cup S

CancelTask(t) ==
    /\ CancelJobs(TaskSessions(t))
    /\ UNCHANGED <<worker_started, closed, next_sequence, syncVars, callVars,
                   canceller, quiesced, panics>>

\* Its Boolean result tells the caller whether S is drained.
CancelSessions(S) ==
    /\ CancelJobs(S)
    /\ quiesced' = Drained(S)
    /\ UNCHANGED <<worker_started, closed, next_sequence, syncVars, callVars,
                   canceller, panics>>

\* cancel_task_and_wait and cancel_sessions_and_wait enable a Notified first.
CancelListens(c, S) ==
    /\ canceller' = [canceller EXCEPT ![c] =
                        [pc |-> "looking", sessions |-> S, woken |-> FALSE]]
    /\ UNCHANGED <<queueVars, worker_started, closed, syncVars, callVars, quiesced,
                   panics>>

CancelTaskAndWait(c, t) ==
    /\ canceller[c].pc = "idle"
    /\ CancelListens(c, TaskSessions(t))

CancelSessionsAndWait(c, S) ==
    /\ canceller[c].pc = "idle"
    /\ CancelListens(c, S)

\* Then they withdraw what is queued and look at the current job.
CancelTurn(c) ==
    /\ canceller[c].pc = "looking"
    /\ LET S == canceller[c].sessions
       IN  /\ CancelJobs(S)
           /\ canceller' = [canceller EXCEPT ![c] =
                 IF Busy(S) THEN [canceller[c] EXCEPT !.pc = "waiting"]
                 ELSE [pc |-> "idle", sessions |-> {}, woken |-> FALSE]]
           /\ quiesced' = Drained(S)
    /\ UNCHANGED <<worker_started, closed, next_sequence, syncVars, callVars, panics>>

\* current_finished.await returned: the loop begins again.
CancelAgain(c) ==
    /\ canceller[c].pc = "waiting"
    /\ canceller[c].woken
    /\ CancelListens(c, canceller[c].sessions)

\* Close admission, drop the queues, preempt the job.
ShutdownStart ==
    /\ shutdown = "idle"
    /\ closed' = TRUE
    /\ foreground' = {} /\ demoted' = {}
    /\ current' = Preempt(current)
    /\ shutdown' = "closing"
    /\ UNCHANGED <<worker_started, next_sequence, worker, missed, permit, callVars,
                   canceller, quiesced, panics>>

\* notify.notify_waiters()
ShutdownNotifies ==
    /\ shutdown = "closing"
    /\ shutdown' = "ready"
    /\ worker' = IF worker = "parked" THEN "ready" ELSE worker
    /\ missed' = (worker \in {"looking", "awaiting"})
    /\ UNCHANGED <<queueVars, worker_started, closed, permit, callVars, canceller,
                   quiesced, panics>>

\* One turn of the loop that waits for the worker to stop.  Nobody calls
\* notify_waiters any more, so it does not matter when its Notified is made.
ShutdownLook ==
    /\ shutdown = "ready"
    /\ shutdown' = IF worker_started THEN "awaiting" ELSE "done"
    /\ UNCHANGED <<queueVars, worker_started, closed, worker, missed, permit,
                   callVars, canceller, quiesced, panics>>

\* notified.await
ShutdownAwait ==
    /\ shutdown = "awaiting"
    /\ permit' = FALSE
    /\ shutdown' = Polled(FALSE)
    /\ UNCHANGED <<queueVars, worker_started, closed, worker, missed, callVars,
                   canceller, quiesced, panics>>

-----------------------------------------------------------------------------

Cancelling ==
    \/ \E t \in Tasks : CancelTask(t)
    \/ \E S \in SUBSET Sessions \ {{}} : CancelSessions(S)
    \/ \E c \in Cancellers :
          \/ \E t \in Tasks : CancelTaskAndWait(c, t)
          \/ \E S \in SUBSET Sessions \ {{}} : CancelSessionsAndWait(c, S)
          \/ CancelTurn(c)
          \/ CancelAgain(c)

Next ==
    \/ \E s \in Sessions :
          \/ EnqueueForeground(s)
          \/ EnqueueDemoted(s)
          \/ \E restart_current \in BOOLEAN : PromoteCurrent(s, restart_current)
          \/ PromoteQueued(s)
    \/ EnqueueClosed
    \/ Notify
    \/ SpawnWorker
    \/ Listen
    \/ NextJob
    \/ LookInVain
    \/ AwaitJob
    \/ \E requeue_preempted \in BOOLEAN : FinishCurrent(requeue_preempted)
    \/ FinishedNotifies
    \/ RequeuedNotifies
    \/ WorkerExits
    \/ WorkerPanics
    \/ StoppedNotifies
    \/ Cancelling
    \/ ShutdownStart
    \/ ShutdownNotifies
    \/ ShutdownLook
    \/ ShutdownAwait

Spec == Init /\ [][Next]_vars

\* The worker's own steps, apart from the end of a job.
WorkerStep ==
    \/ SpawnWorker \/ Listen \/ NextJob \/ LookInVain \/ AwaitJob
    \/ FinishedNotifies \/ RequeuedNotifies \/ WorkerExits

\* A thread that has unlocked goes on, a spawned task that can run is eventually
\* polled, and an attempt to fill a session ends: it checks its token between
\* chunks and every fetch times out.
Fairness ==
    /\ WF_vars(WorkerStep)
    /\ WF_vars(\E requeue_preempted \in BOOLEAN : FinishCurrent(requeue_preempted))
    /\ WF_vars(Notify)
    /\ WF_vars(StoppedNotifies)
    /\ WF_vars(ShutdownNotifies \/ ShutdownLook \/ ShutdownAwait)
    /\ \A c \in Cancellers : WF_vars(CancelTurn(c) \/ CancelAgain(c))

FairSpec == Spec /\ Fairness

-----------------------------------------------------------------------------
(* Properties.                                                              *)

\* Sequence numbers order the queues: no two live jobs share one, and none is
\* ahead of the counter.  finish_current recognises its job by it.
SequencesAreUnique ==
    /\ \A j \in Queued \cup current : j.sequence <= next_sequence
    /\ \A j, k \in Queued \cup current : j.sequence = k.sequence => j = k

\* A queued job never carries the token of an attempt that was preempted or
\* cancelled: it would stop as soon as the worker picked it.
QueuedTokensAreFresh ==
    \A j \in Queued : ~j.preempted /\ ~j.cancelled

\* Newer foreground work for another session has preempted the running job,
\* whichever way it came (a new playback or a promotion).
NewestForegroundPreempts ==
    \A j \in foreground, k \in current :
        (j.sequence > k.sequence /\ j.session # k.session) => k.preempted

\* The newest foreground playback is filled next: the running fill was told to
\* stop, and the job that waits is not one that was told so itself.
PreemptionIsPrompt == QueuedTokensAreFresh /\ NewestForegroundPreempts

\* Work that is queued while the worker sleeps, or is about to, is announced:
\* by a permit it has yet to find or by somebody who has yet to notify.
WorkIsAnnounced ==
    /\ worker = "parked" => (Queued # {} => owed > 0)
    /\ worker = "awaiting" => (Queued # {} => permit \/ owed > 0)

\* The worker does not sleep through a shutdown, nor a shutdown through the end
\* of the worker.
StopIsAnnounced ==
    /\ worker = "parked" => (closed => shutdown = "closing")
    /\ worker = "awaiting" => (closed => shutdown = "closing" \/ missed)
    /\ shutdown = "parked" => worker_started \/ stopping + owed > 0
    /\ shutdown = "awaiting" => worker_started \/ stopping + owed > 0 \/ permit

\* No wake-up is lost in the windows between unlock and notify, and between the
\* look under the lock and the await.
NoLostWakeup == WorkIsAnnounced /\ StopIsAnnounced

\* Somebody waiting for a job to stop waits for a job that was told to stop and
\* that a live worker is still running, or is about to be woken.  (Not so once a
\* worker has died: its successor may sleep while the dead worker's job is
\* still `current'.)
WaitersAwaitCancelledWork ==
    panics = 0 => \A c \in Cancellers :
        canceller[c].pc = "waiting" /\ ~canceller[c].woken =>
            \/ worker \in {"finished", "requeued"}
            \/ /\ worker = "running"
               /\ \E j \in current : j.session \in canceller[c].sessions /\ j.cancelled

\* Once a cancellation reports sessions drained, nothing of them is queued or
\* being filled until they are enqueued again, so their files may be deleted.
\* A worker that died leaves its job in `current', from where a seek can queue
\* it again; that is the exception.
QuiescedStaysQuiet ==
    panics = 0 =>
        /\ \A j \in Queued : j.session \notin quiesced
        /\ worker = "running" => \A j \in current : j.session \notin quiesced

\* A cancellation waits for exactly the work it has to wait for, and when it
\* returns that work is over for good.
CancelledWorkEnds == WaitersAwaitCancelledWork /\ QuiescedStaysQuiet

\* Shutdown closes admission for good and leaves no worker behind.
ShutdownIsFinal ==
    /\ closed => Queued = {}
    /\ closed /\ worker = "running" => \A j \in current : j.preempted
    /\ shutdown = "done" => worker = "absent"

\* What was stopped stays stopped: the fills of a cancelled session or task,
\* and everything once the scheduler is closed.
StoppedStaysStopped == CancelledWorkEnds /\ ShutdownIsFinal

\* The session the worker really fills: a worker that died leaves its job in
\* `current'.
Filling == IF worker = "running" THEN {j.session : j \in current} ELSE {}

FillQueue == INSTANCE HlsFillQueue WITH
    waiting   <- {j.session : j \in Queued},
    filling   <- Filling,
    withdrawn <- worker = "running" /\ \E j \in current : j.cancelled,
    open      <- ~closed

\* The scheduler keeps the promise of HlsFillQueue: whatever preempts, promotes,
\* refreshes or dies, one session is filled at a time and a cancelled one is
\* never put back by the scheduler itself.
ImplementsFillQueue == FillQueue!Spec

(* What makes the invariants above inductive.                               *)

\* There is at most one current job.
SingleCurrent == \A j, k \in current : j = k

\* No sequence number is used twice, within a queue or across them.
SequencesAreDisjoint ==
    /\ \A j \in Queued \cup current : j.sequence <= next_sequence
    /\ \A j, k \in foreground : j.sequence = k.sequence => j = k
    /\ \A j, k \in demoted : j.sequence = k.sequence => j = k
    /\ \A j \in foreground, k \in demoted : j.sequence # k.sequence
    /\ \A j \in Queued, k \in current : j.sequence # k.sequence

\* The flags agree with where the worker and the shutdown are.
FlagsAgree ==
    /\ worker_started <=> worker # "absent"
    /\ closed <=> shutdown # "idle"
    /\ shutdown = "done" => ~worker_started

\* As long as no worker died, a current job is a job that is being run.
CurrentRuns == panics = 0 => (current # {} => worker = "running")

\* Graceful shutdown ends.
ShutdownReturns == (shutdown # "idle") ~> (shutdown = "done")

\* A cancellation that waits returns, as long as no worker has died (the job of
\* a dead worker stays `current').
CancellationReturns ==
    \A c \in Cancellers : (canceller[c].pc # "idle") ~> (canceller[c].pc = "idle" \/ panics > 0)

\* Queued sessions are all filled or withdrawn at last once playback stops
\* arriving (the bound on sequence numbers ends it), as long as no worker has
\* died (only the next enqueue would start another).
QueueDrains == (Queued # {}) ~> (Queued = {} \/ panics > 0)

\* Nobody waits for ever: shutdown, cancellations and queued work end.
SchedulerProgress == ShutdownReturns /\ CancellationReturns /\ QueueDrains
=============================================================================
