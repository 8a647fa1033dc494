----------------------- MODULE HlsFillSchedulerProofs -----------------------
(***************************************************************************)
(* Proofs about the fill scheduler, for any sets of sessions, tasks and     *)
(* cancellers and any bounds.                                               *)
(***************************************************************************)
EXTENDS HlsFillScheduler, TLAPS

-----------------------------------------------------------------------------
(* What the helpers on jobs return.                                         *)

\* Preempting, cancelling and filtering jobs keeps them jobs, and so do the
\* constructors of jobs (create_job and refresh_job).
LEMMA JobHelpers ==
    ASSUME TypeOK
    PROVE  /\ \A jobs \in SUBSET Job : Preempt(jobs) \in SUBSET Job
           /\ \A jobs \in SUBSET Job, S \in SUBSET Sessions : CancelIn(jobs, S) \in SUBSET Job
           /\ \A jobs \in SUBSET Job, S \in SUBSET Sessions : Retain(jobs, S) \in SUBSET Job
           /\ \A jobs \in SUBSET Job, s \in Sessions : OfSession(jobs, s) \in SUBSET Job
           /\ \A jobs \in SUBSET Job : Front(jobs) \in SUBSET Job
           /\ \A jobs \in SUBSET Job : Back(jobs) \in SUBSET Job
           /\ \A s \in Sessions, p \in Priorities : CreateJob(s, p) \in Job
           /\ \A j \in Job, p \in Priorities : RefreshJob(j, p) \in Job
<1>1. \A jobs \in SUBSET Job : Preempt(jobs) \in SUBSET Job
  BY DEF Preempt, Job
<1>2. \A jobs \in SUBSET Job, S \in SUBSET Sessions : CancelIn(jobs, S) \in SUBSET Job
  BY DEF CancelIn, Job
<1>3. /\ \A jobs \in SUBSET Job, S \in SUBSET Sessions : Retain(jobs, S) \in SUBSET Job
      /\ \A jobs \in SUBSET Job, s \in Sessions : OfSession(jobs, s) \in SUBSET Job
      /\ \A jobs \in SUBSET Job : Front(jobs) \in SUBSET Job
      /\ \A jobs \in SUBSET Job : Back(jobs) \in SUBSET Job
  BY DEF Retain, OfSession, Front, Back
<1>4. \A s \in Sessions, p \in Priorities : CreateJob(s, p) \in Job
  BY DEF CreateJob, Job, TypeOK
<1>5. \A j \in Job, p \in Priorities : RefreshJob(j, p) \in Job
  BY <1>4 DEF RefreshJob, Job
<1> QED
  BY <1>1, <1>2, <1>3, <1>4, <1>5

\* Waking the cancellers keeps the type of the canceller table.
LEMMA WokenType == TypeOK => Woken \in [Cancellers -> Canceller]
  BY DEF TypeOK, Woken, Canceller

-----------------------------------------------------------------------------
(* Type correctness.                                                        *)

\* Every action of the scheduler keeps the types.
LEMMA TypeStep == TypeOK /\ [Next]_vars => TypeOK'
<1> SUFFICES ASSUME TypeOK, [Next]_vars PROVE TypeOK'
  OBVIOUS
<1> USE SchedulerAssumption DEF TypeOK, WorkerPlaces, ShutdownPlaces
<1>1. ASSUME NEW s \in Sessions, NEW p \in Priorities, Enqueue(s, p) PROVE TypeOK'
  <2>1. /\ foreground' \in SUBSET Job /\ demoted' \in SUBSET Job
        /\ current' \in SUBSET Job /\ next_sequence' \in Nat
    BY <1>1, JobHelpers DEF Enqueue, Push, PreemptOthers
  <2>2. worker' \in WorkerPlaces /\ owed' \in Nat
    BY <1>1 DEF Enqueue, StartOrOwe
  <2> QED
    BY <1>1, <2>1, <2>2 DEF Enqueue
<1>2. ASSUME EnqueueClosed PROVE TypeOK'
  BY <1>2 DEF EnqueueClosed, queueVars, syncVars
<1>3. ASSUME NEW s \in Sessions, Promote(s) PROVE TypeOK'
  <2>1. Taken(s) \in SUBSET Job /\ OfSession(current, s) \in SUBSET Job
    BY JobHelpers DEF Taken
  <2>2. /\ foreground' \in SUBSET Job /\ demoted' \in SUBSET Job
        /\ current' \in SUBSET Job /\ next_sequence' \in Nat
    BY <1>3, <2>1, JobHelpers DEF Promote, Priorities
  <2> QED
    BY <1>3, <2>2 DEF Promote, syncVars
<1>4. ASSUME NextJob PROVE TypeOK'
  <2>1. /\ foreground' \in SUBSET Job /\ demoted' \in SUBSET Job
        /\ current' \in SUBSET Job
    BY <1>4, JobHelpers DEF NextJob
  <2> QED
    BY <1>4, <2>1 DEF NextJob, callVars
<1>5. ASSUME Notify \/ SpawnWorker \/ RequeuedNotifies PROVE TypeOK'
  <2>1. /\ worker' \in WorkerPlaces /\ shutdown' \in ShutdownPlaces
        /\ owed' \in Nat /\ missed' = missed
    BY <1>5 DEF Notify, SpawnWorker, RequeuedNotifies, NotifyOne, NotifyShutdown, callVars
  <2>2. permit' = permit \/ permit' = TRUE
    BY <1>5 DEF Notify, SpawnWorker, RequeuedNotifies, NotifyOne, NotifyShutdown
  <2>3. permit' \in BOOLEAN
    BY <2>2, Zenon
  <2>4. /\ UNCHANGED <<queueVars, worker_started, closed, stopping, canceller, quiesced>>
        /\ panics' = panics
    BY <1>5 DEF Notify, SpawnWorker, RequeuedNotifies, callVars
  <2> QED
    BY <2>1, <2>3, <2>4 DEF queueVars
<1>6. ASSUME NEW b \in BOOLEAN, FinishCurrent(b) PROVE TypeOK'
  <2>1. PICK j \in current :
           \/ /\ demoted' = demoted \cup {RefreshJob(j, "Demoted")}
              /\ next_sequence' = next_sequence + 1
              /\ worker' = "requeued"
           \/ UNCHANGED <<demoted, next_sequence>> /\ worker' = "finished"
    BY <1>6 DEF FinishCurrent
  <2>2. RefreshJob(j, "Demoted") \in Job
    BY JobHelpers DEF Priorities
  <2>3. demoted' \in SUBSET Job /\ next_sequence' \in Nat /\ worker' \in WorkerPlaces
    BY <2>1, <2>2
  <2> QED
    BY <1>6, <2>3 DEF FinishCurrent, callVars
<1>7. ASSUME WorkerExits \/ WorkerPanics PROVE TypeOK'
  <2>1. /\ UNCHANGED <<queueVars, closed, permit, owed, shutdown, canceller>>
        /\ worker' = "absent" /\ stopping' = stopping + 1
        /\ panics' \in {panics, panics + 1}
    BY <1>7 DEF WorkerExits, WorkerPanics, MarkWorkerStopped
  <2>2. worker_started' = FALSE /\ missed' \in {missed, FALSE} /\ quiesced' \in {quiesced, {}}
    BY <1>7, Zenon DEF WorkerExits, WorkerPanics, MarkWorkerStopped
  <2>3. worker_started' \in BOOLEAN /\ missed' \in BOOLEAN
    BY <2>2, Zenon
  <2> QED
    BY <2>1, <2>2, <2>3 DEF queueVars
<1>8. ASSUME NEW S \in SUBSET Sessions, CancelJobs(S)
      PROVE  foreground' \in SUBSET Job /\ demoted' \in SUBSET Job /\ current' \in SUBSET Job
  BY <1>8, JobHelpers DEF TypeOK, CancelJobs
<1>9. ASSUME NEW c \in Cancellers, NEW S \in SUBSET Sessions, CancelListens(c, S) PROVE TypeOK'
  <2>1. canceller' \in [Cancellers -> Canceller]
    BY <1>9 DEF CancelListens, Canceller
  <2> QED
    BY <1>9, <2>1 DEF CancelListens, queueVars, syncVars, callVars
<1>10. ASSUME Cancelling PROVE TypeOK'
  <2>1. \A t \in Tasks : TaskSessions(t) \in SUBSET Sessions
    BY DEF TaskSessions
  <2>2. ASSUME NEW t \in Tasks, CancelTask(t) PROVE TypeOK'
    BY <1>8, <2>1, <2>2 DEF CancelTask, syncVars, callVars
  <2>3. ASSUME NEW S \in SUBSET Sessions, CancelSessions(S) PROVE TypeOK'
    <3>1. quiesced' \in SUBSET Sessions
      BY <2>3 DEF CancelSessions, Drained
    <3> QED
      BY <1>8, <2>3, <3>1 DEF CancelSessions, syncVars, callVars
  <2>4. \A c \in Cancellers : canceller[c].sessions \in SUBSET Sessions
    BY DEF Canceller
  <2>5. ASSUME NEW c \in Cancellers, CancelTurn(c) PROVE TypeOK'
    <3>1. canceller' \in [Cancellers -> Canceller]
      BY <2>5 DEF CancelTurn, Canceller
    <3>2. quiesced' \in SUBSET Sessions
      BY <2>4, <2>5 DEF CancelTurn, Drained
    <3> QED
      BY <1>8, <2>4, <2>5, <3>1, <3>2 DEF CancelTurn, syncVars, callVars
  <2>6. ASSUME NEW c \in Cancellers, CancelAgain(c) PROVE TypeOK'
    BY <1>9, <2>4, <2>6 DEF CancelAgain
  <2> QED
    BY <1>9, <1>10, <2>1, <2>2, <2>3, <2>5, <2>6
    DEF Cancelling, CancelTaskAndWait, CancelSessionsAndWait
<1>11. ASSUME ShutdownStart PROVE TypeOK'
  BY <1>11, JobHelpers DEF ShutdownStart, callVars
<1>12. ASSUME ShutdownNotifies \/ ShutdownLook \/ ShutdownAwait PROVE TypeOK'
  <2>1. CASE ShutdownNotifies
    <3>1. missed' = (worker \in {"looking", "awaiting"})
      BY <2>1 DEF ShutdownNotifies
    <3>2. missed' \in BOOLEAN
      BY <3>1
    <3> QED
      BY <2>1, <3>2 DEF ShutdownNotifies, queueVars, callVars
  <2>2. CASE ShutdownLook \/ ShutdownAwait
    BY <2>2 DEF ShutdownLook, ShutdownAwait, Polled, queueVars, callVars
  <2> QED
    BY <1>12, <2>1, <2>2
<1>13. ASSUME Listen \/ LookInVain \/ AwaitJob PROVE TypeOK'
  BY <1>13 DEF Listen, LookInVain, AwaitJob, Polled, queueVars, callVars
<1>14. ASSUME FinishedNotifies \/ StoppedNotifies PROVE TypeOK'
  BY <1>14, WokenType DEF FinishedNotifies, StoppedNotifies, queueVars, callVars, syncVars
<1>15. ASSUME UNCHANGED vars PROVE TypeOK'
  BY <1>15 DEF vars
<1> QED
  BY <1>1, <1>2, <1>3, <1>4, <1>5, <1>6, <1>7, <1>10, <1>11, <1>12, <1>13, <1>14, <1>15
  DEF Next, EnqueueForeground, EnqueueDemoted, PromoteCurrent, PromoteQueued, Priorities

\* Every reachable state of the scheduler has the type the structs of
\* hls_fill_scheduler.rs declare.
THEOREM TypeCorrect == Spec => []TypeOK
<1>1. Init => TypeOK
  <2> SUFFICES ASSUME Init PROVE TypeOK
    OBVIOUS
  <2>1. canceller \in [Cancellers -> Canceller]
    BY DEF Init, Canceller
  <2> QED
    BY <2>1 DEF Init, TypeOK, WorkerPlaces, ShutdownPlaces
<1> QED
  BY <1>1, TypeStep, PTL DEF Spec

-----------------------------------------------------------------------------
(* Steps that add no job.                                                   *)

\* `after' holds the job of `before', if there is one, with its flags at most
\* raised.
Same(after, before) ==
    \/ before = {} /\ after = {}
    \/ \E j, k \in Job :
          /\ before = {j} /\ after = {k}
          /\ k.session = j.session /\ k.sequence = j.sequence
          /\ j.preempted => k.preempted
          /\ j.cancelled => k.cancelled

\* Preempting and cancelling change only the flags of the current job.
LEMMA FlagsOnly ==
    ASSUME TypeOK, SingleCurrent
    PROVE  /\ Same(current, current)
           /\ Same(Preempt(current), current)
           /\ \A S \in SUBSET Sessions : Same(CancelIn(current, S), current)
           /\ \A s \in Sessions : Same(PreemptOthers(s), current)
<1>1. CASE current = {}
  <2>1. /\ Preempt(current) = {}
        /\ \A S \in SUBSET Sessions : CancelIn(current, S) = {}
        /\ \A s \in Sessions : PreemptOthers(s) = {}
    BY <1>1 DEF Preempt, CancelIn, PreemptOthers, OfSession, Retain
  <2> QED
    BY <1>1, <2>1 DEF Same
<1>2. ASSUME NEW j \in current PROVE current = {j} /\ j \in Job
  BY <1>2 DEF SingleCurrent, TypeOK
<1>3. ASSUME NEW j \in Job, current = {j}
      PROVE  /\ Same(current, current)
             /\ Same(Preempt(current), current)
             /\ \A S \in SUBSET Sessions : Same(CancelIn(current, S), current)
             /\ \A s \in Sessions : Same(PreemptOthers(s), current)
  <2>1. Same(current, current)
    BY <1>3 DEF Same
  <2>2. [j EXCEPT !.preempted = TRUE] \in Job /\ [j EXCEPT !.cancelled = TRUE] \in Job
    BY DEF Job
  <2>3. Same({[j EXCEPT !.preempted = TRUE]}, current)
    BY <1>3, <2>2 DEF Same, Job
  <2>4. Same({[j EXCEPT !.cancelled = TRUE]}, current)
    BY <1>3, <2>2 DEF Same, Job
  <2>5. Preempt(current) = {[j EXCEPT !.preempted = TRUE]}
    BY <1>3 DEF Preempt
  <2>6. \A S \in SUBSET Sessions :
          CancelIn(current, S) \in {current, {[j EXCEPT !.cancelled = TRUE]}}
    BY <1>3 DEF CancelIn
  <2>7. \A s \in Sessions :
          PreemptOthers(s) \in {current, {[j EXCEPT !.preempted = TRUE]}}
    BY <1>3 DEF PreemptOthers, OfSession, Retain, Preempt
  <2> QED
    BY <2>1, <2>3, <2>4, <2>5, <2>6, <2>7
<1> QED
  BY <1>1, <1>2, <1>3

\* A step of the scheduler either adds or takes a job, or else only withdraws
\* queued jobs and raises flags of the current one.
Withdraws ==
    /\ foreground' \subseteq foreground
    /\ demoted' \subseteq demoted
    /\ Same(current', current)
    /\ next_sequence' = next_sequence

\* The steps between locks: they make, poll and notify, and leave the queues and
\* the current job alone.
Quietly ==
    \/ EnqueueClosed \/ Notify \/ SpawnWorker
    \/ Listen \/ LookInVain \/ AwaitJob
    \/ FinishedNotifies \/ RequeuedNotifies \/ StoppedNotifies
    \/ ShutdownNotifies \/ ShutdownLook \/ ShutdownAwait

\* What a step can do to the queues and the current job.
LEMMA StepShapes ==
    ASSUME TypeOK, SingleCurrent, [Next]_vars
    PROVE  \/ \E s \in Sessions, p \in Priorities : Enqueue(s, p)
           \/ \E s \in Sessions : ~closed /\ Promote(s)
           \/ NextJob
           \/ \E b \in BOOLEAN : FinishCurrent(b)
           \/ Withdraws
<1>1. ASSUME NEW S \in SUBSET Sessions, CancelJobs(S), UNCHANGED next_sequence
      PROVE  Withdraws
  BY <1>1, FlagsOnly DEF CancelJobs, Retain, Withdraws
<1>2. ASSUME UNCHANGED queueVars PROVE Withdraws
  BY <1>2, FlagsOnly DEF queueVars, Withdraws
<1>3. ASSUME ShutdownStart PROVE Withdraws
  BY <1>3, FlagsOnly DEF ShutdownStart, Withdraws
<1>4. ASSUME Cancelling PROVE Withdraws
  <2>1. \A t \in Tasks : TaskSessions(t) \in SUBSET Sessions
    BY DEF TaskSessions
  <2>2. \A c \in Cancellers : canceller[c].sessions \in SUBSET Sessions
    BY DEF TypeOK, Canceller
  <2>3. ASSUME NEW t \in Tasks, CancelTask(t) PROVE Withdraws
    BY <1>1, <2>1, <2>3 DEF CancelTask
  <2>4. ASSUME NEW S \in SUBSET Sessions, CancelSessions(S) PROVE Withdraws
    BY <1>1, <2>4 DEF CancelSessions
  <2>5. ASSUME NEW c \in Cancellers, CancelTurn(c) PROVE Withdraws
    BY <1>1, <2>2, <2>5 DEF CancelTurn
  <2>6. ASSUME NEW c \in Cancellers, NEW S, CancelListens(c, S) PROVE Withdraws
    BY <1>2, <2>6 DEF CancelListens
  <2> QED
    BY <1>4, <2>3, <2>4, <2>5, <2>6
    DEF Cancelling, CancelTaskAndWait, CancelSessionsAndWait, CancelAgain
<1>5. ASSUME Quietly \/ WorkerExits \/ WorkerPanics \/ UNCHANGED vars
      PROVE  Withdraws
  BY <1>2, <1>5 DEF Quietly, EnqueueClosed, Notify, SpawnWorker, Listen, LookInVain, AwaitJob,
     FinishedNotifies, RequeuedNotifies, StoppedNotifies, ShutdownNotifies, ShutdownLook,
     ShutdownAwait, WorkerExits, WorkerPanics, vars, queueVars
<1> QED
  BY <1>3, <1>4, <1>5
  DEF Next, Quietly, EnqueueForeground, EnqueueDemoted, PromoteCurrent, PromoteQueued, Priorities

-----------------------------------------------------------------------------
(* The order of the queues.                                                 *)

\* The job Promote moves, and the queues it leaves.
LEMMA PromoteMoves ==
    ASSUME TypeOK, NEW s \in Sessions, Promote(s)
    PROVE  /\ current' = Preempt(current)
           /\ foreground' \subseteq foreground \cup {CreateJob(s, "Foreground")}
           /\ demoted' \subseteq demoted
           /\ next_sequence' = next_sequence + 1
<1>1. PICK j \in (IF Taken(s) # {} THEN Taken(s) ELSE OfSession(current, s)) :
         foreground' = (foreground \ Taken(s)) \cup {RefreshJob(j, "Foreground")}
  BY DEF Promote
<1>2. j.session = s
  BY <1>1 DEF Taken, Front, OfSession
<1> QED
  BY <1>1, <1>2 DEF Promote, RefreshJob

QueueInv == SingleCurrent /\ SequencesAreDisjoint /\ QueuedTokensAreFresh
            /\ NewestForegroundPreempts

\* A new job has the next sequence number and a fresh token.
LEMMA NewJob ==
    ASSUME TypeOK, NEW s \in Sessions, NEW p \in Priorities
    PROVE  LET n == CreateJob(s, p)
           IN /\ n \in Job /\ n.session = s /\ n.sequence = next_sequence + 1
              /\ ~n.preempted /\ ~n.cancelled
  BY DEF CreateJob, Job, TypeOK

\* Every step keeps the queues in order.
LEMMA QueueStep == TypeOK /\ QueueInv /\ [Next]_vars => QueueInv'
<1> SUFFICES ASSUME TypeOK, QueueInv, [Next]_vars PROVE QueueInv'
  OBVIOUS
<1> USE DEF QueueInv
<1>0. \A j \in Job : j.sequence \in Nat
  BY DEF Job
<1>1. ASSUME NEW s \in Sessions, NEW p \in Priorities, Enqueue(s, p) PROVE QueueInv'
  <2> DEFINE n == CreateJob(s, p)
  <2>1. /\ n \in Job /\ n.session = s /\ n.sequence = next_sequence + 1
        /\ ~n.preempted /\ ~n.cancelled
    BY NewJob
  <2>2. /\ foreground' = foreground \cup (IF p = "Foreground" THEN {n} ELSE {})
        /\ demoted' = demoted \cup (IF p = "Demoted" THEN {n} ELSE {})
        /\ next_sequence' = next_sequence + 1
        /\ current' = IF p = "Foreground" THEN PreemptOthers(s) ELSE current
    BY <1>1 DEF Enqueue, Push
  <2>3. Same(current', current)
    BY <2>2, FlagsOnly
  <2> HIDE DEF n
  <2>4. SingleCurrent'
    BY <2>3 DEF SingleCurrent, Same
  <2>5. SequencesAreDisjoint'
    BY <1>0, <2>1, <2>2, <2>3 DEF SequencesAreDisjoint, Same, TypeOK, Queued, Priorities
  <2>6. QueuedTokensAreFresh'
    BY <2>1, <2>2, Zenon DEF QueuedTokensAreFresh, Queued
  <2>7. CASE p = "Foreground"
    <3>1. \A k \in current' : k.session # s => k.preempted
      BY <2>2, <2>7 DEF PreemptOthers, OfSession, Retain, Preempt, TypeOK, Job
    <3> QED
      BY <2>1, <2>2, <2>3, <2>4, <2>5, <2>6, <2>7, <3>1 DEF NewestForegroundPreempts, Same
  <2>8. CASE p # "Foreground"
    BY <2>1, <2>2, <2>3, <2>4, <2>5, <2>6, <2>8 DEF NewestForegroundPreempts, Same
  <2> QED
    BY <2>7, <2>8
<1>2. ASSUME NEW s \in Sessions, Promote(s) PROVE QueueInv'
  <2> DEFINE n == CreateJob(s, "Foreground")
  <2>1. /\ n \in Job /\ n.session = s /\ n.sequence = next_sequence + 1
        /\ ~n.preempted /\ ~n.cancelled
    BY NewJob DEF Priorities
  <2>2. /\ current' = Preempt(current)
        /\ foreground' \subseteq foreground \cup {n}
        /\ demoted' \subseteq demoted
        /\ next_sequence' = next_sequence + 1
    BY <1>2, PromoteMoves
  <2>3. Same(current', current)
    BY <2>2, FlagsOnly
  <2> HIDE DEF n
  <2>4. SingleCurrent'
    BY <2>3 DEF SingleCurrent, Same
  <2>5. SequencesAreDisjoint'
    BY <1>0, <2>1, <2>2, <2>3 DEF SequencesAreDisjoint, Same, TypeOK, Queued
  <2>6. QueuedTokensAreFresh'
    BY <2>1, <2>2, Zenon DEF QueuedTokensAreFresh, Queued
  <2>7. \A k \in current' : k.preempted
    BY <2>2 DEF Preempt, TypeOK, Job
  <2> QED
    BY <2>4, <2>5, <2>6, <2>7 DEF NewestForegroundPreempts
<1>3. ASSUME NextJob PROVE QueueInv'
  <2>1. PICK j \in (IF foreground # {} THEN Back(foreground) ELSE Front(demoted)) :
           /\ current' = {j}
           /\ foreground' = foreground \ {j}
           /\ demoted' = demoted \ {j}
    BY <1>3 DEF NextJob
  <2>2. next_sequence' = next_sequence /\ j \in Queued
    BY <1>3, <2>1 DEF NextJob, Back, Front, Queued
  <2>3. SingleCurrent'
    BY <2>1 DEF SingleCurrent
  <2>4. SequencesAreDisjoint'
    BY <2>1, <2>2 DEF SequencesAreDisjoint, Queued
  <2>5. QueuedTokensAreFresh'
    BY <2>1 DEF QueuedTokensAreFresh, Queued
  <2>6. \A k \in foreground' : ~(k.sequence > j.sequence)
    BY <1>0, <2>1 DEF Back, TypeOK
  <2> QED
    BY <2>1, <2>3, <2>4, <2>5, <2>6 DEF NewestForegroundPreempts
<1>4. ASSUME NEW b \in BOOLEAN, FinishCurrent(b) PROVE QueueInv'
  <2>1. PICK j \in current :
           \/ /\ demoted' = demoted \cup {RefreshJob(j, "Demoted")}
              /\ next_sequence' = next_sequence + 1
           \/ UNCHANGED <<demoted, next_sequence>>
    BY <1>4 DEF FinishCurrent
  <2> DEFINE n == CreateJob(j.session, "Demoted")
  <2>2. j \in Job /\ j.session \in Sessions
    BY DEF TypeOK, Job
  <2>3. /\ n \in Job /\ n.sequence = next_sequence + 1 /\ ~n.preempted /\ ~n.cancelled
    BY <2>2, NewJob DEF Priorities
  <2>4. /\ foreground' = foreground /\ current' = {}
        /\ \/ demoted' = demoted \cup {n} /\ next_sequence' = next_sequence + 1
           \/ demoted' = demoted /\ next_sequence' = next_sequence
    BY <1>4, <2>1 DEF FinishCurrent, RefreshJob
  <2> HIDE DEF n
  <2>5. SequencesAreDisjoint'
    BY <1>0, <2>3, <2>4 DEF SequencesAreDisjoint, Queued, TypeOK
  <2>6. QueuedTokensAreFresh'
    BY <2>3, <2>4, Zenon DEF QueuedTokensAreFresh, Queued
  <2> QED
    BY <2>4, <2>5, <2>6 DEF SingleCurrent, NewestForegroundPreempts
<1>5. ASSUME Withdraws PROVE QueueInv'
  <2>1. SingleCurrent'
    BY <1>5 DEF Withdraws, SingleCurrent, Same
  <2>2. SequencesAreDisjoint'
    BY <1>5 DEF Withdraws, SequencesAreDisjoint, Same, Queued
  <2>3. QueuedTokensAreFresh'
    BY <1>5 DEF Withdraws, QueuedTokensAreFresh, Queued
  <2>4. NewestForegroundPreempts'
    BY <1>5 DEF Withdraws, NewestForegroundPreempts, Same
  <2> QED
    BY <2>1, <2>2, <2>3, <2>4
<1> QED
  BY <1>1, <1>2, <1>3, <1>4, <1>5, StepShapes

\* The empty queues are in order.
LEMMA QueueInit == Init => QueueInv
  BY DEF Init, QueueInv, SingleCurrent, SequencesAreDisjoint, QueuedTokensAreFresh,
         NewestForegroundPreempts, Queued

\* The queues are in order in every reachable state.
LEMMA QueueAlways == Spec => []QueueInv
  BY QueueInit, QueueStep, TypeCorrect, PTL DEF Spec

\* No two live jobs share a sequence number, by which finish_current recognises
\* its job.
THEOREM UniqueSequences == Spec => []SequencesAreUnique
<1>1. TypeOK /\ QueueInv => SequencesAreUnique
  BY DEF QueueInv, SingleCurrent, SequencesAreDisjoint, SequencesAreUnique, Queued
<1> QED
  BY <1>1, TypeCorrect, QueueAlways, PTL

\* A queued job never carries the token of an attempt that was stopped.
THEOREM FreshTokens == Spec => []QueuedTokensAreFresh
<1>1. QueueInv => QueuedTokensAreFresh
  BY DEF QueueInv
<1> QED
  BY <1>1, QueueAlways, PTL

\* Newer foreground work of another session has preempted the running job.
THEOREM NewestPreempts == Spec => []NewestForegroundPreempts
<1>1. QueueInv => NewestForegroundPreempts
  BY DEF QueueInv
<1> QED
  BY <1>1, QueueAlways, PTL

\* Newer foreground playback stops the running fill and is itself not stopped
\* before it began (enqueue, promote_session_to_foreground, refresh_job).
THEOREM PreemptionPrompt == Spec => []PreemptionIsPrompt
<1>1. QueuedTokensAreFresh /\ NewestForegroundPreempts => PreemptionIsPrompt
  BY DEF PreemptionIsPrompt
<1> QED
  BY <1>1, FreshTokens, NewestPreempts, PTL

-----------------------------------------------------------------------------
(* Wake-ups and shutdown.                                                   *)

ControlInv == FlagsAgree /\ NoLostWakeup /\ ShutdownIsFinal

\* Every step keeps the worker's flags, its wake-ups and the shutdown consistent.
LEMMA ControlStep ==
    TypeOK /\ SingleCurrent /\ ControlInv /\ [Next]_vars => ControlInv'
<1> SUFFICES ASSUME TypeOK, SingleCurrent, ControlInv, [Next]_vars PROVE ControlInv'
  OBVIOUS
<1> USE DEF ControlInv, FlagsAgree, NoLostWakeup, WorkIsAnnounced, StopIsAnnounced,
            ShutdownIsFinal, Queued, TypeOK, WorkerPlaces, ShutdownPlaces
<1>1. ASSUME NEW s \in Sessions, NEW p \in Priorities, Enqueue(s, p) PROVE ControlInv'
  BY <1>1 DEF Enqueue, StartOrOwe
<1>2. ASSUME EnqueueClosed PROVE ControlInv'
  BY <1>2 DEF EnqueueClosed, queueVars, syncVars
<1>3. ASSUME NEW s \in Sessions, ~closed, Promote(s) PROVE ControlInv'
  BY <1>3 DEF Promote, syncVars
<1>4. ASSUME Listen \/ NextJob \/ LookInVain PROVE ControlInv'
  BY <1>4 DEF Listen, NextJob, LookInVain, queueVars, callVars
<1>5. ASSUME NEW b \in BOOLEAN, FinishCurrent(b) PROVE ControlInv'
  BY <1>5 DEF FinishCurrent, ShouldRequeue, callVars
<1>6. ASSUME WorkerExits \/ WorkerPanics PROVE ControlInv'
  BY <1>6 DEF WorkerExits, WorkerPanics, MarkWorkerStopped, queueVars
<1>7. ASSUME Cancelling PROVE ControlInv'
  <2>1. UNCHANGED <<worker_started, closed, syncVars, callVars>>
    BY <1>7 DEF Cancelling, CancelTask, CancelSessions, CancelTaskAndWait,
                CancelSessionsAndWait, CancelAgain, CancelTurn, CancelListens
  <2>2. foreground' \subseteq foreground /\ demoted' \subseteq demoted
    BY <1>7 DEF Cancelling, CancelTask, CancelSessions, CancelTaskAndWait, CancelListens,
                CancelSessionsAndWait, CancelAgain, CancelTurn, CancelJobs, Retain, queueVars
  <2>3. \A k \in current' : \E j \in current : j.preempted => k.preempted
    <3>1. current' = current \/ \E S : current' = CancelIn(current, S)
      BY <1>7 DEF Cancelling, CancelTask, CancelSessions, CancelTaskAndWait, CancelListens,
                  CancelSessionsAndWait, CancelAgain, CancelTurn, CancelJobs, queueVars
    <3> QED
      BY <3>1 DEF CancelIn, Job
  <2> QED
    BY <2>1, <2>2, <2>3 DEF syncVars, callVars
<1>8. ASSUME ShutdownStart PROVE ControlInv'
  <2>1. \A k \in current' : k.preempted
    BY <1>8 DEF ShutdownStart, Preempt, Job
  <2> QED
    BY <1>8, <2>1 DEF ShutdownStart, callVars
<1>9. ASSUME Notify PROVE ControlInv'
  BY <1>9 DEF Notify, NotifyOne, NotifyShutdown, queueVars
<1>10. ASSUME SpawnWorker \/ RequeuedNotifies PROVE ControlInv'
  BY <1>10 DEF SpawnWorker, RequeuedNotifies, NotifyShutdown, queueVars, callVars
<1>11. ASSUME AwaitJob \/ ShutdownAwait PROVE ControlInv'
  BY <1>11 DEF AwaitJob, ShutdownAwait, Polled, queueVars, callVars
<1>12. ASSUME ShutdownNotifies \/ ShutdownLook PROVE ControlInv'
  BY <1>12 DEF ShutdownNotifies, ShutdownLook, queueVars, callVars
<1>13. ASSUME FinishedNotifies \/ StoppedNotifies PROVE ControlInv'
  BY <1>13 DEF FinishedNotifies, StoppedNotifies, queueVars, callVars, syncVars
<1>14. ASSUME UNCHANGED vars PROVE ControlInv'
  BY <1>14 DEF vars
<1> QED
  BY <1>1, <1>2, <1>3, <1>4, <1>5, <1>6, <1>7, <1>8, <1>9, <1>10, <1>11, <1>12, <1>13, <1>14
  DEF Next, EnqueueForeground, EnqueueDemoted, PromoteCurrent, PromoteQueued, Priorities

\* They are consistent in every reachable state.
LEMMA ControlAlways == Spec => []ControlInv
<1>1. Init => ControlInv
  BY DEF Init, ControlInv, FlagsAgree, NoLostWakeup, WorkIsAnnounced, StopIsAnnounced,
         ShutdownIsFinal, Queued
<1>2. QueueInv => SingleCurrent
  BY DEF QueueInv
<1> QED
  BY <1>1, <1>2, ControlStep, TypeCorrect, QueueAlways, PTL DEF Spec

\* Whenever next_job_until_shutdown sleeps, or has looked in vain and is about to
\* await its Notified, queued work and a shutdown are announced to it: by the
\* permit, by the notify_waiters it missed, or by a notify still to come; and so
\* is the end of the worker to shutdown_and_wait_for_worker.
THEOREM WakeupsAreNotLost == Spec => []NoLostWakeup
<1>1. ControlInv => NoLostWakeup
  BY DEF ControlInv
<1> QED
  BY <1>1, ControlAlways, PTL

\* Shutdown closes admission for good and leaves no worker behind.
THEOREM ShutdownFinal == Spec => []ShutdownIsFinal
<1>1. ControlInv => ShutdownIsFinal
  BY DEF ControlInv
<1> QED
  BY <1>1, ControlAlways, PTL

-----------------------------------------------------------------------------
(* Cancellation.                                                            *)

DrainInv == CurrentRuns /\ WaitersAwaitCancelledWork /\ QuiescedStaysQuiet

\* Nobody is left asleep once the waiters were woken.
LEMMA WokenWaits ==
    TypeOK => \A c \in Cancellers : ~(Woken[c].pc = "waiting" /\ ~Woken[c].woken)
  BY DEF TypeOK, Woken, Canceller

\* Raising flags of the current job keeps it, and keeps it cancelled.
LEMMA SameKeeps ==
    ASSUME NEW after, NEW before, Same(after, before)
    PROVE  /\ after = {} <=> before = {}
           /\ \A k \in after : \E j \in before : k.session = j.session
           /\ \A j \in before : \E k \in after :
                 k.session = j.session /\ (j.cancelled => k.cancelled)
  BY DEF Same

\* Every step keeps the promises made to those who cancel.
LEMMA DrainStep ==
    TypeOK /\ SingleCurrent /\ ControlInv /\ DrainInv /\ [Next]_vars => DrainInv'
<1> SUFFICES ASSUME TypeOK, SingleCurrent, ControlInv, DrainInv, [Next]_vars PROVE DrainInv'
  OBVIOUS
<1>0. CASE panics' # 0
  BY <1>0 DEF DrainInv, CurrentRuns, WaitersAwaitCancelledWork, QuiescedStaysQuiet
<1> SUFFICES ASSUME panics' = 0 PROVE DrainInv'
  BY <1>0
<1>p. panics = 0
  <2>1. CASE WorkerPanics
    BY <2>1 DEF WorkerPanics, TypeOK
  <2>2. CASE Cancelling
    BY <2>2 DEF Cancelling, CancelTask, CancelSessions, CancelTaskAndWait,
       CancelSessionsAndWait, CancelAgain, CancelTurn, CancelListens
  <2>3. CASE Quietly
    BY <2>3 DEF Quietly, EnqueueClosed, Notify, SpawnWorker, Listen, LookInVain, AwaitJob,
       FinishedNotifies, RequeuedNotifies, StoppedNotifies, ShutdownNotifies, ShutdownLook,
       ShutdownAwait
  <2> QED
    BY <2>1, <2>2, <2>3
    DEF Next, Quietly, EnqueueForeground, EnqueueDemoted, Enqueue, PromoteCurrent, PromoteQueued,
        Promote, NextJob, FinishCurrent, WorkerExits, ShutdownStart, vars
<1> DEFINE Asleep(c) == canceller[c].pc = "waiting" /\ ~canceller[c].woken
<1> DEFINE Runs0 == current # {} => worker = "running"
<1> DEFINE Waits0 == \A c \in Cancellers : Asleep(c) =>
                        \/ worker \in {"finished", "requeued"}
                        \/ /\ worker = "running"
                           /\ \E j \in current : j.session \in canceller[c].sessions /\ j.cancelled
<1> DEFINE Quiet0 == /\ \A j \in Queued : j.session \notin quiesced
                     /\ worker = "running" => \A j \in current : j.session \notin quiesced
<1>q. Runs0 /\ Waits0 /\ Quiet0
  BY <1>p DEF DrainInv, CurrentRuns, WaitersAwaitCancelledWork, QuiescedStaysQuiet
<1>r. Runs0' /\ Waits0' /\ Quiet0' => DrainInv'
  BY DEF DrainInv, CurrentRuns, WaitersAwaitCancelledWork, QuiescedStaysQuiet
<1>f. FlagsAgree
  BY DEF ControlInv
<1>1. ASSUME NEW s \in Sessions, NEW p \in Priorities, Enqueue(s, p) PROVE DrainInv'
  <2>1. Same(current', current)
    BY <1>1, FlagsOnly DEF Enqueue
  <2>2. worker' = worker \/ (worker = "absent" /\ worker' = "starting")
    BY <1>1, <1>f DEF Enqueue, StartOrOwe, FlagsAgree
  <2>3. worker' = "running" => worker = "running"
    BY <2>2
  <2>4. canceller' = canceller /\ quiesced' = quiesced \ {s}
    BY <1>1 DEF Enqueue
  <2>5. \A k \in Queued' : k \in Queued \/ k.session = s
    BY <1>1 DEF Enqueue, Push, CreateJob, Queued
  <2>6. Runs0' /\ Waits0'
    BY <1>q, <2>1, <2>2, <2>4, SameKeeps
  <2>7. Quiet0'
    BY <1>q, <2>1, <2>3, <2>4, <2>5, SameKeeps
  <2> QED
    BY <1>r, <2>6, <2>7
<1>2. ASSUME NEW s \in Sessions, ~closed, Promote(s),
             OfSession(current, s) # {} \/ Taken(s) # {}
      PROVE  DrainInv'
  <2>1. Same(current', current)
    BY <1>2, FlagsOnly DEF Promote
  <2>2. worker' = worker
    BY <1>2 DEF Promote, syncVars
  <2>3. canceller' = canceller /\ quiesced' = quiesced
    BY <1>2 DEF Promote
  <2>4. \E j \in Queued \cup current : j.session = s
    BY <1>2 DEF Taken, OfSession, Front, Queued
  <2>5. s \notin quiesced
    BY <1>q, <2>4
  <2>6. /\ foreground' \subseteq foreground \cup {CreateJob(s, "Foreground")}
        /\ demoted' \subseteq demoted
    BY <1>2, PromoteMoves
  <2>7. \A k \in Queued' : k \in Queued \/ k.session = s
    BY <2>6 DEF CreateJob, Queued
  <2>8. Runs0' /\ Waits0'
    BY <1>q, <2>1, <2>2, <2>3, SameKeeps
  <2>9. Quiet0'
    BY <1>q, <2>1, <2>2, <2>3, <2>5, <2>7, SameKeeps
  <2> QED
    BY <1>r, <2>8, <2>9
<1>3. ASSUME NextJob PROVE DrainInv'
  <2>1. PICK j \in Queued : current' = {j}
    BY <1>3 DEF NextJob, Back, Front, Queued
  <2>2. /\ foreground' \subseteq foreground /\ demoted' \subseteq demoted
        /\ worker = "looking" /\ worker' = "running"
        /\ canceller' = canceller /\ quiesced' = quiesced
    BY <1>3 DEF NextJob
  <2>3. Runs0' /\ Waits0' /\ Quiet0'
    BY <1>q, <2>1, <2>2 DEF Queued
  <2> QED
    BY <1>r, <2>3
<1>4. ASSUME NEW b \in BOOLEAN, FinishCurrent(b) PROVE DrainInv'
  <2>1. PICK j \in current : demoted' \subseteq demoted \cup {RefreshJob(j, "Demoted")}
    BY <1>4 DEF FinishCurrent
  <2>2. /\ foreground' = foreground /\ current' = {}
        /\ worker = "running" /\ worker' \in {"finished", "requeued"}
        /\ canceller' = canceller /\ quiesced' = quiesced
    BY <1>4 DEF FinishCurrent
  <2>3. RefreshJob(j, "Demoted").session = j.session
    BY DEF RefreshJob, CreateJob
  <2>4. Runs0' /\ Waits0'
    BY <2>2
  <2>5. Quiet0'
    BY <1>q, <2>1, <2>2, <2>3 DEF Queued
  <2> QED
    BY <1>r, <2>4, <2>5
<1>5. ASSUME WorkerExits PROVE DrainInv'
  <2>1. /\ foreground' = foreground /\ demoted' = demoted /\ current' = current
        /\ worker = "looking" /\ worker' = "absent"
        /\ canceller' = canceller /\ quiesced' = quiesced
    BY <1>5 DEF WorkerExits, MarkWorkerStopped, queueVars
  <2>2. Runs0' /\ Waits0' /\ Quiet0'
    BY <1>q, <2>1 DEF Queued
  <2> QED
    BY <1>r, <2>2
<1>6. ASSUME NEW S \in SUBSET Sessions, CancelJobs(S), UNCHANGED <<worker, worker_started>>
      PROVE  /\ Same(current', current)
             /\ Queued' \subseteq Queued
             /\ \A j \in Queued' : j.session \notin S
             /\ \A k \in current' : k.session \in S => k.cancelled
             /\ Busy(S) <=> (worker_started /\ \E k \in current' : k.session \in S)
  <2>1. current' = CancelIn(current, S) /\ Same(current', current)
    BY <1>6, FlagsOnly DEF CancelJobs
  <2>2. \A k \in current' : k.session \in S => k.cancelled
    BY <2>1 DEF CancelIn, TypeOK, Job
  <2> QED
    BY <1>6, <2>1, <2>2, SameKeeps DEF CancelJobs, Retain, Queued, Busy
<1>7. ASSUME NEW S \in SUBSET Sessions, CancelJobs(S),
             UNCHANGED <<worker, worker_started>>, quiesced' \in {quiesced, Drained(S)}
      PROVE  Runs0' /\ Quiet0'
  <2>1. Runs0'
    BY <1>q, <1>6, <1>7, SameKeeps
  <2>2. Quiet0'
    BY <1>q, <1>f, <1>6, <1>7, SameKeeps DEF FlagsAgree, Drained
  <2> QED
    BY <2>1, <2>2
<1>8. ASSUME NEW S \in SUBSET Sessions, CancelJobs(S), UNCHANGED <<worker, worker_started>>,
             NEW d \in Cancellers, Asleep(d), canceller'[d].sessions = canceller[d].sessions
      PROVE  \/ worker' \in {"finished", "requeued"}
             \/ /\ worker' = "running"
                /\ \E j \in current' : j.session \in canceller'[d].sessions /\ j.cancelled
  BY <1>q, <1>6, <1>8, SameKeeps
<1>9. ASSUME NEW c \in Cancellers, CancelTurn(c) PROVE DrainInv'
  <2> DEFINE S == canceller[c].sessions
  <2>1. S \in SUBSET Sessions /\ canceller \in [Cancellers -> Canceller]
    BY DEF TypeOK, Canceller
  <2>2. CancelJobs(S) /\ UNCHANGED <<worker, worker_started>> /\ quiesced' = Drained(S)
    BY <1>9 DEF CancelTurn, syncVars
  <2>3. canceller' = [canceller EXCEPT ![c] =
             IF Busy(S) THEN [canceller[c] EXCEPT !.pc = "waiting"]
             ELSE [pc |-> "idle", sessions |-> {}, woken |-> FALSE]]
    BY <1>9 DEF CancelTurn
  <2> HIDE DEF S
  <2>4. Runs0' /\ Quiet0'
    BY <1>7, <2>1, <2>2
  <2>5. ASSUME NEW d \in Cancellers, Asleep(d)'
        PROVE  \/ worker' \in {"finished", "requeued"}
               \/ /\ worker' = "running"
                  /\ \E j \in current' : j.session \in canceller'[d].sessions /\ j.cancelled
    <3>1. CASE d = c
      <4>1. Busy(S) /\ canceller'[c].sessions = S
        BY <2>1, <2>3, <2>5, <3>1 DEF Canceller, S
      <4>2. PICK k \in current' : k.session \in S /\ k.cancelled
        BY <1>6, <2>1, <2>2, <4>1
      <4> QED
        BY <2>4, <3>1, <4>1, <4>2
    <3>2. CASE d # c
      <4>1. canceller'[d] = canceller[d]
        BY <2>1, <2>3, <3>2
      <4> QED
        BY <1>8, <2>1, <2>2, <2>5, <4>1
    <3> QED
      BY <3>1, <3>2
  <2> QED
    BY <1>r, <2>4, <2>5
<1>10. ASSUME NEW c \in Cancellers, NEW S, CancelListens(c, S) PROVE DrainInv'
  <2>1. /\ UNCHANGED <<foreground, demoted, current, worker, quiesced>>
        /\ canceller \in [Cancellers -> Canceller]
        /\ canceller' = [canceller EXCEPT ![c] =
                            [pc |-> "looking", sessions |-> S, woken |-> FALSE]]
    BY <1>10 DEF CancelListens, queueVars, syncVars, TypeOK
  <2>2. \A d \in Cancellers : Asleep(d)' => Asleep(d) /\ canceller'[d] = canceller[d]
    BY <2>1
  <2>3. Runs0' /\ Quiet0'
    BY <1>q, <2>1 DEF Queued
  <2>4. Waits0'
    BY <1>q, <2>1, <2>2
  <2> QED
    BY <1>r, <2>3, <2>4
<1>11. ASSUME Cancelling PROVE DrainInv'
  <2>1. \A t \in Tasks : TaskSessions(t) \in SUBSET Sessions
    BY DEF TaskSessions
  <2>2. ASSUME NEW S \in SUBSET Sessions, CancelJobs(S), quiesced' \in {quiesced, Drained(S)},
               UNCHANGED <<worker, worker_started, canceller>>
        PROVE  DrainInv'
    <3>1. Runs0' /\ Quiet0'
      BY <1>7, <2>2
    <3>2. Waits0'
      BY <1>8, <2>2
    <3> QED
      BY <1>r, <3>1, <3>2
  <2>3. ASSUME NEW t \in Tasks, CancelTask(t) PROVE DrainInv'
    BY <2>1, <2>2, <2>3 DEF CancelTask, syncVars
  <2>4. ASSUME NEW S \in SUBSET Sessions, CancelSessions(S) PROVE DrainInv'
    BY <2>2, <2>4 DEF CancelSessions, syncVars
  <2> QED
    BY <1>9, <1>10, <1>11, <2>3, <2>4
    DEF Cancelling, CancelTaskAndWait, CancelSessionsAndWait, CancelAgain
<1>12. ASSUME Withdraws, canceller' \in {canceller, Woken}, quiesced' = quiesced,
              worker' # worker => worker # "running" /\ worker' \notin {"running"},
              worker' # worker /\ worker \in {"finished", "requeued"} => canceller' = Woken
       PROVE  DrainInv'
  <2>1. worker = "running" <=> worker' = "running"
    BY <1>12
  <2>2. Queued' \subseteq Queued
    BY <1>12 DEF Withdraws, Queued
  <2>3. Runs0' /\ Quiet0'
    BY <1>q, <1>12, <2>1, <2>2, SameKeeps DEF Withdraws
  <2>4. CASE canceller' = Woken
    <3>1. Waits0'
      BY <2>4, WokenWaits
    <3> QED
      BY <1>r, <2>3, <3>1
  <2>5. CASE canceller' = canceller
    <3>1. ASSUME NEW c \in Cancellers, Asleep(c)'
          PROVE  \/ worker' \in {"finished", "requeued"}
                 \/ /\ worker' = "running"
                    /\ \E j \in current' : j.session \in canceller'[c].sessions /\ j.cancelled
      <4>1. Asleep(c)
        BY <2>5, <3>1
      <4>2. CASE worker \in {"finished", "requeued"} /\ worker' = worker
        BY <4>2
      <4>3. CASE worker \in {"finished", "requeued"} /\ worker' # worker
        BY <1>12, <3>1, <4>3, WokenWaits
      <4>4. CASE worker \notin {"finished", "requeued"}
        BY <1>q, <1>12, <2>1, <2>5, <4>1, <4>4, SameKeeps DEF Withdraws
      <4> QED
        BY <4>2, <4>3, <4>4
    <3> QED
      BY <1>r, <2>3, <3>1
  <2> QED
    BY <1>12, <2>4, <2>5
<1>13. ASSUME Quietly PROVE DrainInv'
  <2>1. Withdraws
    BY <1>13, FlagsOnly
    DEF Quietly, EnqueueClosed, Notify, SpawnWorker, Listen, LookInVain, AwaitJob,
        FinishedNotifies, RequeuedNotifies, StoppedNotifies, ShutdownNotifies, ShutdownLook,
        ShutdownAwait, queueVars, Withdraws
  <2>2. CASE FinishedNotifies \/ StoppedNotifies
    BY <1>12, <2>1, <2>2 DEF FinishedNotifies, StoppedNotifies, syncVars
  <2>3. CASE ~(FinishedNotifies \/ StoppedNotifies)
    <3>1. /\ UNCHANGED <<canceller, quiesced>>
          /\ worker' # worker => worker \notin {"running", "finished", "requeued"}
                                 /\ worker' # "running"
      BY <1>13, <2>3
      DEF Quietly, EnqueueClosed, Notify, NotifyOne, SpawnWorker, Listen, LookInVain, AwaitJob,
          RequeuedNotifies, ShutdownNotifies, ShutdownLook, ShutdownAwait, Polled, syncVars
    <3> QED
      BY <1>12, <2>1, <3>1
  <2> QED
    BY <2>2, <2>3
<1>14. ASSUME ShutdownStart \/ UNCHANGED vars PROVE DrainInv'
  <2>1. Withdraws
    BY <1>14, FlagsOnly DEF ShutdownStart, vars, Withdraws
  <2> QED
    BY <1>12, <1>14, <2>1 DEF ShutdownStart, vars
<1>15. ASSUME WorkerPanics PROVE DrainInv'
  BY <1>p, <1>15 DEF WorkerPanics
<1> QED
  BY <1>1, <1>2, <1>3, <1>4, <1>5, <1>11, <1>13, <1>14, <1>15
  DEF Next, Quietly, EnqueueForeground, EnqueueDemoted, PromoteCurrent, PromoteQueued, Priorities, OfSession

\* Those promises hold in every reachable state.
LEMMA DrainAlways == Spec => []DrainInv
<1>1. Init => DrainInv
  BY DEF Init, DrainInv, CurrentRuns, WaitersAwaitCancelledWork, QuiescedStaysQuiet, Queued
<1>2. QueueInv => SingleCurrent
  BY DEF QueueInv
<1> QED
  BY <1>1, <1>2, DrainStep, TypeCorrect, QueueAlways, ControlAlways, PTL DEF Spec

\* Whoever waits for a job to stop waits for a job that was told to stop and
\* that a live worker runs, as long as no worker died.
THEOREM WaitersAwaitWork == Spec => []WaitersAwaitCancelledWork
<1>1. DrainInv => WaitersAwaitCancelledWork
  BY DEF DrainInv
<1> QED
  BY <1>1, DrainAlways, PTL

\* Sessions that a cancellation reported drained stay so until they are
\* enqueued again, as long as no worker died.
THEOREM QuiescedQuiet == Spec => []QuiescedStaysQuiet
<1>1. DrainInv => QuiescedStaysQuiet
  BY DEF DrainInv
<1> QED
  BY <1>1, DrainAlways, PTL

\* cancel_task_and_wait waits for what it has to and returns when that is over.
THEOREM CancelledWorkOver == Spec => []CancelledWorkEnds
<1>1. WaitersAwaitCancelledWork /\ QuiescedStaysQuiet => CancelledWorkEnds
  BY DEF CancelledWorkEnds
<1> QED
  BY <1>1, WaitersAwaitWork, QuiescedQuiet, PTL

\* Neither a cancellation that returned nor a shutdown is ever undone by the
\* scheduler itself.
THEOREM StoppedForGood == Spec => []StoppedStaysStopped
<1>1. CancelledWorkEnds /\ ShutdownIsFinal => StoppedStaysStopped
  BY DEF StoppedStaysStopped
<1> QED
  BY <1>1, CancelledWorkOver, ShutdownFinal, PTL

-----------------------------------------------------------------------------
(* The scheduler implements the abstract queue HlsFillQueue.                *)

SessionsOf(jobs) == {j.session : j \in jobs}

AnyCancelled(jobs) == \E j \in jobs : j.cancelled

\* Preempting keeps the session and the cancellation of every job; cancelling
\* the sessions S keeps the sessions and cancels exactly the jobs of S.
LEMMA FlagsAbstracted ==
    ASSUME NEW jobs \in SUBSET Job
    PROVE  /\ SessionsOf(Preempt(jobs)) = SessionsOf(jobs)
           /\ AnyCancelled(Preempt(jobs)) <=> AnyCancelled(jobs)
           /\ \A S \in SUBSET Sessions :
                 /\ SessionsOf(CancelIn(jobs, S)) = SessionsOf(jobs)
                 /\ AnyCancelled(CancelIn(jobs, S))
                       <=> AnyCancelled(jobs) \/ SessionsOf(jobs) \cap S # {}
<1>1. \A j \in jobs : LET k == [j EXCEPT !.preempted = TRUE]
                      IN  k.session = j.session /\ k.cancelled = j.cancelled
  BY DEF Job
<1>3. /\ SessionsOf(Preempt(jobs)) = SessionsOf(jobs)
      /\ AnyCancelled(Preempt(jobs)) <=> AnyCancelled(jobs)
  BY <1>1 DEF SessionsOf, AnyCancelled, Preempt
<1>4. ASSUME NEW S \in SUBSET Sessions
      PROVE  /\ SessionsOf(CancelIn(jobs, S)) = SessionsOf(jobs)
             /\ AnyCancelled(CancelIn(jobs, S))
                   <=> AnyCancelled(jobs) \/ SessionsOf(jobs) \cap S # {}
  <2> DEFINE K(j) == IF j.session \in S THEN [j EXCEPT !.cancelled = TRUE] ELSE j
  <2>1. \A j \in jobs : /\ K(j).session = j.session
                        /\ K(j).cancelled <=> j.cancelled \/ j.session \in S
    BY DEF Job
  <2>2. CancelIn(jobs, S) = {K(j) : j \in jobs}
    BY DEF CancelIn
  <2> HIDE DEF K
  <2>3. SessionsOf(CancelIn(jobs, S)) = SessionsOf(jobs)
    BY <2>1, <2>2 DEF SessionsOf
  <2>4. AnyCancelled(CancelIn(jobs, S)) <=> \E j \in jobs : j.cancelled \/ j.session \in S
    BY <2>1, <2>2 DEF AnyCancelled
  <2>5. (\E j \in jobs : j.session \in S) <=> SessionsOf(jobs) \cap S # {}
    BY DEF SessionsOf
  <2> QED
    BY <2>3, <2>4, <2>5 DEF AnyCancelled
<1> QED
  BY <1>3, <1>4

\* New work preempts the running job without changing what it fills.
LEMMA PreemptOthersAbstracted ==
    ASSUME TypeOK, NEW s \in Sessions
    PROVE  /\ SessionsOf(PreemptOthers(s)) = SessionsOf(current)
           /\ AnyCancelled(PreemptOthers(s)) <=> AnyCancelled(current)
<1>1. \A j \in current : LET k == [j EXCEPT !.preempted = TRUE]
                         IN  k.session = j.session /\ k.cancelled = j.cancelled
  BY DEF Job, TypeOK
<1> QED
  BY <1>1 DEF SessionsOf, AnyCancelled, PreemptOthers, OfSession, Retain, Preempt

RefinementInv == TypeOK /\ QueueInv /\ ControlInv

\* Every step of the scheduler is a step of the abstract queue, or changes
\* nothing it shows.
LEMMA RefinementStep ==
    RefinementInv /\ [Next]_vars => [FillQueue!Next]_(FillQueue!vars)
<1> SUFFICES ASSUME RefinementInv, [Next]_vars PROVE [FillQueue!Next]_(FillQueue!vars)
  OBVIOUS
<1> DEFINE Waiting == SessionsOf(Queued)
           Runs == worker = "running"
           Filled == IF Runs THEN SessionsOf(current) ELSE {}
           Stopped == Runs /\ AnyCancelled(current)
<1>0. TypeOK /\ SingleCurrent /\ QueuedTokensAreFresh /\ FlagsAgree /\ closed \in BOOLEAN
  BY DEF RefinementInv, QueueInv, ControlInv, TypeOK
<1>m. /\ FillQueue!vars = <<Waiting, Filled, Stopped, ~closed>>
      /\ (FillQueue!vars)' = <<Waiting', Filled', Stopped', ~closed'>>
  BY DEF FillQueue!vars, Filling, SessionsOf, AnyCancelled
<1>1. ASSUME NEW s \in Sessions, ~closed, closed' = closed,
             Waiting' = Waiting \cup {s}, Filled' = Filled, Stopped' <=> Stopped
      PROVE  FillQueue!Next
  <2>1. FillQueue!Request(s)
    BY <1>1 DEF FillQueue!Request, Filling, SessionsOf, AnyCancelled
  <2> QED
    BY <2>1 DEF FillQueue!Next
<1>2. ASSUME closed' = closed, Waiting' = Waiting, Filled' = Filled, Stopped' <=> Stopped
      PROVE  (FillQueue!vars)' = FillQueue!vars
  BY <1>m, <1>2
<1>3. ASSUME NEW S \in SUBSET Sessions, closed' = closed, Waiting' = Waiting \ S, Filled' = Filled,
             Stopped' <=> (Stopped \/ Filled \cap S # {})
      PROVE  FillQueue!Next
  <2>1. FillQueue!Withdraw(S)
    BY <1>3 DEF FillQueue!Withdraw, Filling, SessionsOf, AnyCancelled
  <2> QED
    BY <2>1 DEF FillQueue!Next
<1>4. ASSUME Runs' = Runs, SessionsOf(current') = SessionsOf(current),
             AnyCancelled(current') <=> AnyCancelled(current)
      PROVE  Filled' = Filled /\ (Stopped' <=> Stopped)
  BY <1>4 DEF SessionsOf, AnyCancelled
<1>5. ASSUME NEW s \in Sessions, NEW p \in Priorities, Enqueue(s, p) PROVE FillQueue!Next
  <2>0. Queued' = Queued \cup {CreateJob(s, p)} /\ CreateJob(s, p).session = s
    BY <1>5 DEF Enqueue, Push, CreateJob, Queued, Priorities
  <2>1. Waiting' = Waiting \cup {s}
    BY <2>0 DEF SessionsOf
  <2>2. Runs' = Runs
    BY <1>0, <1>5 DEF Enqueue, StartOrOwe, FlagsAgree
  <2>3. /\ SessionsOf(current') = SessionsOf(current)
        /\ AnyCancelled(current') <=> AnyCancelled(current)
    BY <1>0, <1>5, PreemptOthersAbstracted DEF Enqueue
  <2>4. ~closed /\ closed' = closed
    BY <1>5 DEF Enqueue
  <2> QED
    BY <1>1, <1>4, <2>1, <2>2, <2>3, <2>4
<1>6. ASSUME NEW s \in Sessions, ~closed, Promote(s) PROVE FillQueue!Next
  <2>1. PICK j \in (IF Taken(s) # {} THEN Taken(s) ELSE OfSession(current, s)) :
           foreground' = (foreground \ Taken(s)) \cup {RefreshJob(j, "Foreground")}
    BY <1>6 DEF Promote
  <2>2. RefreshJob(j, "Foreground").session = s /\ \A k \in Taken(s) : k.session = s
    BY <2>1 DEF RefreshJob, CreateJob, Taken, Front, OfSession
  <2>3. Waiting' = Waiting \cup {s}
    BY <1>6, <2>1, <2>2 DEF Promote, SessionsOf, Queued
  <2>4. Runs' = Runs /\ closed' = closed /\ current' = Preempt(current)
    BY <1>6 DEF Promote, syncVars
  <2>5. /\ SessionsOf(current') = SessionsOf(current)
        /\ AnyCancelled(current') <=> AnyCancelled(current)
    BY <1>0, <2>4, FlagsAbstracted DEF TypeOK
  <2> QED
    BY <1>1, <1>4, <1>6, <2>3, <2>4, <2>5
<1>7. ASSUME NextJob PROVE FillQueue!Next
  <2>1. PICK j \in (IF foreground # {} THEN Back(foreground) ELSE Front(demoted)) :
           /\ current' = {j}
           /\ foreground' = foreground \ {j}
           /\ demoted' = demoted \ {j}
    BY <1>7 DEF NextJob
  <2>2. j \in Queued /\ j.session \in Sessions /\ ~j.cancelled
    BY <1>0, <2>1 DEF Back, Front, Queued, TypeOK, Job, QueuedTokensAreFresh
  <2>3. ~closed /\ closed' = closed /\ ~Runs /\ Runs'
    BY <1>7 DEF NextJob
  <2>4. Filled = {} /\ Filled' = {j.session} /\ ~Stopped'
    BY <2>1, <2>2, <2>3 DEF SessionsOf, AnyCancelled
  <2>5. j.session \in Waiting /\ Waiting' \in {Waiting, Waiting \ {j.session}}
    BY <2>1, <2>2 DEF SessionsOf, Queued
  <2>6. FillQueue!Take(j.session)
    BY <2>3, <2>4, <2>5 DEF FillQueue!Take, Filling, SessionsOf, AnyCancelled
  <2> QED
    BY <2>2, <2>6 DEF FillQueue!Next
<1>8. ASSUME NEW b \in BOOLEAN, FinishCurrent(b) PROVE FillQueue!Next
  <2>1. PICK j \in current :
          \/ /\ ShouldRequeue(j, b)
             /\ demoted' = demoted \cup {RefreshJob(j, "Demoted")}
          \/ demoted' = demoted
    BY <1>8 DEF FinishCurrent
  <2>2. /\ Runs /\ ~Runs' /\ current' = {} /\ closed' = closed /\ foreground' = foreground
    BY <1>8 DEF FinishCurrent
  <2>3. Filled = {j.session} /\ Filled' = {} /\ ~Stopped' /\ (Stopped <=> j.cancelled)
    BY <1>0, <2>1, <2>2 DEF SessionsOf, AnyCancelled, SingleCurrent
  <2>4. CASE ShouldRequeue(j, b) /\ demoted' = demoted \cup {RefreshJob(j, "Demoted")}
    <3>1. Waiting' = Waiting \cup {j.session}
      <4>1. /\ Queued' = Queued \cup {RefreshJob(j, "Demoted")}
            /\ RefreshJob(j, "Demoted").session = j.session
        BY <2>2, <2>4 DEF Queued, RefreshJob, CreateJob
      <4> QED
        BY <4>1 DEF SessionsOf
    <3>2. FillQueue!Finish(TRUE)
      BY <2>2, <2>3, <2>4, <3>1
      DEF FillQueue!Finish, Filling, SessionsOf, AnyCancelled, ShouldRequeue
    <3> QED
      BY <3>2 DEF FillQueue!Next
  <2>5. CASE demoted' = demoted
    <3>1. FillQueue!Finish(FALSE)
      BY <2>2, <2>3, <2>5 DEF FillQueue!Finish, Filling, SessionsOf, AnyCancelled, Queued
    <3> QED
      BY <3>1 DEF FillQueue!Next
  <2> QED
    BY <2>1, <2>4, <2>5
<1>9. ASSUME WorkerPanics PROVE [FillQueue!Next]_(FillQueue!vars)
  <2>1. /\ Runs /\ ~Runs' /\ closed' = closed /\ current' = current
        /\ Waiting' = Waiting /\ Filled' = {} /\ ~Stopped'
    BY <1>9 DEF WorkerPanics, MarkWorkerStopped, queueVars, Queued, SessionsOf
  <2>2. CASE Filled = {}
    <3>0. SessionsOf(current) = {} /\ \A j \in current : j.session \in SessionsOf(current)
      BY <2>1, <2>2 DEF SessionsOf
    <3>1. ~Stopped
      BY <3>0 DEF AnyCancelled
    <3> QED
      BY <1>2, <2>1, <2>2, <3>1
  <2>3. CASE Filled # {}
    <3>1. FillQueue!Finish(FALSE)
      BY <2>1, <2>3 DEF FillQueue!Finish, Filling, SessionsOf, AnyCancelled
    <3> QED
      BY <3>1 DEF FillQueue!Next
  <2> QED
    BY <2>2, <2>3
<1>10. ASSUME NEW S \in SUBSET Sessions, CancelJobs(S), UNCHANGED <<worker, closed>>
       PROVE  FillQueue!Next
  <2>1. Waiting' = Waiting \ S
    BY <1>10 DEF CancelJobs, Retain, SessionsOf, Queued
  <2>2. /\ SessionsOf(current') = SessionsOf(current)
        /\ AnyCancelled(current') <=> AnyCancelled(current) \/ SessionsOf(current) \cap S # {}
    BY <1>0, <1>10, FlagsAbstracted DEF CancelJobs, TypeOK
  <2>3. Filled' = Filled /\ (Stopped' <=> (Stopped \/ Filled \cap S # {}))
    BY <1>10, <2>2 DEF SessionsOf, AnyCancelled
  <2> QED
    BY <1>3, <1>10, <2>1, <2>3
<1>14. ASSUME UNCHANGED <<foreground, demoted, current, closed>>, Runs' = Runs
       PROVE  (FillQueue!vars)' = FillQueue!vars
  <2>1. Waiting' = Waiting
    BY <1>14 DEF SessionsOf, Queued
  <2> QED
    BY <1>2, <1>4, <1>14, <2>1
<1>11. ASSUME Cancelling PROVE [FillQueue!Next]_(FillQueue!vars)
  <2>1. \A t \in Tasks : TaskSessions(t) \in SUBSET Sessions
    BY DEF TaskSessions
  <2>2. \A c \in Cancellers : canceller[c].sessions \in SUBSET Sessions
    BY <1>0 DEF TypeOK, Canceller
  <2>3. CASE \E c \in Cancellers, S \in SUBSET Sessions : CancelListens(c, S)
    BY <1>14, <2>3 DEF CancelListens, queueVars, syncVars
  <2> QED
    BY <1>10, <1>11, <2>1, <2>2, <2>3
    DEF Cancelling, CancelTask, CancelSessions, CancelTaskAndWait,
        CancelSessionsAndWait, CancelAgain, CancelTurn, syncVars
<1>12. ASSUME ShutdownStart PROVE FillQueue!Next
  <2>1. Runs' = Runs /\ closed' /\ current' = Preempt(current) /\ Waiting' = {}
    BY <1>12 DEF ShutdownStart, SessionsOf, Queued
  <2>2. Filled' = Filled /\ (Stopped' <=> Stopped)
    BY <1>0, <1>4, <2>1, FlagsAbstracted DEF TypeOK
  <2>3. FillQueue!Close
    BY <2>1, <2>2 DEF FillQueue!Close, Filling, SessionsOf, AnyCancelled
  <2> QED
    BY <2>3 DEF FillQueue!Next
<1>13. ASSUME Quietly \/ WorkerExits \/ UNCHANGED vars
       PROVE  (FillQueue!vars)' = FillQueue!vars
  <2>1. UNCHANGED <<foreground, demoted, current, closed>>
    BY <1>13
    DEF Quietly, EnqueueClosed, Notify, SpawnWorker, Listen, LookInVain, AwaitJob,
        FinishedNotifies, RequeuedNotifies, StoppedNotifies, ShutdownNotifies, ShutdownLook,
        ShutdownAwait, WorkerExits, vars, queueVars
  <2>2. Runs' = Runs
    BY <1>13
    DEF Quietly, EnqueueClosed, Notify, NotifyOne, SpawnWorker, Listen, LookInVain, AwaitJob,
        FinishedNotifies, RequeuedNotifies, StoppedNotifies, ShutdownNotifies, ShutdownLook,
        ShutdownAwait, Polled, WorkerExits, MarkWorkerStopped, vars, syncVars
  <2> QED
    BY <1>14, <2>1, <2>2
<1> QED
  BY <1>5, <1>6, <1>7, <1>8, <1>9, <1>11, <1>12, <1>13
  DEF Next, Quietly, EnqueueForeground, EnqueueDemoted, PromoteCurrent, PromoteQueued, Priorities

\* Whatever preempts, promotes, refreshes or dies, the scheduler is a queue of
\* sessions of which one is filled at a time, and never puts a cancelled one
\* back by itself (HlsFillQueue).
THEOREM FillQueueImplemented == Spec => ImplementsFillQueue
<1>1. Init => FillQueue!Init
  BY DEF Init, FillQueue!Init, Filling, Queued
<1>2. TypeOK /\ QueueInv /\ ControlInv => RefinementInv
  BY DEF RefinementInv
<1> QED
  BY <1>1, <1>2, RefinementStep, TypeCorrect, QueueAlways, ControlAlways, PTL
  DEF Spec, ImplementsFillQueue, FillQueue!Spec
=============================================================================
