-------------------------- MODULE PlaybackPlanning --------------------------
(***************************************************************************)
(* How a playback task gets what it plays: the selection of a request, its *)
(* resolution against an origin that changes, one plan for each selected   *)
(* item and the publication of the results, while the task may be          *)
(* cancelled and its saves may fail (grpc_services.rs, bbdown_adapter.rs,  *)
(* task_registry.rs).  The cancellation of a task that is already playable *)
(* is in HlsItemLifecycle.                                                 *)
(*                                                                         *)
(* An origin is [kind, list, pages]: the pages of a video are their cids;  *)
(* a "video" lists the pages of its one video, a "list" pages of several.  *)
(* An identity is <<video, cid>>.  Session i is that of the i-th item.     *)
(***************************************************************************)
EXTENDS Naturals, Sequences, FiniteSets

CONSTANTS
    Origins,     \* what the source may be, now and later
    Asks,        \* requests: [v2, single, mode, ids, first, last]
    Limit,       \* candidates of a resolution
    Unplayable,  \* identities that the origin does not serve
    MaxChanges, MaxFaults,
    None

VARIABLES
    origin,    \* the source, as it is now
    meant,     \* the identities that the request names
    reg,       \* the task: [st, items, primary]
    vis,       \* the task that clients see
    avail,     \* whether every change is saved
    refused,   \* whether a save was impossible, or the planner dropped before it was made
    cancel,    \* the cancellation token
    permit,    \* the planning permit: "other", "free" or "mine"
    run,       \* the planner of the task
    sessions,  \* the registered sessions, with what they play
    queue,     \* fills that were enqueued: <<session, whether in the foreground>>
    changes, faults

vars == <<origin, meant, reg, vis, avail, refused, cancel, permit, run, sessions, queue, changes, faults>>
task == <<reg, vis, avail, refused, faults>>
world == <<origin, meant, changes>>

Values(s) == {s[i] : i \in DOMAIN s}
Least(S) == CHOOSE x \in S : \A y \in S : x <= y

NoTask == [st |-> "none", items |-> << >>, primary |-> None]
NoRun ==
    [pc |-> "new", v2 |-> FALSE, mode |-> None, sel |-> << >>, i |-> 1, page |-> 0, got |-> None,
     items |-> << >>, planned |-> {}, end |-> None, ids |-> {}, armed |-> TRUE]

Init ==
    /\ origin \in Origins /\ meant = << >>
    /\ reg = NoTask /\ vis = NoTask /\ avail = TRUE /\ refused = FALSE
    /\ cancel = FALSE /\ permit = "other" /\ run = NoRun
    /\ sessions = << >> /\ queue = << >> /\ changes = 0 /\ faults = 0

-----------------------------------------------------------------------------
(* Selection ids and candidates.                                           *)

Listed(o) == [i \in 1..Least({Len(o.list), Limit}) |-> o.list[i]]
IdOf(o, i) ==
    [kind |-> IF o.kind = "video" THEN "page" ELSE "item", index |-> i,
     source |-> IF o.kind = "video" THEN None ELSE o.source, of |-> Listed(o)[i]]
Candidates(o) == [i \in DOMAIN Listed(o) |-> [id |-> IdOf(o, i), index |-> i]]
Truncated(o) == Len(o.list) > Limit

\* playback_selection_from_id: an id is refused for another kind of source and
\* for another source.
Accepts(o, id) ==
    /\ id.kind = (IF o.kind = "video" THEN "page" ELSE "item")
    /\ id.kind = "item" => id.source = o.source

\* recover_stable_collection_candidate: an item that the list no longer has is
\* still the item, and keeps the id and the index it was selected with.
Recover(o, id) ==
    IF id.kind = "item" /\ Accepts(o, id) THEN {[id |-> id, index |-> id.index]} ELSE {}
Find(o, id) ==
    LET found == {c \in Values(Candidates(o)) : c.id = id}
    IN  IF found # {} THEN found ELSE Recover(o, id)

\* selected_bilibili_candidates; none when the selection cannot be met.
Selected(o, ask) ==
    LET within == SelectSeq(Candidates(o), LAMBDA c : c.index >= ask.first /\ c.index <= ask.last)
    IN  CASE ask.mode = "ids" ->
               IF \A id \in Values(ask.ids) : Find(o, id) # {}
               THEN [i \in DOMAIN ask.ids |-> CHOOSE c \in Find(o, ask.ids[i]) : TRUE] ELSE << >>
          [] ask.mode = "range" -> IF Len(within) = ask.last - ask.first + 1 THEN within ELSE << >>
          [] ask.mode = "all" -> IF Truncated(o) THEN << >> ELSE Candidates(o)

\* normalized_bilibili_task_selection
RECURSIVE Unique(_)
Unique(ids) ==
    IF ids = << >> THEN << >>
    ELSE LET front == Unique(SubSeq(ids, 1, Len(ids) - 1))
         IN  IF ids[Len(ids)] \in Values(front) THEN front ELSE Append(front, ids[Len(ids)])

\* playback_selection_plan: the ask that is planned, or None.
SelectionPlan(ask) ==
    LET ids == Unique(ask.ids)
        ranged == ask.first # 0 \/ ask.last # 0
        payload == ids # << >> \/ ranged
        single == [ask EXCEPT !.mode = "single", !.ids = IF ask.single = None THEN << >> ELSE <<ask.single>>]
        explicit == [ask EXCEPT !.mode = "ids", !.ids = ids]
    IN  CASE ask.single # None -> IF ask.mode = "default" /\ ~payload THEN single ELSE None
          [] ask.single = None /\ ask.mode \in {"default", "current"} -> IF payload THEN None ELSE single
          [] ask.single = None /\ ask.mode = "one" -> IF ranged \/ Len(ids) # 1 THEN None ELSE explicit
          [] ask.single = None /\ ask.mode = "ids" -> IF ranged \/ ids = << >> THEN None ELSE explicit
          [] ask.single = None /\ ask.mode = "range" ->
                IF ids # << >> \/ ask.first = 0 \/ ask.last = 0 \/ ask.first > ask.last THEN None ELSE ask
          [] ask.single = None /\ ask.mode = "all" -> IF payload THEN None ELSE ask

-----------------------------------------------------------------------------
(* Saving the task: committed, rejected, installed without being synced, or *)
(* impossible (PersistenceCommitOutcome).                                   *)

Committed(new) == reg' = new /\ vis' = new /\ avail' = TRUE /\ UNCHANGED <<faults, refused>>
Fault == faults < MaxFaults /\ faults' = faults + 1
Faulty == Fault /\ avail' = FALSE
Rejected(new, shown) == reg' = new /\ vis' = shown /\ Faulty /\ UNCHANGED refused
Installed(new) == reg' = new /\ vis' = new /\ Faulty /\ UNCHANGED refused
Restored == UNCHANGED <<reg, vis>> /\ Faulty /\ refused' = TRUE
\* persist_task_and_publish; `shown' is what clients see after a rejection.
Save(new, shown) == Committed(new) \/ Rejected(new, shown) \/ Installed(new)
Unsaved == Fault /\ UNCHANGED <<reg, vis, avail, refused>>

Prepared(items) == [st |-> "Preparing", items |-> items, primary |-> None]
Item(c, st) == [id |-> c.id, st |-> st, plays |-> None]

\* complete_task: what a terminal task keeps of its results.
Terminal(t, end) ==
    [st |-> IF t.st = "CancelRequested" THEN "Cancelled" ELSE end, primary |-> None,
     items |-> [i \in DOMAIN t.items |->
        [t.items[i] EXCEPT !.st = IF @ \in {"Failed", "Cancelled"} THEN @
                                  ELSE IF t.st = "CancelRequested" THEN "Cancelled" ELSE end, !.plays = None]]]

\* playback_hls_session_ids, of what clients see
SessionIds(t) == {i \in DOMAIN t.items : t.items[i].plays # None} \cup (IF t.primary = None THEN {} ELSE {t.primary[1]})

-----------------------------------------------------------------------------
(* The request.                                                            *)

\* create_bilibili_playback_task, and its v2 form whose candidates were frozen
\* when the client selected them.
Create(ask) ==
    /\ run.pc = "new"
    /\ LET plan == SelectionPlan(ask)
           frozen == IF ask.v2 THEN Selected(origin, ask) ELSE << >>
       IN  IF (~ask.v2 /\ plan = None) \/ (ask.v2 /\ frozen = << >>)
           THEN run' = [run EXCEPT !.pc = "done"] /\ UNCHANGED <<meant, task>>
           ELSE /\ meant' = IF ask.v2 THEN [i \in DOMAIN frozen |-> frozen[i].id.of]
                            ELSE [i \in DOMAIN plan.ids |-> plan.ids[i].of]
                /\ LET new == Prepared([i \in DOMAIN frozen |-> Item(frozen[i], "Preparing")])
                       begun == [run EXCEPT !.v2 = ask.v2, !.mode = IF ask.v2 THEN ask ELSE plan, !.sel = frozen]
                   IN  \/ Committed(new) /\ run' = [begun EXCEPT !.pc = "permit"]
                       \/ Installed(new) /\ run' = [begun EXCEPT !.pc = IF ask.v2 THEN "recover" ELSE "permit"]
                       \/ Restored /\ run' = [run EXCEPT !.pc = "done"]
    /\ UNCHANGED <<origin, changes, cancel, permit, sessions, queue>>

\* cancel_task, which first saves what is pending.
Cancel ==
    /\ vis.st = "Preparing" /\ reg.st \in {"Preparing", "CancelRequested"}
    /\ \/ ~avail /\ Unsaved /\ UNCHANGED cancel
       \/ cancel' = TRUE /\ Save([reg EXCEPT !.st = "CancelRequested"], reg)
    /\ UNCHANGED <<world, permit, run, sessions, queue>>

\* The end of the planner: complete_playback_planning_terminal.
End(st, ids) == run' = [run EXCEPT !.pc = "terminal", !.end = st, !.ids = SessionIds(vis) \cup ids]

-----------------------------------------------------------------------------
(* The planner: run_bilibili_playback_planning and what it runs.           *)

\* A v2 task is planned once its creation is durable.
RecoverCreation ==
    /\ run.pc = "recover"
    /\ IF cancel THEN End("Cancelled", {}) /\ UNCHANGED task
       ELSE \/ Committed(reg) /\ run' = [run EXCEPT !.pc = "permit"]
            \/ Unsaved /\ UNCHANGED run
            \/ Fault /\ refused' = TRUE /\ UNCHANGED <<reg, vis, avail>>
               /\ run' = [run EXCEPT !.pc = "done", !.armed = FALSE]
    /\ UNCHANGED <<world, cancel, permit, sessions, queue>>

AwaitPermit ==
    /\ run.pc = "permit"
    /\ \/ cancel /\ End("Cancelled", {}) /\ UNCHANGED permit
       \/ ~cancel /\ permit = "free" /\ permit' = "mine"
          /\ run' = [run EXCEPT !.pc = CASE run.mode.mode = "single" -> "plan" [] run.v2 -> "begin" [] OTHER -> "resolve"]
    /\ UNCHANGED <<world, task, cancel, sessions, queue>>

\* run_explicit_bilibili_playback_planning
ResolveSelection ==
    /\ run.pc = "resolve"
    /\ LET sel == Selected(origin, run.mode)
       IN  \/ sel # << >> /\ run' = [run EXCEPT !.pc = "begin", !.sel = sel] /\ UNCHANGED faults
           \/ sel = << >> /\ End("Failed", {}) /\ UNCHANGED faults
           \/ Fault /\ End(IF cancel THEN "Cancelled" ELSE "Failed", {})
    /\ UNCHANGED <<world, reg, vis, avail, refused, cancel, permit, sessions, queue>>

\* update_playback_results
UpdateResults(items) ==
    IF reg.st \in {"Failed", "Cancelled"} THEN UNCHANGED task
    ELSE Save([reg EXCEPT !.items = items], vis) \/ Restored

\* The results that are planned, all at first "Preparing".
Begin ==
    /\ run.pc = "begin"
    /\ LET items == [i \in DOMAIN run.sel |-> Item(run.sel[i], "Preparing")]
       IN  UpdateResults(items) /\ run' = [run EXCEPT !.pc = "next", !.items = items]
    /\ UNCHANGED <<world, cancel, permit, sessions, queue>>

\* complete_cancelled_explicit_bilibili_playback
CancelledResults(items) == [i \in DOMAIN items |-> [items[i] EXCEPT !.st = "Cancelled", !.plays = None]]
GiveUp == UpdateResults(CancelledResults(run.items)) /\ End("Cancelled", run.planned)

Single == run.mode.mode = "single"

\* The next candidate, or the end of them.
NextCandidate ==
    /\ run.pc = "next"
    /\ IF cancel THEN GiveUp
       ELSE IF run.i <= Len(run.sel) THEN run' = [run EXCEPT !.pc = "plan"] /\ UNCHANGED task
       ELSE IF run.planned = {} THEN End("Failed", {}) /\ UNCHANGED task
       ELSE run' = [run EXCEPT !.pc = "complete"] /\ UNCHANGED task
    /\ UNCHANGED <<world, cancel, permit, sessions, queue>>

\* What is asked of the planner: the selected id, or None for the default.
Target ==
    IF ~Single THEN run.sel[run.i].id
    ELSE IF run.mode.ids = << >> THEN None ELSE run.mode.ids[1]

\* plan_playback: which page of which video.  An item of a list is looked up
\* in its own video first (resolve_direct_collection_item_page); the default
\* of a list is its latest item.
PageOf(id) ==
    LET pages(v) == IF v \in DOMAIN origin.pages THEN origin.pages[v] ELSE << >>
        at == {n \in DOMAIN pages(id.of[1]) : pages(id.of[1])[n] = id.of[2]}
    IN  IF id.kind = "page" THEN id.index ELSE IF at = {} THEN 0 ELSE Least(at)

Plan ==
    /\ run.pc = "plan"
    /\ LET id == Target
           page == IF id = None THEN 0 ELSE IF Accepts(origin, id) THEN PageOf(id) ELSE 0
       IN  run' = [run EXCEPT !.page = page, !.pc = IF id # None /\ page = 0 THEN "failed" ELSE "fetch"]
    /\ UNCHANGED <<world, task, cancel, permit, sessions, queue>>

\* What the origin serves by then; the entry is the one that was expected
\* (validate_expected_identity).
Served(id, page) ==
    LET video == IF id = None THEN None ELSE IF id.kind = "page" THEN origin.list[1][1] ELSE id.of[1]
    IN  IF id = None THEN (IF origin.kind = "video" THEN origin.list[1] ELSE origin.list[Len(origin.list)])
        ELSE IF video \notin DOMAIN origin.pages \/ page > Len(origin.pages[video]) THEN None
        ELSE <<video, origin.pages[video][page]>>

MatchesExpected_Index(id, page) == Served(id, page) # None

MatchesExpected(id, page) == Served(id, page) # None /\ (id # None => Served(id, page) = id.of)

Fetch ==
    /\ run.pc = "fetch"
    /\ LET got == Served(Target, run.page)
       IN  run' = IF MatchesExpected(Target, run.page) /\ got \notin Unplayable
                  THEN [run EXCEPT !.pc = "publish", !.got = got] ELSE [run EXCEPT !.pc = "failed"]
    /\ UNCHANGED <<world, task, cancel, permit, sessions, queue>>

PlanFails ==
    /\ run.pc = "failed"
    /\ IF Single THEN End(IF cancel THEN "Cancelled" ELSE "Failed", {}) /\ UNCHANGED task
       ELSE IF cancel THEN GiveUp
       ELSE LET items == [run.items EXCEPT ![run.i].st = "Failed"]
            IN  UpdateResults(items) /\ run' = [run EXCEPT !.pc = "next", !.i = @ + 1, !.items = items]
    /\ UNCHANGED <<world, cancel, permit, sessions, queue>>

With(f, i, x) == [j \in DOMAIN f \cup {i} |-> IF j = i THEN x ELSE f[j]]

\* publish_explicit_bilibili_hls_result: unless the task has ended or is being
\* cancelled, the session is registered and the result shown.
PublishResult ==
    /\ run.pc = "publish" /\ ~Single
    /\ LET items == [run.items EXCEPT ![run.i].st = "Playable", ![run.i].plays = run.got]
       IN  /\ run' = [run EXCEPT !.pc = "next", !.i = @ + 1, !.items = items, !.planned = @ \cup {run.i}]
           /\ IF vis.st = "Preparing"
              THEN sessions' = With(sessions, run.i, run.got) /\ UpdateResults(items)
              ELSE UNCHANGED <<sessions, task>>
    /\ UNCHANGED <<world, cancel, permit, queue>>

\* complete_playback_playable, complete_playback_results_playable
Playable(primary, items) ==
    IF reg.st = "CancelRequested" THEN Terminal(reg, "Cancelled")
    ELSE [st |-> "Playable", primary |-> primary, items |-> items]

\* The publication under the lifecycle lock: either the task is playable and
\* its fills are enqueued, the primary one first, or it has been cancelled.
Publication(primary, items, rest, ids) ==
    IF vis.st # "Preparing" \/ reg.st \in {"Failed", "Cancelled"}
    THEN End("Cancelled", ids) /\ UNCHANGED <<task, queue>>
    ELSE LET new == Playable(primary, items)
         IN  \/ /\ Save(new, vis)
                /\ IF new.st = "Playable"
                   THEN /\ queue' = <<<<primary[1], TRUE>>>> \o rest
                        /\ run' = [run EXCEPT !.pc = "done", !.armed = FALSE]
                   ELSE End("Cancelled", ids) /\ UNCHANGED queue
             \/ Restored /\ End(IF cancel THEN "Cancelled" ELSE "Failed", ids) /\ UNCHANGED queue

\* publish_single_bilibili_hls_playback
PublishSingle ==
    /\ run.pc = "publish" /\ Single
    /\ sessions' = IF vis.st = "Preparing" THEN With(sessions, 1, run.got) ELSE sessions
    /\ Publication(<<1, run.got>>, << >>, << >>, {1})
    /\ UNCHANGED <<world, cancel, permit>>

\* The primary is the first that could be planned.
PrimarySession == Least(run.planned)

\* complete_explicit_bilibili_playback
Complete ==
    /\ run.pc = "complete"
    /\ LET first == PrimarySession
           others == SelectSeq([i \in DOMAIN run.sel |-> <<i, FALSE>>], LAMBDA e : e[1] \in run.planned \ {first})
       IN  IF cancel THEN GiveUp /\ UNCHANGED queue
           ELSE Publication(<<first, run.items[first].plays>>, run.items, others, run.planned)
    /\ UNCHANGED <<world, cancel, permit, sessions>>

\* The task ends durably, and only then its sessions are removed; what is
\* pending is saved again and again, unless it cannot be.
Terminate ==
    /\ run.pc = "terminal"
    /\ LET new == IF reg.st \in {"Failed", "Cancelled"} THEN reg ELSE Terminal(reg, run.end)
       IN  \/ /\ Committed(new)
              /\ sessions' = [i \in DOMAIN sessions \ run.ids |-> sessions[i]]
              /\ run' = [run EXCEPT !.pc = "done", !.armed = FALSE]
           \/ Rejected(new, reg) /\ UNCHANGED <<sessions, run>>
           \/ Installed(new) /\ UNCHANGED <<sessions, run>>
           \/ ~avail /\ Unsaved /\ UNCHANGED <<sessions, run>>
           \/ /\ Faulty /\ refused' = TRUE /\ UNCHANGED <<vis, sessions>>
              /\ reg' = IF avail THEN new ELSE reg
              /\ run' = [run EXCEPT !.pc = "dropped"]
    /\ UNCHANGED <<world, cancel, permit, queue>>

\* The planner is dropped, as when it panics: PlaybackPlanningCleanup::drop.
Interrupt ==
    /\ run.pc \in {"resolve", "plan", "fetch"} /\ Fault /\ run' = [run EXCEPT !.pc = "dropped"]
    /\ refused' = (refused \/ ~avail)
    /\ UNCHANGED <<world, reg, vis, avail, cancel, permit, sessions, queue>>
Drop ==
    /\ run.pc = "dropped"
    /\ IF run.armed
       THEN run' = [run EXCEPT !.pc = "terminal", !.end = "Failed", !.ids = SessionIds(vis), !.armed = FALSE]
       ELSE run' = [run EXCEPT !.pc = "done"]
    /\ UNCHANGED <<world, task, cancel, permit, sessions, queue>>

\* A planner that is done returns its permit, another one its own.
Release ==
    /\ permit = "other" \/ (permit = "mine" /\ run.pc \in {"done", "dropped"})
    /\ permit' = "free"
    /\ UNCHANGED <<world, task, cancel, run, sessions, queue>>

Change ==
    /\ changes < MaxChanges /\ changes' = changes + 1
    /\ \E o \in Origins \ {origin} : o.source = origin.source /\ o.kind = origin.kind /\ origin' = o
    /\ UNCHANGED <<meant, task, cancel, permit, run, sessions, queue>>

Next ==
    \/ \E ask \in Asks : Create(ask)
    \/ Cancel \/ RecoverCreation \/ AwaitPermit \/ ResolveSelection \/ Begin \/ NextCandidate
    \/ Plan \/ Fetch \/ PlanFails \/ PublishResult \/ PublishSingle \/ Complete
    \/ Terminate \/ Interrupt \/ Drop \/ Release \/ Change

Spec == Init /\ [][Next]_vars

-----------------------------------------------------------------------------
\* What a task plays is what was selected, whatever became of the origin since:
\* the item that an id names, in the order of the request, and what a session
\* is registered with; the primary is the first item that plays.
PlayedIsSelected ==
    /\ \A i \in DOMAIN reg.items : reg.items[i].plays # None =>
          reg.items[i].plays = reg.items[i].id.of /\ (meant # << >> => reg.items[i].plays = meant[i])
    /\ reg.primary # None =>
          /\ meant # << >> => reg.primary[2] = meant[reg.primary[1]]
          /\ sessions[reg.primary[1]] = reg.primary[2]
          /\ \A i \in DOMAIN reg.items : reg.items[i].plays # None => reg.primary[1] <= i
    /\ \A i \in SessionIds(vis) : i \in DOMAIN sessions
    /\ \A i \in DOMAIN vis.items : vis.items[i].plays \in {None} \cup {sessions[j] : j \in DOMAIN sessions \cap {i}}

\* A task that was asked to cancel never becomes playable, and a task that is
\* playable has a fill for each of its sessions, the primary one first.
CancellationWins ==
    /\ cancel => reg.st # "Playable" /\ queue = << >>
    /\ reg.st = "Playable" =>
          /\ queue[1] = <<reg.primary[1], TRUE>>
          /\ Len(queue) = Cardinality(Values(queue)) /\ {e[1] : e \in Values(queue)} = DOMAIN sessions
          /\ \A i \in DOMAIN reg.items :
                /\ reg.items[i].st \in {"Playable", "Failed"}
                /\ reg.items[i].plays # None <=> i \in DOMAIN sessions

\* Unless a save is impossible, or the planner is dropped while one is pending, a
\* planner that is done leaves a task that has ended or plays, and a task that
\* ended has no session left.
PlanningEnds ==
    run.pc = "done" /\ ~refused =>
        /\ reg.st \in {"none", "Playable", "Failed", "Cancelled"}
        /\ reg.st # "Playable" => DOMAIN sessions = {} /\ vis = reg

PlanningIsHonest == PlayedIsSelected /\ CancellationWins /\ PlanningEnds
=============================================================================
