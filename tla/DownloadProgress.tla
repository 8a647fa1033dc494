-------------------------- MODULE DownloadProgress --------------------------
(***************************************************************************)
(* What a client sees of a download while it runs: the ranking of the      *)
(* planned URLs, the events of the core library, the accumulator that      *)
(* turns them into a fraction and bytes, the window of a candidate of a v2 *)
(* download, and cancellation with its grace period (bbdown_adapter.rs).   *)
(*                                                                         *)
(* Fractions are integers: Scale stands for 1.0 and is a multiple of every *)
(* divisor that the instance meets.  `core' is the external core library:  *)
(* what it has really done to the files of the plan, a path being an entry *)
(* and a number.  Its events are delivered one at a time.                  *)
(***************************************************************************)
EXTENDS Integers, Sequences, FiniteSets, FiniteSetsExt, SequencesExt, TLC

CONSTANTS
    Candidates,   \* number of candidates of a v2 download
    Entries,      \* number of entries of a plan
    Paths,        \* the files of a plan: pairs of an entry and a number
    Sizes,        \* sizes that a file may have
    Plans,        \* planned streams: sequences of [id, urls]
    Rankings,     \* sequences of URLs, the best first, that the history may give
    Scale, Start, Finish, Cap,   \* 1.0, DOWNLOAD_PROGRESS_START and _END, the cap (a divisor)
    MinBytes, MinFraction,       \* thresholds of publication
    MaxFailures,  \* bound: failed files
    None

VARIABLES
    v2,       \* a v2 download, or a legacy one
    plan,     \* the streams of the plan: [before, after]
    run,      \* the loop: [pc, offset, completed, floor]
    acc,      \* the accumulator of the sink
    core,     \* the core library: [pc, entry, file]
    event,    \* the event of its last step, None of a step of somebody else
    cancel,   \* [asked, token, late]: by the client, of the core, past the grace period
    shown,    \* the task: [progress, bytes, total]
    outcome,  \* what became of each candidate
    got,      \* bytes that the earlier candidates received
    failures

vars == <<v2, plan, run, acc, core, event, cancel, shown, outcome, got, failures>>

Greater(a, b) == IF a >= b THEN a ELSE b
Lesser(a, b) == IF a <= b THEN a ELSE b
Total == IF v2 THEN Candidates ELSE 1

NoAcc == [count |-> None, done |-> 0, indices |-> {}, files |-> << >>, active |-> << >>,
          busy |-> FALSE, last |-> 0, pubBytes |-> 0, pubLast |-> 0]
NewFile == [pc |-> "new", size |-> 0, resumed |-> 0, written |-> 0, known |-> TRUE, peak |-> 0]
NoCore == [pc |-> "off", entry |-> 0, file |-> [p \in Paths |-> NewFile]]

Init ==
    /\ v2 \in BOOLEAN
    /\ plan \in {[before |-> p, after |-> p] : p \in Plans}
    /\ run = [pc |-> "next", offset |-> 0, completed |-> 0, floor |-> 0]
    /\ acc = NoAcc /\ core = NoCore /\ event = None
    /\ cancel = [asked |-> FALSE, token |-> FALSE, late |-> FALSE]
    /\ shown = [progress |-> 0, bytes |-> 0, total |-> 0]
    /\ outcome = [c \in 0..(Total - 1) |-> "none"]
    /\ got = 0 /\ failures = 0

-----------------------------------------------------------------------------
(* The accumulator.                                                        *)

DownloadedBytes(f) == f.resumed + f.written
TotalBytes(f) == Greater(f.expected, DownloadedBytes(f))

\* known_bytes_snapshot_for: the total is known when it is known of every file.
KnownBytes(files) ==
    LET Downloaded(p) == DownloadedBytes(files[p])
        Whole(p) == TotalBytes(files[p])
        bytes == MapThenSumSet(Downloaded, DOMAIN files)
    IN [bytes |-> bytes,
        total |-> IF DOMAIN files # {} /\ \A p \in DOMAIN files : files[p].expected # None
                  THEN Greater(MapThenSumSet(Whole, DOMAIN files), bytes) ELSE None]

\* completed_entries_bytes_snapshot
CompletedEntriesBytes(a) ==
    KnownBytes([p \in DOMAIN a.files \ DOMAIN a.active |-> a.files[p]])

\* reported_bytes_snapshot
ReportedBytes(a) ==
    LET known == IF a.busy THEN CompletedEntriesBytes(a) ELSE KnownBytes(a.files)
    IN IF known.total = None THEN [bytes |-> 0, total |-> 0] ELSE known

ActiveShare_Uncapped(a, span) ==
    LET known == KnownBytes(a.active)
    IN IF known.total \in {None, 0} THEN 0 ELSE (span * known.bytes) \div known.total

\* known_bytes_ratio, capped, of one entry of the plan, in units of the scale
ActiveShare(a, span) ==
    LET known == KnownBytes(a.active)
    IN IF known.total \in {None, 0} THEN 0
       ELSE Lesser((span * known.bytes) \div known.total, span \div Cap)

\* download_progress_from_current_state
DownloadProgress(a) ==
    LET count == IF a.count = None THEN 1 ELSE Greater(a.count, 1)
        done == Lesser(a.done, count)
        span == (Finish - Start) \div count
    IN Start + span * done + (IF done < count THEN ActiveShare(a, span) ELSE 0)

\* mark_published
MarkPublished(a) == [a EXCEPT !.pubBytes = KnownBytes(a.files).bytes, !.pubLast = a.last]

\* published_bytes_progress, published_rollback_bytes_progress, bytes_progress
BytesProgress(a) ==
    LET reported == ReportedBytes(a)
    IN [acc |-> MarkPublished(a),
        report |-> [progress |-> a.last, bytes |-> reported.bytes, total |-> reported.total]]

\* message_progress
MessageProgress(a) ==
    [acc |-> [a EXCEPT !.pubLast = a.last],
     report |-> [progress |-> a.last, bytes |-> None, total |-> None]]

\* should_publish_file_progress
ShouldPublish(a) ==
    LET bytes == KnownBytes(a.files).bytes
    IN bytes = 0 \/ bytes - a.pubBytes >= MinBytes \/ a.last - a.pubLast >= MinFraction

WithFile(a, path, file) ==
    [a EXCEPT !.busy = TRUE, !.files = (path :> file) @@ @, !.active = (path :> file) @@ @]

\* rollback_file_progress
Unwritten(files, path) ==
    [p \in DOMAIN files |-> IF p = path THEN [files[p] EXCEPT !.written = 0] ELSE files[p]]

\* record: the accumulator with the files and entries of the event,
Entered(a, e) ==
    CASE e.kind = "PlanStarted" ->
            [NoAcc EXCEPT !.count = Greater(Entries, 1), !.last = a.last,
                          !.pubBytes = a.pubBytes, !.pubLast = a.pubLast]
      [] e.kind = "EntryStarted" -> [a EXCEPT !.active = << >>, !.busy = TRUE]
      [] e.kind \in {"FileStarted", "FileProgress", "FileCompleted"} -> WithFile(a, e.path, e.file)
      [] e.kind = "FileFailed" ->
            [a EXCEPT !.busy = TRUE, !.files = Unwritten(@, e.path), !.active = Unwritten(@, e.path)]
      [] e.kind = "EntryCompleted" ->
            [a EXCEPT !.indices = @ \cup {e.entry}, !.active = << >>, !.busy = FALSE,
                      !.done = IF e.entry \in a.indices THEN @
                               ELSE IF a.count = None THEN @ + 1 ELSE Lesser(@ + 1, a.count)]
      [] e.kind = "PlanCompleted" -> [a EXCEPT !.done = Entries, !.busy = FALSE]
      [] OTHER -> [a EXCEPT !.busy = FALSE]   \* PlanCancelled, PlanFailed

\* its fraction, which a message may set, an event raises and a failed file lowers,
Moved(a, e) ==
    LET fraction == Lesser(DownloadProgress(a), Finish)
    IN [a EXCEPT !.last = CASE e.kind = "PlanStarted" -> Greater(@, Start)
                            [] e.kind = "PlanCompleted" -> Greater(@, Finish)
                            [] e.kind = "FileFailed" -> fraction
                            [] OTHER -> Greater(@, fraction)]

\* and what it reports: nothing, a message, or bytes.
Record(a, e) ==
    LET b == Moved(Entered(a, e), e)
    IN CASE e.kind \in {"PlanStarted", "EntryStarted", "PlanCompleted", "PlanCancelled", "PlanFailed"} ->
              MessageProgress(b)
         [] e.kind = "FileProgress" /\ ~ShouldPublish(b) -> [acc |-> b, report |-> None]
         [] OTHER -> BytesProgress(b)

-----------------------------------------------------------------------------
(* The sink and the task.                                                  *)

\* v2_candidate_progress
Placed(progress) == IF v2 THEN (run.offset * Scale + progress) \div Total ELSE progress

\* BilibiliV2ProgressWindow::map
Windowed(bytes) == IF v2 /\ bytes # None THEN run.completed + bytes ELSE bytes
WindowedTotal(total) ==
    IF v2 /\ total # None THEN Greater(run.floor, run.completed + total) ELSE total

\* update_task_progress: what a report leaves out stays as it is.
Report(progress, bytes, total) ==
    shown' = [progress |-> progress,
              bytes |-> IF bytes = None THEN shown.bytes ELSE bytes,
              total |-> IF total = None THEN shown.total ELSE total]

\* on_download_progress
Deliver ==
    \E recorded \in {Record(acc, event')} :
        /\ acc' = recorded.acc
        /\ IF recorded.report = None THEN UNCHANGED shown
           ELSE \E r \in {recorded.report} :
                    Report(Placed(r.progress), Windowed(r.bytes), WindowedTotal(r.total))

\* v2_progress_snapshot
Snapshot ==
    LET known == KnownBytes(acc.files)
    IN [bytes |-> run.completed + known.bytes,
        total |-> Greater(run.floor, run.completed
                              + (IF known.total = None THEN known.bytes ELSE known.total))]

-----------------------------------------------------------------------------
(* The core library, which reports what it does.                           *)
Held(f) == f.resumed + f.written
Core(changed, e) == core' = changed /\ event' = e /\ UNCHANGED <<v2, plan, run, cancel, outcome, got>>
InPlan == run.pc = "download" /\ ~cancel.late
EventFile(f) == [resumed |-> f.resumed, written |-> f.written,
                 expected |-> IF f.known THEN f.size ELSE None]
At(path, f) == [core EXCEPT !.file[path] = [f EXCEPT !.peak = Greater(@, Held(f))]]
OfEntry == {p \in Paths : p[1] = core.entry}

StartPlan ==
    /\ InPlan /\ core.pc = "off"
    /\ Core([core EXCEPT !.pc = "plan"], [kind |-> "PlanStarted"]) /\ UNCHANGED failures

\* An entry may be complete already: the archive has it.
StartEntry ==
    /\ InPlan /\ core.pc = "plan" /\ core.entry < Entries
    /\ \/ Core([core EXCEPT !.pc = "entry", !.entry = @ + 1], [kind |-> "EntryStarted"])
       \/ Core([core EXCEPT !.entry = @ + 1], [kind |-> "EntryCompleted", entry |-> core.entry + 1])
    /\ UNCHANGED failures

\* A file is started, or started again from what is left of it.
StartFile(path) ==
    LET f == core.file[path]
    IN /\ InPlan /\ core.pc = "entry" /\ path \in OfEntry /\ f.pc \in {"new", "failed"}
       /\ \E size \in (IF f.pc = "new" THEN Sizes ELSE {f.size}), known \in BOOLEAN :
          \E resumed \in 0..(IF f.pc = "new" THEN 1 ELSE f.peak) :
            LET g == [f EXCEPT !.pc = "going", !.size = size, !.known = known,
                               !.resumed = resumed, !.written = 0]
            IN resumed < size
               /\ Core(At(path, g), [kind |-> "FileStarted", path |-> path, file |-> EventFile(g)])
       /\ UNCHANGED failures

Receive(path) ==
    LET f == core.file[path]
        g == [f EXCEPT !.written = @ + 1]
        whole == [g EXCEPT !.pc = "done", !.known = TRUE]
    IN /\ InPlan /\ core.pc = "entry" /\ f.pc = "going"
       /\ IF Held(g) < f.size
          THEN Core(At(path, g), [kind |-> "FileProgress", path |-> path, file |-> EventFile(g)])
          ELSE Core(At(path, whole), [kind |-> "FileCompleted", path |-> path, file |-> EventFile(whole)])
       /\ UNCHANGED failures

FailFile(path) ==
    /\ InPlan /\ core.pc = "entry" /\ core.file[path].pc = "going"
    /\ failures < MaxFailures /\ failures' = failures + 1
    /\ Core([core EXCEPT !.file[path].pc = "failed"], [kind |-> "FileFailed", path |-> path])

EndEntry ==
    /\ InPlan /\ core.pc = "entry" /\ \A p \in OfEntry : core.file[p].pc = "done"
    /\ Core([core EXCEPT !.pc = "plan"], [kind |-> "EntryCompleted", entry |-> core.entry])
    /\ UNCHANGED failures

\* The core is done with the plan; when its token is cancelled it may say so.
EndPlan ==
    /\ InPlan /\ UNCHANGED failures
    /\ \/ /\ core.pc = "plan" /\ core.entry = Entries
          /\ Core([core EXCEPT !.pc = "ok"], [kind |-> "PlanCompleted"])
       \/ /\ core.pc = "entry" /\ \E p \in OfEntry : core.file[p].pc = "failed"
          /\ Core([core EXCEPT !.pc = "failed"], [kind |-> "PlanFailed"])
       \/ /\ core.pc \in {"plan", "entry"} /\ cancel.token
          /\ Core([core EXCEPT !.pc = "cancelled"], [kind |-> "PlanCancelled"])

-----------------------------------------------------------------------------
(* The ranking of the plan.                                                *)

\* reorder_candidate_urls
Reordered(urls, ranking) ==
    LET Kept(u) == u \in ToSet(urls)
        first == SelectSeq(ranking, Kept)
        Left(u) == u \notin ToSet(first)
    IN first \o SelectSeq(urls, Left)

\* rank_download_plan_candidates: a request of a variant ranks the one stream
\* that still is what it was planned from.
Ranked(streams, ranking) ==
    LET Step(now, planned) ==
            LET matches == {i \in DOMAIN now : now[i] = planned}
            IN IF Cardinality(matches) = 1
               THEN [now EXCEPT ![CHOOSE i \in matches : TRUE].urls = Reordered(planned.urls, ranking)]
               ELSE now
    IN FoldLeft(Step, streams, streams)

-----------------------------------------------------------------------------
(* The loop over the candidates, and the legacy download of one plan.      *)

Ask ==
    /\ ~cancel.asked /\ run.pc # "over" /\ cancel' = [cancel EXCEPT !.asked = TRUE]
    /\ UNCHANGED <<v2, plan, run, acc, core, shown, outcome, got, failures>>

Ended(how) == outcome' = [outcome EXCEPT ![run.offset] = how]
\* A legacy download is over with its plan, a v2 one goes on with the next candidate.
Following(r) ==
    IF v2 /\ r.offset + 1 < Total THEN [r EXCEPT !.pc = "next", !.offset = @ + 1]
    ELSE [r EXCEPT !.pc = "over"]
Leave(r, how) == run' = Following(r) /\ Ended(how)

\* The report that planning has begun, or the end of it all.
Begin ==
    /\ run.pc = "next"
    /\ IF cancel.asked THEN Leave(run, "cancelled") /\ UNCHANGED shown
       ELSE /\ run' = [run EXCEPT !.pc = "plan"] /\ UNCHANGED outcome
            /\ Report(Placed((Scale * 2) \div 100), None, None)
    /\ UNCHANGED <<v2, plan, acc, core, cancel, got, failures>>

\* Planning fails, is cancelled, or gives a plan, which is ranked and whose
\* download starts with a new sink and a new token.
PlanCandidate ==
    /\ run.pc = "plan"
    /\ \/ Leave(run, "failed") /\ UNCHANGED <<plan, shown, acc, core, cancel>>
       \/ cancel.asked /\ Leave(run, "cancelled") /\ UNCHANGED <<plan, shown, acc, core, cancel>>
       \/ /\ \E ranking \in Rankings :
                plan' = [plan EXCEPT !.after = Ranked(plan.before, ranking)]
          /\ IF ~v2 /\ cancel.asked
             THEN Leave(run, "cancelled") /\ UNCHANGED <<shown, acc, core, cancel>>
             ELSE /\ run' = [run EXCEPT !.pc = "download"] /\ UNCHANGED outcome
                  /\ acc' = NoAcc /\ core' = NoCore
                  /\ cancel' = [cancel EXCEPT !.token = FALSE, !.late = FALSE]
                  /\ IF v2 THEN UNCHANGED shown ELSE Report(Start, None, None)
    /\ UNCHANGED <<v2, got, failures>>

\* run_bbdown_download_until_cancelled_with_grace: the poll that tells the core
\* to stop, and the end of its patience.
Poll ==
    /\ run.pc = "download" /\ cancel.asked /\ ~cancel.token
    /\ cancel' = [cancel EXCEPT !.token = TRUE]
    /\ UNCHANGED <<v2, plan, run, acc, core, shown, outcome, got, failures>>

GraceEnds ==
    /\ run.pc = "download" /\ cancel.token /\ ~cancel.late
    /\ cancel' = [cancel EXCEPT !.late = TRUE]
    /\ UNCHANGED <<v2, plan, run, acc, core, shown, outcome, got, failures>>

\* What the download came to: a cancellation explains an error.
Verdict ==
    CASE cancel.late -> "cancelled"
      [] core.pc = "ok" -> "ok"
      [] core.pc = "cancelled" \/ cancel.token \/ cancel.asked -> "cancelled"
      [] OTHER -> "failed"

Peak(p) == core.file[p].peak
Size(p) == IF core.file[p].pc = "done" THEN core.file[p].size ELSE 0
Summary == MapThenSumSet(Size, Paths)   \* report.summary().total_bytes

\* The snapshots that the loop keeps of a candidate that failed.
After == [run EXCEPT !.completed = Snapshot.bytes, !.floor = Snapshot.total]

\* The same when it succeeded.
AfterReport ==
    LET bytes == Greater(Snapshot.bytes, Summary)
    IN [run EXCEPT !.completed = bytes, !.floor = Greater(Snapshot.total, bytes)]

\* report_v2_candidate_finished
Finished(r) == Report(Placed(Scale), r.completed, Greater(r.floor, r.completed))

Return ==
    /\ run.pc = "download" /\ (cancel.late \/ core.pc \in {"ok", "failed", "cancelled"})
    /\ got' = got + MapThenSumSet(Peak, Paths)
    /\ CASE Verdict = "ok" ->
              /\ UNCHANGED outcome
              /\ run' = [(IF v2 THEN AfterReport ELSE run) EXCEPT !.pc = "mux"]
              /\ IF v2 THEN Report(Placed((Scale * 85) \div 100), AfterReport.completed, AfterReport.floor)
                 ELSE IF cancel.asked THEN UNCHANGED shown
                 ELSE Report((Scale * 80) \div 100, Summary, Summary)
         [] Verdict = "failed" -> Leave(After, "failed") /\ IF v2 THEN Finished(After) ELSE UNCHANGED shown
         [] OTHER -> Leave(After, "cancelled") /\ UNCHANGED shown
    /\ UNCHANGED <<v2, plan, acc, core, cancel, failures>>

\* Muxing and what follows it: OutputMux models the files.
Mux ==
    /\ run.pc = "mux"
    /\ \/ ~cancel.asked /\ Leave(run, "failed") /\ IF v2 THEN Finished(run) ELSE UNCHANGED shown
       \/ cancel.asked /\ Leave(run, "cancelled") /\ UNCHANGED shown
       \/ /\ v2 \/ ~cancel.asked
          /\ Leave(run, "ok")
          /\ IF v2 THEN Finished(run) ELSE Report((Scale * 95) \div 100, Summary, Summary)
    /\ UNCHANGED <<v2, plan, acc, core, cancel, got, failures>>

Next ==
    \/ /\ \/ StartPlan \/ StartEntry \/ EndEntry \/ EndPlan
          \/ \E p \in Paths : StartFile(p) \/ Receive(p) \/ FailFile(p)
       /\ Deliver
    \/ /\ Ask \/ Begin \/ PlanCandidate \/ Poll \/ GraceEnds \/ Return \/ Mux
       /\ event' = None

Spec == Init /\ [][Next]_vars

-----------------------------------------------------------------------------
(* Properties.                                                             *)

\* The bytes shown were received, and never are more than the total shown.
ShownWasReceived ==
    /\ shown.bytes <= shown.total
    /\ shown.bytes <= got + (IF run.pc = "download" THEN MapThenSumSet(Peak, Paths) ELSE 0)

\* A candidate whose entries are not all complete is not shown as downloaded,
\* and the entry under way counts for at most its capped share.
NotDoneEarly ==
    run.pc = "download" /\ core.pc \in {"plan", "entry"} =>
        LET complete == IF core.pc = "entry" THEN core.entry - 1 ELSE core.entry
            span == (Finish - Start) \div Entries
        IN shown.progress <= Placed(Start + span * complete
                                          + (IF core.pc = "entry" THEN span \div Cap ELSE 0))

\* What the throttle keeps back stays below its thresholds.
LagIsBounded ==
    /\ KnownBytes(acc.files).bytes - acc.pubBytes < MinBytes
    /\ acc.last - acc.pubLast < MinFraction

\* Only a client cancels, and no candidate starts after a cancelled one.
CancelStopsTheRest ==
    \A c \in DOMAIN outcome :
        outcome[c] = "cancelled" => cancel.asked /\ \A d \in DOMAIN outcome :
            d > c => outcome[d] \in {"none", "cancelled"}

\* Ranking never loses or invents a URL of a stream, nor moves one to another.
RankingKeepsUrls ==
    \A i \in DOMAIN plan.before :
        /\ plan.after[i].id = plan.before[i].id
        /\ ToSet(plan.after[i].urls) = ToSet(plan.before[i].urls)
        /\ Len(plan.after[i].urls) = Len(plan.before[i].urls)

\* What a client is told of a download is true while it runs.
ProgressIsTrue ==
    ShownWasReceived /\ NotDoneEarly /\ LagIsBounded /\ CancelStopsTheRest /\ RankingKeepsUrls

\* What is shown goes back only when a file has to be received again: the
\* fraction then, the bytes and their total never, over all the candidates.
ShownOnlyGrows ==
    /\ shown'.bytes >= shown.bytes /\ shown'.total >= shown.total
    /\ shown'.progress >= shown.progress \/ failures' > failures

\* A download that the client cancelled before the core gave up is cancelled:
\* the error that the cancellation caused is not taken for a failure.
CancelIsNotFailure ==
    run.pc = "download" /\ run'.pc # "download" /\ cancel.asked =>
        run'.pc = "mux" \/ outcome'[run.offset] = "cancelled"

\* Both hold of every step that a client can see.
ReportsAreOrderly == ShownOnlyGrows /\ CancelIsNotFailure
=============================================================================
