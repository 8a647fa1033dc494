----------------------------- MODULE HlsPrewarm -----------------------------
(***************************************************************************)
(* The prefetching of an HLS session (hls_cache.rs, prewarm_resource) and  *)
(* the playback reports that steer it (hls_playback_progress.rs): a report *)
(* of a client is recorded and promotes the fill of its session; the fill  *)
(* reads the report when it starts, and stores for the video, then for the *)
(* audio, a prefix of the file that covers the position that is played.    *)
(*                                                                         *)
(* A content is [id, total, init]; an answer of a URL is [content, head,   *)
(* most, whole]: head says whether it is a partial response that starts at *)
(* the first byte and keeps to the range that was asked for, most is the   *)
(* longest prefix it sends, and whole says whether all of it arrives.      *)
(***************************************************************************)
EXTENDS Naturals, Sequences

CONSTANTS
    Worlds,         \* the resources of a session, in order: [urls, size, rate],
                    \* what each URL answers, the declared size (or None), the bitrate
    Reports,        \* what clients report: [intent, pos, dur, variant]
    HeadBytes,      \* HLS_PREWARM_HEAD_BYTES
    First,          \* HLS_FIRST_WINDOW_PREFETCH_SECONDS
    MaxFirst,       \* HLS_FIRST_WINDOW_PREFETCH_MAX_BYTES
    MaxFar,         \* HLS_PLAYBACK_POSITION_PREFETCH_MAX_BYTES
    ActiveTtl, StoppedTtl,
    MaxTime, MaxReports, MaxFaults, \* bounds: the clock, reports, failures and crashes
    None

VARIABLES
    resources, \* the resources of the session
    session,   \* "live", "ending" (no longer authorized for serving) or "gone"
    now,
    report,    \* the tracker's report of the session: None or [report, at, n]
    reporter,  \* the report in progress: [pc, report, at, done]
    serial,    \* reports recorded so far, and the last seek among them
    job,       \* the scheduler: [queued, running, preempted]
    fill,      \* the prewarm: [pc, ctx, seen, res, url, new]
    disk,      \* resource |-> [file, meta, temp]
    cached,    \* the resources that are cached completely
    faults

vars == <<resources, session, now, report, reporter, serial, job, fill, disk, cached, faults>>

Minimum(a, b) == IF a <= b THEN a ELSE b
Maximum(a, b) == IF a <= b THEN b ELSE a

NoFill == [pc |-> "none", ctx |-> None, seen |-> 0, res |-> 0, url |-> 0, new |-> None]
NoReporter == [pc |-> "idle", report |-> None, at |-> 0, done |-> FALSE]
Empty == [file |-> None, meta |-> None, temp |-> None]

\* registered_hls_session_is_authorized_for_serving
Live == session = "live"

Init ==
    /\ resources \in Worlds /\ session = "live" /\ now = 0 /\ report = None /\ reporter = NoReporter
    /\ serial = [all |-> 0, seek |-> 0]
    /\ job = [queued |-> TRUE, running |-> FALSE, preempted |-> FALSE]
    /\ fill = NoFill /\ disk = [i \in DOMAIN resources |-> Empty]
    /\ cached \in {{}, {1}} /\ faults = 0

-----------------------------------------------------------------------------
(* record_hls_playback_progress.                                           *)

Ttl(r) == IF r.intent = "stopped" THEN StoppedTtl ELSE ActiveTtl

\* prune_expired
Pruned(r, t) == IF r # None THEN IF r.at + Ttl(r.report) > t THEN r ELSE None ELSE None

\* snapshot_for_session_at
Snapshot == Pruned(report, now)

Promotes(r) == r.intent \in {"playing", "seek"}

\* report_playback_progress: a report of a session that is not known is refused.
Report ==
    /\ reporter.pc = "idle" /\ serial.all < MaxReports /\ Live
    /\ \E r \in Reports : reporter' = [pc |-> "record", report |-> r, at |-> now, done |-> FALSE]
    /\ UNCHANGED <<resources, session, now, report, serial, job, fill, disk, cached, faults>>

Promotable_QueuedOnly(restart) ==
    IF job.running THEN job.preempted ELSE job.queued

\* promote_session_to_foreground
Promotable(restart) ==
    IF job.running THEN restart \/ job.preempted ELSE job.queued
Promoted(restart) ==
    IF job.running /\ Promotable(restart) THEN [job EXCEPT !.preempted = TRUE, !.queued = TRUE] ELSE job

Record ==
    /\ reporter.pc = "record"
    /\ LET r == reporter.report
           n == serial.all + 1
       IN  /\ report' = [report |-> r, at |-> reporter.at, n |-> n]
           /\ serial' = [all |-> n, seek |-> IF r.intent = "seek" THEN n ELSE serial.seek]
           /\ reporter' = [reporter EXCEPT !.pc = IF Promotes(r) THEN "promote" ELSE "check"]
    /\ UNCHANGED <<resources, session, now, job, fill, disk, cached, faults>>

Promote ==
    /\ reporter.pc \in {"promote", "again"}
    /\ LET restart == reporter.report.intent = "seek"
       IN  /\ job' = Promoted(restart)
           /\ reporter' = IF reporter.pc = "again" THEN NoReporter
                          ELSE [reporter EXCEPT !.pc = "check", !.done = Promotable(restart)]
    /\ UNCHANGED <<resources, session, now, report, serial, fill, disk, cached, faults>>

\* Under the quota lock the session is looked up again.
Recheck ==
    /\ reporter.pc = "check"
    /\ report' = IF Live THEN report ELSE None
    /\ reporter' = IF Live /\ Promotes(reporter.report) /\ ~reporter.done
                   THEN [reporter EXCEPT !.pc = "again"] ELSE NoReporter
    /\ UNCHANGED <<resources, session, now, serial, job, fill, disk, cached, faults>>

\* remove_hls_playback_session, and the tasks that refer to the session are gone.
Remove ==
    /\ session # "gone" /\ ~job.running
    /\ session' = "gone" /\ report' = None /\ job' = [job EXCEPT !.queued = FALSE]
    /\ disk' = [i \in DOMAIN resources |-> Empty] /\ cached' = {}
    /\ UNCHANGED <<resources, now, reporter, serial, fill, faults>>

\* The task of the session is cancelled while its fill runs.
Cancel ==
    /\ Live /\ job.running /\ session' = "ending"
    /\ UNCHANGED <<resources, now, report, reporter, serial, job, fill, disk, cached, faults>>

Tick ==
    /\ now < MaxTime /\ now' = now + 1
    /\ UNCHANGED <<resources, session, report, reporter, serial, job, fill, disk, cached, faults>>

-----------------------------------------------------------------------------
(* prewarm_session_first_frame_with_playback_progress.                     *)

\* hls_playback_prefetch_context
Context(r) ==
    IF r # None THEN IF r.report.intent # "stopped" /\ r.report.variant THEN r.report ELSE None ELSE None

\* hls_prefetch_window_seconds
Window(ctx) ==
    IF ctx = None THEN First
    ELSE IF ctx.intent # "seek" /\ ctx.pos < First THEN First
    ELSE Maximum(First, IF ctx.dur = None THEN ctx.pos + First ELSE Minimum(ctx.pos + First, ctx.dur))

\* hls_prefetch_prefix_target
Target(i, ctx) ==
    LET most == IF Window(ctx) > First THEN MaxFar ELSE MaxFirst
        bytes == Minimum(Maximum(HeadBytes + resources[i].rate * Window(ctx), HeadBytes), most)
    IN  IF resources[i].size \in {None, 0} THEN bytes ELSE Minimum(bytes, resources[i].size)

\* prewarmed_resource
Prewarmed(i) ==
    /\ disk[i].meta # None /\ disk[i].file # None
    /\ disk[i].meta # None /\ disk[i].file # None =>
          /\ disk[i].file.len = disk[i].meta.len
          /\ 0 < disk[i].meta.init /\ disk[i].meta.init < disk[i].meta.total
          /\ disk[i].meta.init <= disk[i].meta.len /\ disk[i].meta.len <= disk[i].meta.total

Continues == Live /\ ~job.preempted

\* next_job: the fill reads the report that is in force.
Start ==
    /\ job.queued /\ ~job.running /\ Live
    /\ job' = [queued |-> FALSE, running |-> TRUE, preempted |-> FALSE]
    /\ fill' = [NoFill EXCEPT !.pc = "begin"]
    /\ UNCHANGED <<resources, session, now, report, reporter, serial, disk, cached, faults>>

Begin ==
    /\ fill.pc = "begin" /\ Continues
    /\ report' = Snapshot
    /\ fill' = [NoFill EXCEPT !.pc = "resource", !.res = 1, !.ctx = Context(Snapshot), !.seen = serial.all]
    /\ UNCHANGED <<resources, session, now, reporter, serial, job, disk, cached, faults>>

\* finish_current: a fill that is preempted is queued again, one that is
\* cancelled is not.
Stop ==
    /\ fill.pc \in {"begin", "resource", "request", "full"} /\ ~Continues
    /\ fill' = NoFill
    /\ job' = [queued |-> Live, running |-> FALSE, preempted |-> FALSE]
    /\ UNCHANGED <<resources, session, now, report, reporter, serial, disk, cached, faults>>

NextResource == [fill EXCEPT !.pc = IF fill.res = Len(resources) THEN "full" ELSE "resource", !.res = @ + 1]

\* What is cached, or prewarmed far enough, is left alone.
Enough(i) ==
    \/ i \in cached
    \/ Prewarmed(i) /\ (Prewarmed(i) => disk[i].meta.len >= Minimum(Target(i, fill.ctx), disk[i].meta.total))
Resource ==
    /\ fill.pc = "resource" /\ Continues
    /\ fill' = IF Enough(fill.res) THEN NextResource ELSE [fill EXCEPT !.pc = "request", !.url = 1]
    /\ UNCHANGED <<resources, session, now, report, reporter, serial, job, disk, cached, faults>>

\* A prewarm that fails ends with its error: the audio is not tried after the
\* video, and the fill goes on.
Failed == [fill EXCEPT !.pc = "full", !.res = 0]
NextUrl == IF fill.url = Len(resources[fill.res].urls) THEN Failed ELSE [fill EXCEPT !.pc = "request", !.url = @ + 1]

\* prepare_temp_path, then download_resource_prefix: the head of a response is
\* checked before anything is written.
Request ==
    /\ fill.pc = "request" /\ Continues
    /\ LET i == fill.res
           a == resources[i].urls[fill.url]
           len == Minimum(Minimum(a.most, Target(i, fill.ctx)), a.content.total)
           new == [content |-> a.content, len |-> len]
       IN  IF a.head /\ resources[i].size \in {None, a.content.total}
           THEN /\ fill' = [fill EXCEPT !.pc = "body", !.new = new]
                /\ disk' = [disk EXCEPT ![i].temp = new]
           ELSE fill' = NextUrl /\ disk' = [disk EXCEPT ![i].temp = None]
    /\ UNCHANGED <<resources, session, now, report, reporter, serial, job, cached, faults>>

\* The body is read, and checked; a prefix without its initialization is of no
\* use.  A fill that is stopped removes what it has read.
Usable(i, a) ==
    /\ a.whole
    /\ 0 < a.content.init /\ a.content.init < a.content.total /\ a.content.init <= fill.new.len
Body ==
    /\ fill.pc = "body"
    /\ LET i == fill.res
       IN  IF Continues /\ Usable(i, resources[i].urls[fill.url])
           THEN fill' = [fill EXCEPT !.pc = "rename"] /\ UNCHANGED disk
           ELSE /\ fill' = IF Continues THEN NextUrl ELSE [fill EXCEPT !.pc = "request"]
                /\ disk' = [disk EXCEPT ![i].temp = None]
    /\ UNCHANGED <<resources, session, now, report, reporter, serial, job, cached, faults>>

Rename ==
    /\ fill.pc = "rename"
    /\ disk' = [disk EXCEPT ![fill.res].file = fill.new, ![fill.res].temp = None]
    /\ fill' = [fill EXCEPT !.pc = "meta"]
    /\ UNCHANGED <<resources, session, now, report, reporter, serial, job, cached, faults>>

WriteMetadata ==
    /\ fill.pc = "meta"
    /\ LET meta == [id |-> fill.new.content.id, total |-> fill.new.content.total,
                    init |-> fill.new.content.init, len |-> fill.new.len]
       IN  disk' = [disk EXCEPT ![fill.res].meta = meta]
    /\ fill' = NextResource
    /\ UNCHANGED <<resources, session, now, report, reporter, serial, job, cached, faults>>

\* A rename or a write that fails.
Fault ==
    /\ fill.pc \in {"rename", "meta"} /\ faults < MaxFaults
    /\ fill' = Failed /\ faults' = faults + 1
    /\ UNCHANGED <<resources, session, now, report, reporter, serial, job, disk, cached>>

\* The fill ends; what it does after the prewarm is modelled in HlsItemLifecycle.
Finish ==
    /\ fill.pc = "full" /\ Continues
    /\ fill' = NoFill /\ job' = [queued |-> job.queued, running |-> FALSE, preempted |-> FALSE]
    /\ UNCHANGED <<resources, session, now, report, reporter, serial, disk, cached, faults>>

\* The fill of another session is promoted.
Preempt ==
    /\ job.running /\ ~job.preempted /\ faults < MaxFaults
    /\ job' = [job EXCEPT !.preempted = TRUE] /\ faults' = faults + 1
    /\ UNCHANGED <<resources, session, now, report, reporter, serial, fill, disk, cached>>

\* The server restarts: what is on disk stays, and the fill is queued again.
Crash ==
    /\ faults < MaxFaults /\ faults' = faults + 1
    /\ report' = None /\ reporter' = NoReporter /\ fill' = NoFill
    /\ job' = [queued |-> Live, running |-> FALSE, preempted |-> FALSE]
    /\ UNCHANGED <<resources, session, now, serial, disk, cached>>

Next ==
    \/ Report \/ Record \/ Promote \/ Recheck \/ Remove \/ Cancel \/ Tick
    \/ Start \/ Begin \/ Stop \/ Resource \/ Request \/ Body \/ Rename \/ WriteMetadata
    \/ Fault \/ Finish \/ Preempt \/ Crash

Spec == Init /\ [][Next]_vars

-----------------------------------------------------------------------------
\* Once a seek has been handled, no prewarm goes on that has not seen it.
SeekRestartsPrefetch ==
    reporter.pc = "idle" /\ fill.pc \in {"resource", "request", "body", "rename", "meta"} /\ Continues =>
        fill.seen >= serial.seek

\* A session that is gone has no report once the reports in progress end.
ReportsAreLive == session = "gone" /\ reporter.pc = "idle" => report = None

\* A prefix that is readable is the start of one file and holds its
\* initialization: whatever renames, writes and crashes came between, if the
\* size of the file is declared or the URLs answer with one file.
OneFile(i) ==
    \/ resources[i].size # None
    \/ \A a, b \in {resources[i].urls[k] : k \in DOMAIN resources[i].urls} : a.content = b.content
PrefixIsOneFile ==
    \A i \in DOMAIN resources :
        Prewarmed(i) /\ OneFile(i) =>
            /\ disk[i].file.content.total = disk[i].meta.total
            /\ disk[i].file.len >= disk[i].meta.init

\* A prewarm that succeeds leaves every resource cached or prewarmed.
PrewarmIsComplete ==
    fill.pc = "full" /\ fill.res # 0 => \A i \in DOMAIN resources : i \in cached \/ Prewarmed(i)

PrewarmIsSound == SeekRestartsPrefetch /\ ReportsAreLive /\ PrefixIsOneFile /\ PrewarmIsComplete
=============================================================================
