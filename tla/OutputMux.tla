----------------------------- MODULE OutputMux -----------------------------
(***************************************************************************)
(* What becomes of the files of one download (bbdown_adapter.rs): they are *)
(* bound to the objects they name, muxed by ffmpeg into one playable file  *)
(* for each entry, bound again, and offered to the library.  Meanwhile the *)
(* task may be cancelled, and a name may be removed or come to name        *)
(* something else.  The directories of a v2 download, and what a restart   *)
(* makes of them, are in TaskOutputs.                                      *)
(*                                                                         *)
(* A name is <<entry, leaf>>.  The object a name was downloaded to is told *)
(* apart by that name, the output of ffmpeg by <<entry, "tmp">>, and what  *)
(* comes from elsewhere by <<0, kind>>.                                    *)
(***************************************************************************)
EXTENDS Naturals, Sequences, FiniteSets

CONSTANTS
    Downloads,    \* downloads: [v2, audio, entries], the leaves of each entry
    Budget,       \* bilibili_v2_retained_descriptor_budget
    MaxChanges,   \* bound: names that change
    MaxFaults,    \* bound: failures of ffmpeg, renames and saves
    None

VARIABLES
    job,       \* the download
    dir,       \* the object of each name
    wrote,     \* whether the output of an entry is complete
    report,    \* the report: the leaves of each entry that it lists
    muxed,     \* the entries whose report has an output
    bound,     \* the objects of the names that were validated
    run,       \* the run: [pc, e, why, gone, item]
    cancel, saved, changes, faults

vars == <<job, dir, wrote, report, muxed, bound, run, cancel, saved, changes, faults>>
inputs == <<job, cancel, changes>>

Leaves == {"v", "a", "f", "g", "s", "out", "tmp", "list"}
Media == {"v", "a", "f", "g", "out"}
Entries == DOMAIN job.entries
Names == Entries \X Leaves
Values(s) == {s[i] : i \in DOMAIN s}
Foreign == {<<0, "file">>, <<0, "dir">>}
Regular(n) == dir[n] \notin {None, <<0, "dir">>}

Init ==
    /\ job \in Downloads
    /\ dir = [n \in Names |-> IF n[2] \in Values(job.entries[n[1]]) THEN n ELSE None]
    /\ wrote = {} /\ report = job.entries /\ muxed = {} /\ bound = << >>
    /\ run = [pc |-> "validate", e |-> 1, why |-> "ok", gone |-> {}, item |-> None]
    /\ cancel = FALSE /\ saved = FALSE /\ changes = 0 /\ faults = 0

Fault == faults < MaxFaults /\ faults' = faults + 1
Go(pc) == run' = [run EXCEPT !.pc = pc]
Stop(why) == run' = [run EXCEPT !.pc = "abort", !.why = why]
Without(D, S) == [n \in DOMAIN D |-> IF n \in S THEN None ELSE D[n]]

\* remove_file_no_follow_at, one name after another until one is not a file.
RemoveAll(S) ==
    IF \E n \in S : dir[n] = <<0, "dir">> THEN {T \in SUBSET S : \A n \in T : dir[n] # <<0, "dir">>} ELSE {S}

-----------------------------------------------------------------------------
(* The names that the report lists.                                        *)

Listed == {n \in Names : n[2] \in Values(report[n[1]]) \/ (n[2] = "out" /\ n[1] \in muxed)}
Sources(e) == {n \in DOMAIN bound : n[1] = e /\ n[2] \in Media}
Descriptors == 1 + Len(report) + Cardinality(Listed)

\* validate_download_report_paths_no_follow_blocking: every listed name is a
\* file, and stays open.
Validates == Descriptors <= Budget /\ \A n \in Listed : Regular(n)
Bind == bound' = [n \in Listed |-> dir[n]]

\* revalidate_download_report_files_after_publication
StillBound == \A n \in DOMAIN bound : dir[n] = bound[n]

\* The download has finished.  A legacy one that was cancelled meanwhile gives
\* its sources up (cleanup_downloaded_media_sources).
Validate ==
    /\ run.pc = "validate"
    /\ IF ~Validates THEN Go(IF job.v2 THEN "abort" ELSE "failed") /\ UNCHANGED <<dir, bound>>
       ELSE /\ Bind
            /\ IF ~job.v2 /\ cancel
               THEN /\ dir' = Without(dir, {n \in Listed : n[2] \in Media \ {"out"}})
                    /\ run' = [run EXCEPT !.pc = "cancelled", !.why = "cancel"]
               ELSE Go(IF job.audio THEN "muxed" ELSE "mux") /\ UNCHANGED dir
    /\ UNCHANGED <<inputs, wrote, report, muxed, saved, faults>>

-----------------------------------------------------------------------------
(* mux_download_report_in_place and mux_entry_media, entry after entry.    *)

Here(leaf) == <<run.e, leaf>>
Flv == \A leaf \in Values(report[run.e]) \cap Media : leaf \in {"f", "g"}
Prepared == {Here("tmp"), Here("out")} \cup (IF Flv THEN {Here("list")} ELSE {})

NextEntry ==
    /\ run.pc = "mux"
    /\ IF run.e > Len(report) THEN Go("muxed")
       ELSE IF cancel THEN Stop("cancel")
       ELSE IF Sources(run.e) = {} THEN run' = [run EXCEPT !.e = @ + 1]
       ELSE Go("clear")
    /\ UNCHANGED <<inputs, dir, wrote, report, muxed, bound, saved, faults>>

\* prepare_mux_files_blocking: what is left of an earlier attempt is removed,
\* even if it is one of the sources: they are open.
Clear ==
    /\ run.pc = "clear"
    /\ \E gone \in RemoveAll(Prepared) :
          dir' = Without(dir, gone) /\ IF gone = Prepared THEN Go("create") ELSE Stop("fail")
    /\ UNCHANGED <<inputs, wrote, report, muxed, bound, saved, faults>>

\* The list and the output are created, exclusively.
Create ==
    /\ run.pc = "create"
    /\ LET new == Prepared \ {Here("out")}
       IN  IF \A n \in new : dir[n] = None
           THEN dir' = [n \in DOMAIN dir |-> IF n \in new THEN n ELSE dir[n]] /\ Go("ffmpeg")
           ELSE Stop("fail") /\ UNCHANGED dir
    /\ UNCHANGED <<inputs, wrote, report, muxed, bound, saved, faults>>

\* remove_bound_mux_file: only if the name still names the object.
Own(leaf) == IF dir[Here(leaf)] = Here(leaf) THEN {Here(leaf)} ELSE {}

\* run_ffmpeg_mux reads and writes what is open; then the list is removed.
Ffmpeg ==
    /\ run.pc = "ffmpeg"
    /\ LET kept == dir[Here("list")] \in {None, Here("list")} \/ ~Flv
       IN  \/ /\ cancel /\ run' = [run EXCEPT !.pc = "undo", !.why = "cancel"]
              /\ UNCHANGED <<wrote, faults>>
           \/ /\ wrote' = wrote \cup {run.e} /\ UNCHANGED faults
              /\ run' = [run EXCEPT !.pc = IF kept THEN "sources" ELSE "undo", !.why = IF kept THEN "ok" ELSE "fail"]
           \/ /\ Fault /\ run' = [run EXCEPT !.pc = "undo", !.why = "fail"] /\ UNCHANGED wrote
    /\ dir' = IF Flv THEN Without(dir, Own("list")) ELSE dir
    /\ UNCHANGED <<inputs, report, muxed, bound, saved>>

\* revalidate_mux_source_paths_blocking: a source whose name is something else
\* now is given up, with what the name stands for.
RevalidateSources ==
    /\ run.pc = "sources"
    /\ LET named == {n \in Sources(run.e) : n # Here("out")}
           other == {n \in named : dir[n] \notin {None, bound[n]}}
           gone == {n \in Sources(run.e) : n = Here("out") \/ dir[n] # bound[n]}
       IN  \E removed \in RemoveAll(other) :
              /\ dir' = Without(dir, removed)
              /\ run' = IF removed = other THEN [run EXCEPT !.pc = "rename", !.gone = gone]
                        ELSE [run EXCEPT !.pc = "undo", !.why = "fail"]
    /\ UNCHANGED <<inputs, wrote, report, muxed, bound, saved, faults>>

\* publish_bound_mux_file_blocking: renamed unless it was replaced or something
\* has taken its place, and checked again.
MayRename == dir[Here("tmp")] = Here("tmp") /\ dir[Here("out")] = None

Rename ==
    /\ run.pc = "rename"
    /\ IF MayRename
       THEN dir' = [dir EXCEPT ![Here("out")] = dir[Here("tmp")], ![Here("tmp")] = None] /\ Go("confirm")
       ELSE run' = [run EXCEPT !.pc = "undo", !.why = "fail"] /\ UNCHANGED dir
    /\ UNCHANGED <<inputs, wrote, report, muxed, bound, saved, faults>>

Confirm ==
    /\ run.pc = "confirm"
    /\ IF dir[Here("out")] = Here("tmp")
       THEN /\ run' = [run EXCEPT !.pc = "mux", !.e = @ + 1, !.gone = {}]
            /\ report' = [report EXCEPT ![run.e] = SelectSeq(@, LAMBDA leaf : Here(leaf) \notin run.gone)]
            /\ muxed' = muxed \cup {run.e}
       ELSE run' = [run EXCEPT !.pc = "undo", !.why = "fail"] /\ UNCHANGED <<report, muxed>>
    /\ UNCHANGED <<inputs, dir, wrote, bound, saved, faults>>

\* cleanup_failed_mux_files
Undo ==
    /\ run.pc = "undo"
    /\ \E gone \in RemoveAll(Sources(run.e) \ {Here("out")}) :
          dir' = Without(dir, gone \cup Own("list") \cup Own("tmp"))
    /\ Go("abort")
    /\ UNCHANGED <<inputs, wrote, report, muxed, bound, saved, faults>>

-----------------------------------------------------------------------------
(* A v2 candidate: prepare_owned_download_report_for_playback_in_place and  *)
(* finalize_v2_download_result.                                            *)

\* The report is bound again, and every output is the one that was published.
Rebind ==
    /\ run.pc = "muxed" /\ job.v2
    /\ IF Validates /\ \A e \in muxed : dir[<<e, "out">>] = <<e, "tmp">>
       THEN Bind /\ Go("publish") ELSE Stop("fail") /\ UNCHANGED bound
    /\ UNCHANGED <<inputs, dir, wrote, report, muxed, saved, faults>>

\* publish_v2_output_directory, and the first revalidation
PublishDirectory ==
    /\ run.pc = "publish"
    /\ \/ (IF StillBound THEN Go("offer") ELSE Stop("fail")) /\ UNCHANGED faults
       \/ Fault /\ Stop("fail")
    /\ UNCHANGED <<inputs, dir, wrote, report, muxed, bound, saved>>

\* playable_entry_output_candidates: the output, then the media files.
Playable(e) == (IF e \in muxed THEN <<<<e, "out">>>> ELSE << >>)
               \o [i \in DOMAIN report[e] |-> <<e, report[e][i]>>]
OfferableV2 == {i \in DOMAIN Playable(1) : Playable(1)[i][2] \in Media /\ Regular(Playable(1)[i])}
First(S) == CHOOSE i \in S : \A j \in S : i <= j

\* map_v2_download_result: revalidated, leased in the library, which may not
\* know any of them ...
Reserve ==
    /\ run.pc = "offer" /\ job.v2
    /\ IF ~StillBound THEN Stop("fail") /\ UNCHANGED faults
       ELSE \/ /\ OfferableV2 = {} /\ Go("done") /\ UNCHANGED faults
            \/ /\ OfferableV2 # {} /\ UNCHANGED faults
               /\ run' = [run EXCEPT !.pc = "leased", !.item = Playable(1)[First(OfferableV2)]]
            \/ OfferableV2 # {} /\ Fault /\ Stop("fail")
    /\ UNCHANGED <<inputs, dir, wrote, report, muxed, bound, saved>>

\* ... and revalidated.
Offer ==
    /\ run.pc = "leased"
    /\ IF StillBound THEN Go("done") ELSE Stop("fail")
    /\ UNCHANGED <<inputs, dir, wrote, report, muxed, bound, saved, faults>>

-----------------------------------------------------------------------------
(* A legacy download: run_inner after the muxing.                          *)

Unretained_BoundOnly(item) == {n \in DOMAIN bound : n[2] \in Media /\ n # item}

\* cleanup_legacy_unretained_media_outputs
Unretained(item) ==
    {n \in DOMAIN bound : n[2] \in Media /\ n # item} \cup {n \in muxed \X {"out"} : n # item}

\* playable_output_candidates: the outputs come first, a sound track last.
Rank(n) == IF n[2] = "out" /\ n[1] \in muxed THEN n[1]
           ELSE 10 * n[1] + CHOOSE i \in DOMAIN report[n[1]] : report[n[1]][i] = n[2]
Offerable == {n \in Listed : n[2] \in Media /\ Regular(n) /\ (n[2] = "a" => n[1] \notin muxed)}
Best == CHOOSE n \in Offerable : \A o \in Offerable : Rank(n) <= Rank(o)

Choose ==
    /\ run.pc = "muxed" /\ ~job.v2
    /\ IF cancel THEN Stop("cancel")
       ELSE IF Offerable = {} THEN Stop("fail")
       ELSE run' = [run EXCEPT !.pc = "retain", !.item = Best]
    /\ UNCHANGED <<inputs, dir, wrote, report, muxed, bound, saved, faults>>

\* retain_legacy_output_for_archive_commit
Retain ==
    /\ run.pc = "retain"
    /\ IF cancel THEN Stop("cancel") /\ UNCHANGED dir
       ELSE \E gone \in RemoveAll(Unretained(run.item)) :
               dir' = Without(dir, gone) /\ Go(IF gone = Unretained(run.item) THEN "commit" ELSE "failed")
    /\ UNCHANGED <<inputs, wrote, report, muxed, bound, saved, faults>>

\* save_archive
Commit ==
    /\ run.pc = "commit"
    /\ IF cancel THEN Stop("cancel") /\ UNCHANGED <<saved, faults>>
       ELSE \/ saved' = TRUE /\ Go("done") /\ UNCHANGED faults
            \/ Fault /\ Go("failed") /\ UNCHANGED saved
    /\ UNCHANGED <<inputs, dir, wrote, report, muxed, bound>>

\* The end of a run that failed or was cancelled; a v2 candidate loses its
\* directory (cleanup_failed_v2_candidate_output).
Abort ==
    /\ run.pc = "abort"
    /\ IF job.v2 THEN dir' = [n \in DOMAIN dir |-> None]
       ELSE \E gone \in RemoveAll(Unretained(None)) : dir' = Without(dir, gone)
    /\ Go(IF run.why = "cancel" THEN "cancelled" ELSE "failed")
    /\ UNCHANGED <<inputs, wrote, report, muxed, bound, saved, faults>>

Ended == run.pc \in {"done", "failed", "cancelled"}

CancelRequested ==
    /\ ~cancel /\ ~Ended /\ cancel' = TRUE
    /\ UNCHANGED <<job, dir, wrote, report, muxed, bound, run, saved, changes, faults>>

\* A name is removed, or names something else.
Change ==
    /\ changes < MaxChanges /\ ~Ended
    /\ \E n \in Names, o \in Foreign \cup {None} : dir[n] # o /\ dir' = [dir EXCEPT ![n] = o]
    /\ changes' = changes + 1
    /\ UNCHANGED <<job, wrote, report, muxed, bound, run, cancel, saved, faults>>

Next ==
    \/ Validate \/ NextEntry \/ Clear \/ Create \/ Ffmpeg \/ RevalidateSources \/ Rename \/ Confirm \/ Undo
    \/ Rebind \/ PublishDirectory \/ Reserve \/ Offer \/ Choose \/ Retain \/ Commit \/ Abort
    \/ CancelRequested \/ Change

Spec == Init /\ [][Next]_vars

-----------------------------------------------------------------------------
\* An output has its name only when ffmpeg has written all of it.
OutputIsComplete == \A e \in Entries : dir[<<e, "out">>] = <<e, "tmp">> => e \in wrote

\* What is offered is what was downloaded: the output of all the sources that
\* were bound, or the sound track as it was bound; for a v2 download whatever
\* else happened to the names.
OfferedIsDownloaded ==
    run.pc = "done" /\ run.item # None /\ (job.v2 \/ changes = 0) =>
        IF job.audio THEN dir[run.item] = bound[run.item]
        ELSE dir[run.item] = <<run.item[1], "tmp">> /\ run.item[1] \in wrote

\* A legacy download that is cancelled or fails leaves no media behind, and one
\* that succeeds leaves only what it offers; the archive says so only then.
NothingIsLeft ==
    ~job.v2 /\ Ended /\ changes = 0 /\ bound # << >> =>
        LET left == {n \in Names : n[2] # "s" /\ dir[n] # None}
        IN  /\ run.pc = "cancelled" \/ (run.pc = "failed" /\ run.item = None) => left = {}
            /\ run.pc = "done" => left = {run.item}
            /\ saved <=> run.pc = "done"

\* Of a v2 candidate that is not offered nothing is left, and what is open for
\* the others fits the budget.
CandidateIsWhole ==
    job.v2 /\ Ended =>
        /\ run.pc # "done" => \A n \in Names : dir[n] = None
        /\ run.pc = "done" => /\ 1 + Len(report) + Cardinality(DOMAIN bound) <= Budget
                              /\ \A n \in DOMAIN bound : dir[n] = bound[n]
                              /\ \A e \in Entries : dir[<<e, "tmp">>] # <<e, "tmp">>

MuxIsSound == OutputIsComplete /\ OfferedIsDownloaded /\ NothingIsLeft /\ CandidateIsWhole
=============================================================================
