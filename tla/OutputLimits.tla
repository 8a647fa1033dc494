---------------------------- MODULE OutputLimits ----------------------------
(***************************************************************************)
(* The sizes of task outputs, from their acceptance to the pages that list *)
(* them and the file that saves them (task_output.rs, task_store.rs,       *)
(* grpc_services.rs).  An output is accepted with room for what a client   *)
(* gets on top of it: addresses of resources and texts that replace        *)
(* sensitive ones.  The file is read as a stream: each collection stops at *)
(* its limit, and all the resources of the file, and the artifacts of one  *)
(* output, are claimed one by one from a budget of the thread.             *)
(*                                                                         *)
(* A result is [body, arts, failed]: the size of its own fields, its       *)
(* artifacts and whether it has a problem; an artifact is "plain", has a   *)
(* "resource" or has "failed".  A task is [items, cands, results,          *)
(* resources], the last one a number.  Sizes are in units.                 *)
(***************************************************************************)
EXTENDS Naturals, Sequences, SequencesExt

CONSTANTS
    MaxTasks, MaxCandidates, MaxResults, MaxArtifacts, MaxResources, MaxRegistered,
    MaxResultBytes, MaxStringBytes, MaxOutputBytes, MaxPageBytes, PageReserve, PageSizes,
    Uri,         \* MAX_TASK_RESOURCE_BASE_URI_BYTES and its overhead
    Redacted,    \* MAX_TASK_CLIENT_REDACTION_MESSAGE_BYTES
    Overhead,    \* MAX_TASK_CLIENT_REDACTION_OVERHEAD_BYTES
    Message,     \* the size of a problem as it is stored
    Expired,     \* the size of the problem of an expired resource
    Offered,     \* what downloads and planners publish
    Foreign,     \* files that this server has not written
    None

VARIABLES
    tasks,   \* the registry
    grown,   \* tasks whose fill status has changed since their output was accepted
    file,    \* the tasks of the state file, or None
    ours,    \* the server has written the file, and none of its tasks had grown
    rd,      \* the reader: [stage, cur, kept, resources, artifacts]
    list     \* a listing: [output, pages, refused] or None

vars == <<tasks, grown, file, ours, rd, list>>

NoTask == [items |-> 0, cands |-> 0, results |-> <<>>, resources |-> 0]
NoReader == [stage |-> "none", cur |-> NoTask, kept |-> <<>>, resources |-> None, artifacts |-> None]

Init ==
    /\ tasks = <<>> /\ grown = {} /\ file = None /\ ours = FALSE
    /\ rd = NoReader /\ list = None

Idle == rd.stage = "none" /\ list = None
Editing == Idle /\ file = None   \* bound: the tasks change until they are saved

-----------------------------------------------------------------------------
(* Sizes.                                                                  *)
Total(F(_), s) == FoldLeft(LAMBDA n, x : n + F(x), 0, s)

Count(r, kind) == Len(SelectSeq(r.arts, LAMBDA a : a = kind))
ArtifactsOf(results) == Total(LAMBDA r : Len(r.arts), results)

\* encoded_len of a result: an artifact with a resource or a problem has one more field.
Problems(r) == Count(r, "failed") + (IF r.failed THEN 1 ELSE 0)
EncodedLen(r) == r.body + Len(r.arts) + Count(r, "resource") + Message * Problems(r)

\* task_result_string_bytes: the texts among the fields.
StringLen(r) == r.body + Count(r, "resource") + Message * Problems(r)

\* projected_redaction_message_growth
Growth == (IF Redacted > Message THEN Redacted - Message ELSE 0) + Overhead

\* projected_task_result_encoded_bytes
Projected(r) == EncodedLen(r) + Uri * Count(r, "resource") + Growth * Problems(r)

\* validate_collection_sizes
Accepts(results, resources) ==
    /\ Len(results) <= MaxResults /\ resources <= MaxResources
    /\ ArtifactsOf(results) <= MaxArtifacts
    /\ \A i \in DOMAIN results : Projected(results[i]) <= MaxResultBytes
    /\ Total(StringLen, results) + resources <= MaxStringBytes
    /\ Total(EncodedLen, results) + resources <= MaxOutputBytes
    /\ Total(Projected, results) + resources <= MaxOutputBytes

Resources(results) == Total(LAMBDA r : Count(r, "resource"), results)
Registered(s) == Total(LAMBDA t : t.resources, s)

-----------------------------------------------------------------------------
(* The registry.                                                           *)

\* A task is created with the output that it gets.  Its resources are claimed
\* within what may be registered (validate_task_output_resource_claims_locked).
Publish(results) ==
    LET resources == Resources(results)
    IN /\ Editing /\ Len(tasks) <= MaxTasks
       /\ Accepts(results, resources) /\ Registered(tasks) + resources <= MaxRegistered
       /\ tasks' = Append(tasks, [items |-> Len(results), cands |-> 0,
                                  results |-> results, resources |-> resources])
       /\ UNCHANGED <<grown, file, ours, rd, list>>

\* update_bilibili_cache_fill_status: the output is not checked again.
FillStatus(i) ==
    /\ Editing /\ i \in DOMAIN tasks \ grown /\ tasks[i].results # <<>>
    /\ tasks' = [tasks EXCEPT ![i].results[1].body = @ + 1] /\ grown' = grown \cup {i}
    /\ UNCHANGED <<file, ours, rd, list>>

\* validate_collection_limits, and the totals of PersistedTaskSequenceValidator
Writable(s) ==
    /\ Len(s) <= MaxTasks /\ Registered(s) <= MaxRegistered
    /\ \A i \in DOMAIN s :
        /\ s[i].items <= MaxResults /\ s[i].cands <= MaxCandidates
        /\ Len(s[i].results) <= MaxResults /\ s[i].resources <= MaxResources
        /\ ArtifactsOf(s[i].results) <= MaxArtifacts
Save ==
    /\ Idle /\ Writable(tasks) /\ file' = tasks /\ ours' = (grown = {})
    /\ UNCHANGED <<tasks, grown, rd, list>>

\* The file of another version, or one that was edited.
Replace(f) ==
    /\ Editing /\ tasks = <<>> /\ file' = f
    /\ UNCHANGED <<tasks, grown, ours, rd, list>>

-----------------------------------------------------------------------------
(* Reading the file: load_state.  Every refusal drops both budgets.        *)
Refuse == rd' = [rd EXCEPT !.stage = "refused", !.resources = None, !.artifacts = None]
Reading == UNCHANGED <<tasks, grown, file, ours, list>>

\* The task that is read, as it is in the file.
Source == file[Len(rd.kept) + 1]

\* PersistedTaskResourceBudgetGuard::enter
Open ==
    /\ Idle /\ file # None
    /\ rd' = [NoReader EXCEPT !.stage = IF rd.resources = None THEN "task" ELSE "refused",
                              !.resources = MaxRegistered]
    /\ Reading

\* deserialize_bounded_vec of the tasks
NextTask ==
    /\ rd.stage = "task" /\ Reading
    /\ IF Len(rd.kept) = Len(file) THEN rd' = [rd EXCEPT !.stage = "convert", !.resources = None]
       ELSE IF Len(rd.kept) = MaxTasks THEN Refuse
       ELSE rd' = [rd EXCEPT !.stage = "collections", !.cur = NoTask]

\* deserialize_bilibili_task_candidates, deserialize_bilibili_result_items;
\* then PersistedTaskArtifactBudgetGuard::enter for the results.
ReadCollections ==
    /\ rd.stage = "collections" /\ Reading
    /\ IF Source.cands > MaxCandidates \/ Source.items > MaxResults \/ rd.artifacts # None THEN Refuse
       ELSE rd' = [rd EXCEPT !.stage = "results", !.artifacts = MaxArtifacts,
                             !.cur.cands = Source.cands, !.cur.items = Source.items]

\* deserialize_task_results_with_artifact_limit
NextResult ==
    LET n == Len(rd.cur.results) IN
    /\ rd.stage = "results" /\ Reading
    /\ IF n = Len(Source.results) THEN rd' = [rd EXCEPT !.stage = "resources", !.artifacts = None]
       ELSE IF n = MaxResults THEN Refuse
       ELSE rd' = [rd EXCEPT !.stage = "artifacts",
                             !.cur.results = Append(@, [Source.results[n + 1] EXCEPT !.arts = <<>>])]

\* claim_persisted_task_artifact_budget, release_persisted_task_artifact_budget
Claim(budget) == budget - 1
Release(budget, limit) == IF budget + 1 < limit THEN budget + 1 ELSE limit

\* deserialize_task_artifacts: a claim for an artifact that is not there is released.
NextArtifact ==
    LET n == Len(rd.cur.results)
        k == Len(rd.cur.results[n].arts)
        more == k < Len(Source.results[n].arts)
    IN
    /\ rd.stage = "artifacts" /\ Reading
    /\ IF k = MaxArtifacts \/ rd.artifacts = 0
       THEN IF more THEN Refuse ELSE rd' = [rd EXCEPT !.stage = "results"]
       ELSE IF more
       THEN rd' = [rd EXCEPT !.artifacts = Claim(@),
                             !.cur.results[n].arts = Append(@, Source.results[n].arts[k + 1])]
       ELSE rd' = [rd EXCEPT !.stage = "results", !.artifacts = Release(Claim(@), MaxArtifacts)]

\* deserialize_task_resources
NextResource ==
    LET more == rd.cur.resources < Source.resources
        Ended(left) == [rd EXCEPT !.stage = "task", !.kept = Append(@, rd.cur), !.resources = left]
    IN
    /\ rd.stage = "resources" /\ Reading
    /\ IF rd.cur.resources = MaxResources \/ rd.resources = 0
       THEN IF more THEN Refuse ELSE rd' = Ended(rd.resources)
       ELSE IF more THEN rd' = [rd EXCEPT !.resources = Claim(@), !.cur.resources = @ + 1]
       ELSE rd' = Ended(Release(Claim(rd.resources), MaxRegistered))

\* TaskOutputRecord::restored and validate_registered_task_resource_count
Restorable(s) ==
    /\ \A i \in DOMAIN s : Accepts(s[i].results, s[i].resources)
    /\ Registered(s) <= MaxRegistered
Convert ==
    /\ rd.stage = "convert"
    /\ IF Restorable(rd.kept)
       THEN rd' = [rd EXCEPT !.stage = "loaded"] /\ tasks' = rd.kept /\ grown' = {}
       ELSE Refuse /\ UNCHANGED <<tasks, grown>>
    /\ UNCHANGED <<file, ours, list>>

\* The server runs; after a refusal it runs without persistence and may read again.
Close ==
    /\ rd.stage \in {"loaded", "refused"}
    /\ rd' = [NoReader EXCEPT !.resources = rd.resources, !.artifacts = rd.artifacts] /\ Reading

-----------------------------------------------------------------------------
(* Listing the results of a task, page by page.                            *)
List(i) ==
    /\ Idle /\ i \in DOMAIN tasks
    /\ list' = [output |-> tasks[i].results, accepted |-> i \notin grown, pages |-> <<>>, refused |-> FALSE]
    /\ UNCHANGED <<tasks, grown, file, ours, rd>>

Offset == Total(Len, list.pages)

\* page: the results from the offset that fit into one page, or none when the
\* first one does not.
Entry(r) == Projected(r) + 1
Fits(i, j) ==
    LET page == SubSeq(list.output, i + 1, j)
    IN PageReserve + Total(Entry, page) <= MaxPageBytes /\ ArtifactsOf(page) <= MaxArtifacts
PageEnd(size) ==
    LET last == IF Offset + size < Len(list.output) THEN Offset + size ELSE Len(list.output)
        ends == {j \in Offset .. last : \A k \in Offset + 1 .. j : Fits(Offset, k)}
    IN CHOOSE j \in ends : \A k \in ends : k <= j

\* task_result_for_client: `uri' is the size of the addresses, `redact' and
\* `late' say whether texts are replaced and resources have expired.
ClientLen(r, uri, redact, late) ==
    LET text == IF redact THEN Redacted + Overhead ELSE Message
        gone == IF redact THEN Redacted + Overhead ELSE Expired
        resource == IF late THEN gone ELSE 1 + uri
    IN r.body + Len(r.arts) + resource * Count(r, "resource") + text * Problems(r)

\* list_task_results
NextPage(size) ==
    /\ list # None /\ ~list.refused /\ Offset < Len(list.output)
    /\ IF PageEnd(size) = Offset THEN list' = [list EXCEPT !.refused = TRUE]
       ELSE list' = [list EXCEPT !.pages = Append(@, SubSeq(list.output, Offset + 1, PageEnd(size)))]
    /\ UNCHANGED <<tasks, grown, file, ours, rd>>
EndList ==
    /\ list # None /\ (list.refused \/ Offset = Len(list.output)) /\ list' = None
    /\ UNCHANGED <<tasks, grown, file, ours, rd>>

Next ==
    \/ \E results \in Offered : Publish(results)
    \/ \E i \in 1 .. MaxTasks : FillStatus(i) \/ List(i)
    \/ Save \/ Open \/ NextTask \/ ReadCollections \/ NextResult \/ NextArtifact \/ NextResource
    \/ Convert \/ Close \/ EndList
    \/ \E f \in Foreign : Replace(f)
    \/ \E size \in PageSizes : NextPage(size)

Spec == Init /\ [][Next]_vars

-----------------------------------------------------------------------------
(* Properties.                                                             *)

\* The reader takes exactly the files within the limits, and all of them; after
\* it no budget stays active on its thread.
ReaderIsExact ==
    /\ rd.stage = "loaded" => rd.kept = file /\ Writable(file) /\ Restorable(file)
    /\ rd.stage = "refused" => ~(Writable(file) /\ Restorable(file))
    /\ rd.stage \in {"none", "loaded", "refused"} => rd.resources = None /\ rd.artifacts = None

\* However large the file is, what is in memory stays within the limits: nothing
\* that is claimed is lost and nothing is kept without a claim.
ReaderIsBounded ==
    /\ rd.stage \notin {"none", "loaded", "refused", "convert"} =>
        rd.resources + Registered(rd.kept)
            + (IF rd.stage = "resources" THEN rd.cur.resources ELSE 0) = MaxRegistered
    /\ rd.stage \in {"results", "artifacts"} =>
        rd.artifacts + ArtifactsOf(rd.cur.results) = MaxArtifacts
    /\ Len(rd.kept) <= MaxTasks /\ Len(rd.cur.results) <= MaxResults

\* A file that the server wrote from outputs that it had accepted is readable.
WrittenIsReadable == ours => Restorable(file) /\ rd.stage # "refused"

\* An accepted output can be listed to its end, every result is on one page, and
\* whatever is shown to a client fits.
ListingsAreWhole ==
    list # None /\ list.accepted =>
        /\ ~list.refused
        /\ FlattenSeq(list.pages) = SubSeq(list.output, 1, Offset)
        /\ \A p \in DOMAIN list.pages : \A uri \in 0 .. Uri : \A redact, late \in BOOLEAN :
            LET page == list.pages[p]
                Client(r) == ClientLen(r, uri, redact, late)
            IN /\ page # <<>>
               /\ \A i \in DOMAIN page : Client(page[i]) <= MaxResultBytes
               /\ PageReserve + Total(Client, page) + Len(page) <= MaxPageBytes

LimitsAreKept == ReaderIsExact /\ ReaderIsBounded /\ WrittenIsReadable /\ ListingsAreWhole
=============================================================================
