--------------------------- MODULE HlsRangeStore ----------------------------
(***************************************************************************)
(* One resource of the HLS disk cache (hls_cache.rs): its data file, its      *)
(* range checkpoint, its completed file and metadata, and the clients that    *)
(* read and fill it from several CDN origins.                                *)
(*                                                                          *)
(* Every change of the checkpoint happens under the resource's publication    *)
(* lock, without an await that lets another holder in, so such a section is   *)
(* one step; Stages gives the states the files pass through, and Interrupt    *)
(* stops a section between two of them.  Between sections a client works with  *)
(* the checkpoint it loaded (`snap'), which the others go on changing.        *)
(***************************************************************************)
EXTENDS HlsRangeExtents

CONSTANTS
    Readers,    \* foreground requests (ensure_range_inner)
    Fillers,    \* the background fill (cache_resource), one at a time
    Origins,    \* CDN origins; every one has a candidate URL
    First,      \* the origin whose URLs may be redirected to the others
    Total,      \* length of the resource
    Requests,   \* the ranges that are read
    MaxPasses,  \* RANGE_MAINTENANCE_PASSES_PER_ATTEMPT
    MaxTroubles \* bound on validator changes at the origins, crashes and failed
                \* file operations together

\* The sizes are those of the code, a resource is not empty, and one background
\* fill at a time works on it.
ASSUME StoreAssumption ==
    /\ {StartupChunk, ForegroundChunk, MinChunk, MaxChunk, MaxChunks, Total} \subseteq Nat \ {0}
    /\ Requests \subseteq Nat \X Nat
    /\ First \in Origins
    /\ Readers \cap Fillers = {} /\ \A c, d \in Fillers : c = d

VARIABLES
    disk,      \* the files of the resource
    client,    \* where each reader and filler is, and what it remembers
    content,   \* the bytes each origin serves
    etag,      \* the strong validator each origin sends
    rolls, hurts,
    spurious   \* history: an identity error that nothing explains

vars == <<disk, client, content, etag, rolls, hurts, spurious>>

Clients == Readers \cup Fillers
Unbound == 0                    \* an origin without a validated binding
Whole == <<0, Total>>
Positions == Bytes(Whole)
Hole == "hole"

\* The digest of a range of a file: collision free, hence its bytes.
Digest(bytes, r) == [i \in 1 .. (r[2] - r[1]) |-> bytes[r[1] + i - 1]]

\* PersistedRangeManifest.  Its generation only grows with every save under the
\* lock, and the identity of its data object is the object in `disk.bytes'.
NewManifest(size) == [total |-> size, prefix |-> << >>,
                      origins |-> [o \in Origins |-> Unbound], extents |-> << >>]

\* resource.request.size, unknown or not when the checkpoint is created.
Sizes == {0, Total}

\* partial: the data object is at its partial path; final: what is at the
\* completed path, nothing, the renamed data object or a full GET; meta and
\* saved: the completed metadata and the checkpoint exist.
EmptyDisk == [partial |-> FALSE, bytes |-> [p \in Positions |-> Hole],
              final |-> "none", meta |-> FALSE, saved |-> FALSE,
              man |-> NewManifest(0)]

Idle == [pc |-> "idle", want |-> NoRange, todo |-> {}, range |-> NoRange,
         snap |-> EmptyDisk.man, left |-> {}, cand |-> First, obs |-> First,
         etag |-> Unbound, retried |-> FALSE, passes |-> 0]

Mirror == [o \in Origins |-> [p \in Positions |-> "x"]]
Foreign == [o \in Origins |-> [p \in Positions |-> IF o = First THEN "x" ELSE "y"]]

Init ==
    /\ disk = EmptyDisk
    /\ client = [c \in Clients |-> Idle]
    /\ content \in {Mirror, Foreign}
    /\ etag = [o \in Origins |-> 1]
    /\ rolls = 0
    /\ hurts = 0
    /\ spurious = FALSE

-----------------------------------------------------------------------------
(* Reading the files.                                                       *)

man == disk.man

\* data_path_for_manifest finds the data object at either path.
DataFound(d) == d.partial \/ d.final = "data"

\* load_range_manifest.
Load ==
    IF ~disk.saved THEN (IF disk.partial THEN "identity" ELSE "none")
    ELSE IF DataFound(disk) THEN "ok" ELSE "identity"

\* completed_range_ready.
CompletedReady ==
    IF disk.meta THEN "ready"
    ELSE IF disk.final # "none" /\ ~disk.saved THEN "identity"
    ELSE "none"

\* read_durable_range, for a range within the resource: verified extents, or
\* the completed file.
ReadDurable(r) ==
    IF disk.meta THEN "ok"
    ELSE IF Load # "ok" THEN Load
    ELSE IF man.total = 0 \/ ~RangeIsCovered(man.extents, r) THEN "none"
    ELSE IF \A i \in DOMAIN man.extents :
              Meets(RangeOf(man.extents[i]), r)
                => Digest(disk.bytes, RangeOf(man.extents[i])) = man.extents[i].sha
    THEN "ok" ELSE "identity"

-----------------------------------------------------------------------------
(* Compatibility of the checkpoint a client expects with the current one.    *)

\* range_manifest_rebase_compatible_ignoring_origin.
Rebase(expected, current, ignored, allowUpdate) ==
    /\ expected.total # 0 => current.total = expected.total
    /\ expected.prefix # << >> => current.prefix = expected.prefix
    /\ \A o \in Origins \ ignored :
        expected.origins[o] # Unbound =>
            /\ current.origins[o] # Unbound
            /\ allowUpdate \/ current.origins[o] = expected.origins[o]
    /\ ToSet(expected.extents) \subseteq ToSet(current.extents)

\* ..._for_extent_publication: the target's own binding must not have moved.
ExtentRebase(expected, current, o) ==
    /\ Rebase(expected, current, {}, TRUE)
    /\ expected.origins[o] = current.origins[o]

\* range_manifest_target_validator_snapshot_is_stale.
StaleValidator(expected, current, o) ==
    /\ Rebase(expected, current, {o}, FALSE)
    /\ expected.origins[o] # Unbound /\ current.origins[o] # Unbound
    /\ expected.origins[o] # current.origins[o]

-----------------------------------------------------------------------------
(* Clients.                                                                 *)

Here(c) == client[c]
At(c, pc) == client[c].pc = pc
Go(c, pc) == client' = [client EXCEPT ![c].pc = pc]

\* Holders of the read admission of the resource, and owners of a flight.
Admitted == {c \in Clients : client[c].pc \in {"wait", "own", "try", "verify", "bind",
                                             "send", "reverify", "rebind", "commit"}}
Flights == Admitted \ {c \in Clients : At(c, "wait")}

World == <<content, etag, rolls, hurts>>

\* The request or fill ends, whatever its outcome.
Done(c) == client' = [client EXCEPT ![c] = Idle]

\* Nothing that an identity error may stand for has happened.
Unexplained == rolls = 0 /\ hurts = 0 /\ disk.final = "none"

\* An identity error during a span is no error for a reader that finds the
\* resource completed meanwhile (completed_range_after_identity_error).
IdentityError(c) ==
    /\ Done(c)
    /\ spurious' = (spurious \/ Unexplained)

Fails(c) == Done(c) /\ UNCHANGED spurious

-----------------------------------------------------------------------------
(* The files a section writes, one after the other.                         *)

EnsureStages(size) ==
    LET created == [disk EXCEPT !.partial = TRUE, !.bytes = EmptyDisk.bytes]
    IN <<created, [created EXCEPT !.saved = TRUE, !.man = NewManifest(size)]>>

\* The extents once the gaps of c's range are added, in order.
WithGaps(c) ==
    LET Fetched(gap) == [start |-> gap[1], end |-> gap[2],
                         sha |-> Digest(content[Here(c).obs], gap)]
        gaps == ToSet(MissingRangesWithin(man.extents, Here(c).range))
    IN InOrder(ToSet(man.extents) \cup {Fetched(gap) : gap \in gaps})

WithGapBytes(c) ==
    [p \in Positions |-> IF p \in Bytes(Here(c).range) \ Durable(man.extents)
                         THEN content[Here(c).obs][p] ELSE disk.bytes[p]]

\* Only the flight of the writer itself is active.
MayCompact(c) == \A d \in Flights : Here(d).range = Here(c).range

\* The checkpoint commit_range_extent_with_failure is about to save.
CommittedManifest(c) ==
    LET run == IF MayCompact(c)
               THEN FirstCompaction(WithGaps(c), man.total, Here(c).range) ELSE NoRange
        extents == IF run = NoRange THEN WithGaps(c)
                   ELSE CoalesceSelected(WithGaps(c), run, Digest(WithGapBytes(c), run))
        starts == Here(c).range[1] = 0
        length == AtMost(Here(c).range[2], StartupChunk)
    IN [man EXCEPT
          !.extents = extents,
          !.prefix = IF starts /\ @ = << >>
                     THEN Digest(content[Here(c).obs], <<0, length>>) ELSE @,
          !.origins[Here(c).obs] = IF starts THEN Here(c).etag ELSE @]

CommitStages_ManifestFirst(c) ==
    LET saved == [disk EXCEPT !.man = CommittedManifest(c)]
    IN <<saved, [saved EXCEPT !.bytes = WithGapBytes(c)]>>

\* Data is written and synced before the checkpoint that accounts for it.
CommitStages(c) ==
    LET written == [disk EXCEPT !.bytes = WithGapBytes(c)]
    IN <<written, [written EXCEPT !.man = CommittedManifest(c)]>>

\* finalize_range_resource: what an earlier attempt did is not repeated.
FinalizeStages ==
    LET renamed == [disk EXCEPT !.partial = FALSE, !.final = "data"]
        described == [renamed EXCEPT !.meta = TRUE]
    IN <<renamed, described, [described EXCEPT !.saved = FALSE]>>

\* The end of fill_full_get_compat.
FullGetStages ==
    LET renamed == [disk EXCEPT !.final = "full"]
        described == [renamed EXCEPT !.meta = TRUE]
        dropped == [described EXCEPT !.partial = FALSE]
    IN <<renamed, described, dropped, [dropped EXCEPT !.saved = FALSE]>>

-----------------------------------------------------------------------------
(* A request or a fill up to its first span.                                *)

\* ensure_range_inner; the check for a completed resource before the lock is
\* repeated under it, in Ensure.
StartRead(c, r) ==
    /\ c \in Readers /\ At(c, "idle")
    /\ client' = [client EXCEPT ![c].pc = "ensure", ![c].want = r]
    /\ UNCHANGED <<disk, World, spurious>>

\* cache_resource: a completed resource whose checkpoint is still there is
\* finalized again.
StartFill(c) ==
    /\ c \in Fillers /\ At(c, "idle")
    /\ disk.meta => disk.saved
    /\ UNCHANGED <<disk, World>>
    /\ IF disk.meta /\ Load # "ok" THEN IdentityError(c)
       ELSE /\ client' = [client EXCEPT ![c].pc = IF disk.meta THEN "finalize" ELSE "ensure",
                                        ![c].want = Whole]
            /\ UNCHANGED spurious

\* ensure_range_state_after_initial_miss (readers) and ensure_range_manifest.
Ensure(c) ==
    /\ At(c, "ensure")
    /\ UNCHANGED World
    /\ \/ /\ c \in Readers /\ CompletedReady = "ready"
          /\ Fails(c)
          /\ UNCHANGED disk
       \/ /\ \/ c \in Readers /\ CompletedReady = "identity"
             \/ (c \in Readers => CompletedReady = "none") /\ Load = "identity"
          /\ IdentityError(c)
          /\ UNCHANGED disk
       \/ /\ c \in Readers => CompletedReady = "none"
          /\ Load # "identity"
          /\ \/ Load = "ok" /\ UNCHANGED disk
             \/ Load = "none" /\ \E size \in Sizes : disk' = Last(EnsureStages(size))
          /\ client' = [client EXCEPT ![c].pc = "total", ![c].snap = disk'.man]
          /\ UNCHANGED spurious

\* Discovery of the length, and publish_range_manifest with it.
PublishTotal(c) ==
    /\ At(c, "total") /\ Here(c).snap.total = 0
    /\ UNCHANGED World
    /\ IF Load # "ok" \/ Here(c).snap.extents # << >> \/ ~Rebase(Here(c).snap, man, {}, FALSE)
       THEN IdentityError(c) /\ UNCHANGED disk
       ELSE /\ disk' = [disk EXCEPT !.man.total = Total]
            /\ client' = [client EXCEPT ![c].snap = disk'.man]
            /\ UNCHANGED spurious

\* No origin tells the length: a reader fails, a fill tries a full GET.
NoTotal(c) ==
    /\ At(c, "total") /\ Here(c).snap.total = 0
    /\ IF c \in Fillers THEN Go(c, "fullget") /\ UNCHANGED spurious ELSE Fails(c)
    /\ UNCHANGED <<disk, World>>

\* The startup chunk comes first, for it defines the prefix.
FirstChunk(c) ==
    /\ At(c, "total") /\ Here(c).snap.total # 0
    /\ LET needed == IF c \in Readers THEN Here(c).snap.prefix = << >>
                     ELSE Here(c).snap.extents = << >>
       IN client' = [client EXCEPT ![c].pc = IF needed THEN "admit" ELSE "plan",
                                   ![c].range = <<0, AtMost(Total, StartupChunk)>>,
                                   ![c].snap = EmptyDisk.man, ![c].todo = {NoRange}]
    /\ UNCHANGED <<disk, World, spurious>>

\* The chunks of the request or of the fill.
Plan(c) ==
    /\ At(c, "plan")
    /\ UNCHANGED <<disk, World>>
    /\ IF Load # "ok" THEN IdentityError(c)
       ELSE /\ client' = [client EXCEPT ![c].pc = "next", ![c].range = NoRange,
                  ![c].todo = IF c \in Readers
                              THEN PlannedForegroundChunks(man.total, Here(c).want, man.extents)
                              ELSE PlannedGaps(man.total, Here(c).want, man.extents)]
            /\ UNCHANGED spurious

NextChunk(c) ==
    /\ At(c, "next")
    /\ \/ \E r \in Here(c).todo :
            client' = [client EXCEPT ![c].pc = "admit", ![c].range = r]
       \/ Here(c).todo = {} /\ Go(c, "finish")
    /\ UNCHANGED <<disk, World, spurious>>

\* What the fetch of a chunk knew is dropped.
Forget(c) == [Here(c) EXCEPT !.snap = EmptyDisk.man, !.left = {}, !.cand = First,
                             !.obs = First, !.etag = Unbound, !.retried = FALSE]

\* The span is durable: the next one, or the plan after the startup chunk.
SpanEnds(c) ==
    client' = [client EXCEPT ![c] = [Forget(c) EXCEPT
        !.pc = IF Here(c).todo = {NoRange} THEN "plan" ELSE "next",
        !.todo = @ \ {Here(c).range}, !.range = NoRange, !.passes = 0]]

-----------------------------------------------------------------------------
(* One span (ensure_range_span).                                            *)

\* Read admission, then under the lock: durable already, or a flight to own or
\* to wait for.
Admit(c) ==
    /\ At(c, "admit")
    /\ UNCHANGED <<disk, World>>
    /\ \/ Load # "ok" /\ IdentityError(c)
       \/ /\ Load = "ok" /\ RangeIsCovered(man.extents, Here(c).range)
          /\ IF ReadDurable(Here(c).range) = "ok"
             THEN SpanEnds(c) /\ UNCHANGED spurious ELSE IdentityError(c)
       \/ /\ Load = "ok" /\ ~RangeIsCovered(man.extents, Here(c).range)
          /\ Go(c, IF \E d \in Flights : Here(d).range = Here(c).range THEN "wait" ELSE "own")
          /\ UNCHANGED spurious

\* The flight ended, or 50 ms passed.
Wake(c) ==
    /\ At(c, "wait")
    /\ Go(c, "admit")
    /\ UNCHANGED <<disk, World, spurious>>

\* The owner has its permit and looks once more before it fetches.
Own(c) ==
    /\ At(c, "own")
    /\ UNCHANGED <<disk, World>>
    /\ CASE ReadDurable(Here(c).range) = "ok" -> SpanEnds(c) /\ UNCHANGED spurious
         [] ReadDurable(Here(c).range) = "identity" -> IdentityError(c)
         [] ReadDurable(Here(c).range) = "none" ->
              /\ client' = [client EXCEPT ![c].pc = "try", ![c].left = Origins]
              /\ UNCHANGED spurious

-----------------------------------------------------------------------------
(* fetch_range_chunk: candidate after candidate, in the order of the history. *)

NextCandidate(c) ==
    client' = [client EXCEPT ![c] = [Forget(c) EXCEPT !.pc = "try", !.left = Here(c).left,
                                                      !.retried = Here(c).retried]]

\* The origins that may answer a request to a URL of o.
Via(o) == IF o = First THEN Origins ELSE {o}

Try(c, o) ==
    /\ At(c, "try") /\ o \in Here(c).left
    /\ UNCHANGED <<disk, World>>
    /\ IF Load # "ok" THEN IdentityError(c)
       ELSE /\ client' = [client EXCEPT
                  ![c].pc = IF man.prefix # << >> /\ man.origins[o] = Unbound
                            THEN "verify" ELSE "send",
                  ![c].snap = man, ![c].cand = o, ![c].left = @ \ {o}]
            /\ UNCHANGED spurious

\* No candidate is left.  A fill that found no Range support for its startup
\* chunk falls back to a full GET.
NoCandidate(c) ==
    /\ At(c, "try") /\ Here(c).left = {}
    /\ UNCHANGED <<disk, World>>
    /\ IF c \in Fillers /\ Here(c).todo = {NoRange}
       THEN Go(c, "fullget") /\ UNCHANGED spurious ELSE Fails(c)

\* verify_candidate_prefix with verify_candidate_samples: origin p serves the
\* durable prefix and the sampled durable bytes.
Verified(c, p) ==
    LET snap == Here(c).snap
    IN /\ Digest(content[p], <<0, Len(snap.prefix)>>) = snap.prefix
       /\ \A s \in SelectSamples(snap.extents, Len(snap.prefix)) :
            Digest(content[p], s) = Digest(disk.bytes, s)

\* A candidate without a binding is verified before its bytes are asked for.
Verify(c) ==
    /\ At(c, "verify")
    /\ \E p \in Via(Here(c).cand) :
        IF Verified(c, p)
        THEN client' = [client EXCEPT ![c].pc = "bind", ![c].obs = p, ![c].etag = etag[p]]
        ELSE NextCandidate(c)
    /\ UNCHANGED <<disk, World, spurious>>

\* publish_validated_origin: compare and set of the binding of c's origin.
PublishOrigin(c, next) ==
    LET o == Here(c).obs
        snap == Here(c).snap
    IN /\ UNCHANGED World
       /\ \/ /\ Load = "ok" /\ Rebase(snap, man, {o}, TRUE)
             /\ man.origins[o] \in {Here(c).etag, snap.origins[o]}
             /\ disk' = [disk EXCEPT !.man.origins[o] = Here(c).etag]
             /\ client' = [client EXCEPT ![c].pc = next, ![c].snap = disk'.man]
             /\ UNCHANGED spurious
          \/ /\ Load = "ok" => \/ ~Rebase(snap, man, {o}, TRUE)
                              \/ man.origins[o] \notin {Here(c).etag, snap.origins[o]}
             /\ IdentityError(c)
             /\ UNCHANGED disk

Bind(c) == At(c, "bind") /\ PublishOrigin(c, "send")

MustRevalidate_KnownOnly(c, o) ==
    /\ Here(c).snap.prefix # << >>
    /\ Here(c).snap.origins[o] \notin {Unbound, etag[o]}

\* Bytes from an origin that is not the validated one, or under another
\* validator.
MustRevalidate(c, o) ==
    /\ Here(c).snap.prefix # << >>
    /\ Here(c).snap.origins[o] # etag[o]

\* The answer of the candidate, with the origin that gave it after redirects.
Send(c) ==
    /\ At(c, "send")
    /\ \E o \in Via(Here(c).cand) :
        client' = [client EXCEPT
            ![c].pc = IF MustRevalidate(c, o) THEN "reverify" ELSE "commit",
            ![c].left = IF MustRevalidate(c, o) THEN @ ELSE {},
            ![c].obs = o, ![c].etag = etag[o], ![c].cand = First]
    /\ UNCHANGED <<disk, World, spurious>>

\* The prefix must now come from the origin that gave the bytes.
Reverify(c) ==
    /\ At(c, "reverify")
    /\ IF Verified(c, Here(c).obs)
       THEN client' = [client EXCEPT ![c].pc = "rebind", ![c].left = {}]
       ELSE NextCandidate(c)
    /\ UNCHANGED <<disk, World, spurious>>

Rebind(c) == At(c, "rebind") /\ PublishOrigin(c, "commit")

\* A request fails and the next candidate follows, or an answer is refused
\* for good.
RequestFails(c) ==
    /\ client[c].pc \in {"verify", "send", "reverify"}
    /\ \/ NextCandidate(c) /\ UNCHANGED spurious
       \/ At(c, "send") /\ Fails(c)
    /\ UNCHANGED <<disk, World>>

\* check_priority_control: a fill yields to foreground work, a session goes.
Preempted(c) ==
    /\ client[c].pc \in {"admit", "own", "try", "verify", "send", "reverify", "maintain"}
    /\ IF At(c, "maintain") THEN SpanEnds(c) /\ UNCHANGED spurious ELSE Fails(c)
    /\ UNCHANGED <<disk, World>>

-----------------------------------------------------------------------------
(* Publication of an extent, and maintenance.                               *)

\* verify_extent_bytes over the extents that meet the range: they hash to their
\* digests and agree with the bytes that arrived.
OverlapsAgree(c) ==
    \A i \in DOMAIN man.extents :
        LET e == RangeOf(man.extents[i])
        IN Meets(e, Here(c).range) =>
            /\ Digest(disk.bytes, e) = man.extents[i].sha
            /\ \A p \in Bytes(e) \cap Bytes(Here(c).range) :
                disk.bytes[p] = content[Here(c).obs][p]

\* The commit may go on with the checkpoint it finds.
MayCommit(c) ==
    /\ Load = "ok"
    /\ ExtentRebase(Here(c).snap, man, Here(c).obs)
    /\ man.origins[Here(c).obs] \in {Unbound, Here(c).etag}
    /\ OverlapsAgree(c)

Fits(c) == Len(CommittedManifest(c).extents) <= MaxChunks

\* commit_range_extent_with_failure succeeds.
Commit(c) ==
    /\ At(c, "commit")
    /\ MayCommit(c) /\ Fits(c)
    /\ disk' = IF RangeIsCovered(man.extents, Here(c).range) THEN disk
               ELSE Last(CommitStages(c))
    /\ client' = [client EXCEPT ![c] = [Forget(c) EXCEPT !.pc = "maintain"]]
    /\ UNCHANGED <<World, spurious>>

\* The checkpoint has no room: the span compacts and tries again.
CommitFull(c) ==
    /\ At(c, "commit")
    /\ MayCommit(c) /\ ~Fits(c)
    /\ IF Here(c).passes < MaxPasses
       THEN /\ client' = [client EXCEPT ![c] = [Forget(c) EXCEPT !.pc = "squeeze"]]
            /\ UNCHANGED spurious
       ELSE Fails(c)
    /\ UNCHANGED <<disk, World>>

\* Another span moved the validator of the origin: one more fetch.
CommitStale(c) ==
    /\ At(c, "commit") /\ ~Here(c).retried
    /\ Load = "ok" /\ StaleValidator(Here(c).snap, man, Here(c).obs)
    /\ client' = [client EXCEPT ![c] = [Forget(c) EXCEPT
                      !.pc = "try", !.left = Origins, !.retried = TRUE]]
    /\ UNCHANGED <<disk, World, spurious>>

CommitRefused(c) ==
    /\ At(c, "commit") /\ ~MayCommit(c)
    /\ (Load = "ok" /\ StaleValidator(Here(c).snap, man, Here(c).obs)) => Here(c).retried
    /\ IdentityError(c)
    /\ UNCHANGED <<disk, World>>

\* compact_one_complete_range_parent with the write admission.
Compacted ==
    LET run == FirstCompaction(man.extents, man.total, Whole)
    IN [disk EXCEPT !.man.extents = CoalesceSelected(@, run, Digest(disk.bytes, run))]

CanCompact == Load = "ok" /\ man.total # 0
              /\ FirstCompaction(man.extents, man.total, Whole) # NoRange

\* After a full checkpoint, once no span holds the read admission.
Squeeze(c) ==
    /\ At(c, "squeeze") /\ Admitted = {}
    /\ disk' = IF CanCompact THEN Compacted ELSE disk
    /\ client' = [client EXCEPT ![c].pc = "admit", ![c].passes = @ + 1]
    /\ UNCHANGED <<World, spurious>>

\* After a success: parents are compacted one by one while nothing is in
\* flight, once for a reader and up to the bound for a fill.
Maintain(c) ==
    /\ At(c, "maintain")
    /\ UNCHANGED World
    /\ \/ /\ Flights # {} \/ ~CanCompact
          /\ SpanEnds(c)
          /\ UNCHANGED <<disk, spurious>>
       \/ /\ Admitted = {} /\ CanCompact
          /\ disk' = Compacted
          /\ IF c \in Readers \/ Here(c).passes >= MaxPasses THEN SpanEnds(c)
             ELSE client' = [client EXCEPT ![c].passes = @ + 1]
          /\ UNCHANGED spurious

-----------------------------------------------------------------------------
(* Completion.                                                              *)

\* The end of ensure_range_inner and of fill_missing_ranges.
Finish(c) ==
    /\ At(c, "finish")
    /\ UNCHANGED <<disk, World>>
    /\ \/ c \in Readers /\ CompletedReady = "ready" /\ Fails(c)
       \/ c \in Readers /\ CompletedReady = "identity" /\ IdentityError(c)
       \/ /\ c \in Readers => CompletedReady = "none"
          /\ CASE Load # "ok" -> IdentityError(c)
               [] Load = "ok" /\ c \in Fillers /\ RangeIsCovered(man.extents, Whole)
                    -> Go(c, "finalize") /\ UNCHANGED spurious
               [] OTHER -> Fails(c)

\* finalize_range_resource: all of it is there and verified, and the completed
\* path is free or already holds the data object.
MayFinalize ==
    /\ Load = "ok"
    /\ man.total = Total
    /\ DurableExtentBytes(man.extents) = Total
    /\ RangeIsCovered(man.extents, Whole)
    /\ \A i \in DOMAIN man.extents :
        Digest(disk.bytes, RangeOf(man.extents[i])) = man.extents[i].sha
    /\ disk.final \in {"none", "data"}

Finalize(c) ==
    /\ At(c, "finalize")
    /\ UNCHANGED World
    /\ \/ MayFinalize /\ disk' = Last(FinalizeStages) /\ Fails(c)
       \/ /\ ~MayFinalize
          /\ UNCHANGED disk
          /\ IF Load = "none" /\ disk.meta THEN Fails(c) ELSE IdentityError(c)

\* fill_full_get_compat up to the whole temporary file, for an empty checkpoint:
\* the one the fill ensured, which only a fill replaces.
FullGet(c) ==
    /\ At(c, "fullget")
    /\ IF man.extents # << >> THEN Fails(c)
       ELSE /\ client' = [client EXCEPT ![c].pc = "publish", ![c].snap = man]
            /\ UNCHANGED spurious
    /\ UNCHANGED <<disk, World>>

FullGetFails(c) ==
    /\ client[c].pc \in {"fullget", "publish"}
    /\ Fails(c)
    /\ UNCHANGED <<disk, World>>

MayPublish(c) ==
    /\ Load = "ok" /\ Rebase(Here(c).snap, man, {}, FALSE)
    /\ man.extents = << >>
    /\ disk.final = "none" /\ ~disk.meta

\* Its publication in the place of the checkpoint.
FullGetPublishes(c) ==
    /\ At(c, "publish")
    /\ UNCHANGED World
    /\ \/ MayPublish(c) /\ disk' = Last(FullGetStages) /\ Fails(c)
       \/ /\ ~MayPublish(c)
          /\ UNCHANGED disk
          /\ IF Load = "ok" /\ man.extents # << >> THEN Fails(c) ELSE IdentityError(c)

-----------------------------------------------------------------------------
(* Interruptions and the origins.                                           *)

\* The files the section c is in writes.
Stages(c) ==
    CASE At(c, "ensure") /\ Load = "none" /\ CompletedReady = "none" -> EnsureStages(Total)
      [] At(c, "commit") /\ MayCommit(c) /\ Fits(c)
           /\ ~RangeIsCovered(man.extents, Here(c).range) -> CommitStages(c)
      [] At(c, "finalize") /\ MayFinalize -> FinalizeStages
      [] At(c, "publish") /\ MayPublish(c) -> FullGetStages
      [] OTHER -> << >>

\* The process dies, or a file operation fails, between two of them.
Interrupt(c) ==
    /\ rolls + hurts < MaxTroubles
    /\ \E k \in 1 .. Len(Stages(c)) : disk' = Front(<<disk>> \o Stages(c))[k]
    /\ \/ client' = [d \in Clients |-> Idle]
       \/ Done(c)
    /\ hurts' = hurts + 1
    /\ UNCHANGED <<content, etag, rolls, spurious>>

\* An origin changes its validator for the same bytes.
Roll(o) ==
    /\ rolls + hurts < MaxTroubles
    /\ etag' = [etag EXCEPT ![o] = 3 - @]
    /\ rolls' = rolls + 1
    /\ UNCHANGED <<disk, client, content, hurts, spurious>>

-----------------------------------------------------------------------------

Step(c) ==
    \/ Ensure(c) \/ PublishTotal(c) \/ NoTotal(c) \/ FirstChunk(c) \/ Plan(c) \/ NextChunk(c)
    \/ Admit(c) \/ Wake(c) \/ Own(c)
    \/ (\E o \in Origins : Try(c, o)) \/ NoCandidate(c)
    \/ Verify(c) \/ Bind(c) \/ Send(c) \/ Reverify(c) \/ Rebind(c)
    \/ Commit(c) \/ CommitFull(c) \/ CommitStale(c) \/ CommitRefused(c)
    \/ Squeeze(c) \/ Maintain(c) \/ Finish(c) \/ Finalize(c)
    \/ FullGet(c) \/ FullGetPublishes(c)

Next ==
    \/ \E c \in Clients :
        \/ \E r \in Requests : StartRead(c, r)
        \/ StartFill(c)
        \/ Step(c)
        \/ RequestFails(c) \/ Preempted(c) \/ FullGetFails(c)
        \/ Interrupt(c)
    \/ \E o \in Origins : Roll(o)

Spec == Init /\ [][Next]_vars

-----------------------------------------------------------------------------
(* Properties.                                                              *)

Pcs == {"idle", "ensure", "total", "plan", "next", "admit", "wait", "own", "try",
        "verify", "bind", "send", "reverify", "rebind", "commit", "squeeze", "maintain",
        "finish", "finalize", "fullget", "publish"}

TypeOK ==
    /\ disk.partial \in BOOLEAN /\ disk.meta \in BOOLEAN /\ disk.saved \in BOOLEAN
    /\ disk.final \in {"none", "data", "full"}
    /\ disk.bytes \in [Positions -> {"x", "y", Hole}]
    /\ \A c \in Clients : client[c].pc \in Pcs /\ client[c].left \subseteq Origins

\* A completed resource is whole: metadata is only ever beside a completed file
\* without a hole.
CompletedIsWhole ==
    disk.meta => /\ disk.final # "none"
                 /\ disk.final = "data" => \A p \in Positions : disk.bytes[p] # Hole

\* Checkpoint and metadata tell the truth, whatever was interrupted: the
\* extents are in order, disjoint and within the resource, their digests, and
\* the prefix, are those of the bytes in the data file, and what is complete is
\* whole.
CheckpointIsBacked ==
    /\ TypeOK /\ CompletedIsWhole
    /\ disk.saved /\ DataFound(disk) =>
        /\ WellFormed(man.extents, man.total)
        /\ \A i \in DOMAIN man.extents :
            Digest(disk.bytes, RangeOf(man.extents[i])) = man.extents[i].sha
        /\ man.prefix = Digest(disk.bytes, <<0, Len(man.prefix)>>)
        /\ (man.prefix = << >>) <=> (man.extents = << >>)

\* The durable bytes come from one representation, although candidates redirect,
\* change validators and race: an origin that serves another file never
\* contributes to them.
OneRepresentation ==
    disk.saved => \A p, q \in Durable(man.extents) : disk.bytes[p] = disk.bytes[q]

\* Merging extents and committing others never invalidate what a concurrent
\* span fetched: without a moved validator, a failed file operation or a
\* completed file, no client gets an identity error.
NoSpuriousIdentityError == ~spurious

\* Two representations are told apart, and one is never taken for two.
RepresentationIsExact == OneRepresentation /\ NoSpuriousIdentityError

\* The extent algorithms are exact on every checkpoint a commit leaves.
ExtentsMatchReference ==
    disk.saved /\ man.total # 0 /\ (\E c \in Clients : At(c, "maintain")) =>
        MatchesReference(man.extents, man.total, Len(man.prefix))

Available == IF disk.meta THEN Positions
             ELSE IF disk.saved THEN Durable(man.extents) ELSE {}

\* Bytes that were durable stay so, across commits, compaction, completion and
\* interruptions.
DurableBytesStay == [][Available \subseteq Available']_vars
=============================================================================
