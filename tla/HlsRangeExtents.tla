-------------------------- MODULE HlsRangeExtents ---------------------------
(***************************************************************************)
(* The extent lists of the range checkpoint (hls_cache.rs): what they cover, *)
(* what is missing, how a resource is cut into parents and chunks, which run *)
(* of extents may be merged, and which durable bytes another CDN is sampled   *)
(* on.  A range is a pair <<start, end>>, end exclusive; an extent carries   *)
(* the digest of its bytes.                                                  *)
(***************************************************************************)
EXTENDS Integers, Sequences, FiniteSets, SequencesExt, FiniteSetsExt

CONSTANTS
    StartupChunk,     \* RANGE_STARTUP_CHUNK_BYTES
    ForegroundChunk,  \* RANGE_FOREGROUND_CHUNK_BYTES
    MinChunk,         \* RANGE_MIN_CHUNK_BYTES
    MaxChunk,         \* RANGE_MAX_CHUNK_BYTES
    MaxChunks,        \* RANGE_MAX_CHUNKS
    SampleBytes       \* HLS_CROSS_CDN_SAMPLE_BYTES

AtMost(a, b) == IF a < b THEN a ELSE b
AtLeast(a, b) == IF a < b THEN b ELSE a
Clamp(x, low, high) == AtMost(AtLeast(x, low), high)
DivCeil(a, b) == (a + b - 1) \div b

NoRange == <<0, 0>>

\* The bytes of a range.
Bytes(r) == r[1] .. (r[2] - 1)
Meets(r, s) == r[1] < s[2] /\ s[1] < r[2]
RangeOf(e) == <<e.start, e.end>>

\* The bytes an extent list accounts for: the reference for what follows.
Durable(extents) == UNION {Bytes(RangeOf(extents[i])) : i \in DOMAIN extents}

\* The test validate_range_manifest makes of an extent list.
WellFormed(extents, total) ==
    /\ Len(extents) <= MaxChunks
    /\ \A i \in DOMAIN extents :
        /\ extents[i].start < extents[i].end
        /\ total > 0 => extents[i].end <= total
        /\ i > 1 => extents[i - 1].end <= extents[i].start

DurableExtentBytes(extents) ==
    LET bytes[i \in 0 .. Len(extents)] ==
            IF i = 0 THEN 0 ELSE bytes[i - 1] + (extents[i].end - extents[i].start)
    IN bytes[Len(extents)]

-----------------------------------------------------------------------------

RangeIsCovered_Touches(extents, r) ==
    /\ r[1] < r[2]
    /\ \E i \in DOMAIN extents : Meets(RangeOf(extents[i]), r)

\* The cursor passes every extent that begins no later than it.
Reach(extents, start) ==
    LET cursor[i \in 0 .. Len(extents)] ==
            IF i = 0 THEN start
            ELSE IF extents[i].start > cursor[i - 1] THEN cursor[i - 1]
            ELSE AtLeast(cursor[i - 1], extents[i].end)
    IN cursor[Len(extents)]

RangeIsCovered(extents, r) == r[1] < r[2] /\ Reach(extents, r[1]) >= r[2]

\* What the scan for the gaps of r knows after an extent.
Scanned(acc, e, r) ==
    IF e.end <= acc.cursor \/ e.start >= r[2] \/ acc.cursor >= r[2] THEN acc
    ELSE [gaps |-> IF acc.cursor < e.start
                   THEN Append(acc.gaps, <<acc.cursor, AtMost(e.start, r[2])>>)
                   ELSE acc.gaps,
          cursor |-> AtLeast(acc.cursor, AtMost(e.end, r[2]))]

\* The gaps of r from left to right.
MissingRangesWithin(extents, r) ==
    LET scan[i \in 0 .. Len(extents)] ==
            IF i = 0 THEN [gaps |-> << >>, cursor |-> r[1]] ELSE Scanned(scan[i - 1], extents[i], r)
        end == scan[Len(extents)]
    IN IF r[1] >= r[2] THEN << >>
       ELSE IF end.cursor < r[2] THEN Append(end.gaps, <<end.cursor, r[2]>>)
       ELSE end.gaps

MissingRanges(extents, total) ==
    LET Step(acc, e) ==
            [gaps |-> IF acc.cursor < e.start
                      THEN Append(acc.gaps, <<acc.cursor, e.start>>) ELSE acc.gaps,
             cursor |-> AtLeast(acc.cursor, e.end)]
        end == FoldLeft(Step, [gaps |-> << >>, cursor |-> 0], extents)
    IN IF end.cursor < total THEN Append(end.gaps, <<end.cursor, total>>)
       ELSE end.gaps

-----------------------------------------------------------------------------

\* The size of the parents after the startup chunk.
ParentSize(total) ==
    Clamp(DivCeil(total - AtMost(total, StartupChunk), AtLeast(MaxChunks - 1, 1)),
          MinChunk, MaxChunk)

\* planned_range_chunks: the startup chunk, then parents of one size.
PlannedRangeChunks(total) ==
    LET first == AtMost(total, StartupChunk)
        size == ParentSize(total)
        Parent(k) == <<first + (k - 2) * size, AtMost(first + (k - 1) * size, total)>>
    IN IF total = 0 THEN << >>
       ELSE [k \in 1 .. 1 + DivCeil(total - first, size) |->
                IF k = 1 THEN <<0, first>> ELSE Parent(k)]

\* logical_range_parent: the parent of an offset, computed without the plan.
LogicalRangeParent(total, offset) ==
    LET first == AtMost(total, StartupChunk)
        size == ParentSize(total)
        start == first + ((offset - first) \div size) * size
    IN IF total = 0 \/ offset >= total THEN NoRange
       ELSE IF offset < first THEN <<0, first>>
       ELSE <<start, AtMost(start + size, total)>>

\* planned_foreground_range_chunks: the small chunks of the parents a request
\* touches that it meets and that are not durable yet.
PlannedForegroundChunks(total, r, extents) ==
    LET wanted == <<r[1], AtMost(r[2], total)>>
        Cut(p) == {<<p[1] + k * ForegroundChunk,
                     AtMost(p[1] + (k + 1) * ForegroundChunk, p[2])>> :
                     k \in 0 .. DivCeil(p[2] - p[1], ForegroundChunk) - 1}
        parents == {LogicalRangeParent(total, o) : o \in Bytes(wanted)}
    IN IF total = 0 \/ r[1] >= r[2] \/ r[1] >= total THEN {}
       ELSE {c \in UNION {Cut(p) : p \in parents} :
                Meets(c, wanted) /\ ~RangeIsCovered(extents, c)}

\* The chunks a fill asks for: the gaps of the parents that meet r.
PlannedGaps(total, r, extents) ==
    UNION {ToSet(MissingRangesWithin(extents, p)) :
             p \in {q \in ToSet(PlannedRangeChunks(total)) : Meets(q, r)}}

-----------------------------------------------------------------------------

\* fragmented_extent_run_in_parent: the first run of at least two adjacent
\* extents inside a parent that is fully covered.  A run is never longer than
\* MaxChunk, for a parent is not.
FragmentedRun(extents, p) ==
    LET inside == {i \in DOMAIN extents : p[1] <= extents[i].start /\ extents[i].end <= p[2]}
        pairs == {i \in inside : i + 1 \in inside /\ extents[i].end = extents[i + 1].start}
        last(i) == Max({j \in inside : j > i /\ \A k \in i .. j - 1 : k \in pairs})
    IN IF ~RangeIsCovered(extents, p) \/ pairs = {} THEN NoRange
       ELSE <<extents[Min(pairs)].start, extents[last(Min(pairs))].end>>

\* first_complete_parent_compaction, over the parents that meet r in order.
FirstCompaction(extents, total, r) ==
    LET parents == {p \in ToSet(PlannedRangeChunks(total)) :
                       Meets(p, r) /\ FragmentedRun(extents, p) # NoRange}
        first == CHOOSE p \in parents : \A q \in parents : p[1] <= q[1]
    IN IF parents = {} THEN NoRange ELSE FragmentedRun(extents, first)

\* The extents of a set by their start: the one with k - 1 before it is the kth.
InOrder(S) ==
    [k \in 1 .. Cardinality(S) |->
        CHOOSE e \in S : Cardinality({d \in S : d.start < e.start}) = k - 1]

Outside(extents, run) == {e \in ToSet(extents) : ~(run[1] <= e.start /\ e.end <= run[2])}

CoalesceSelected_Drops(extents, run, sha) == InOrder(Outside(extents, run))

\* coalesce_selected_range: one extent, with digest sha, for those inside run.
CoalesceSelected(extents, run, sha) ==
    InOrder(Outside(extents, run) \cup {[start |-> run[1], end |-> run[2], sha |-> sha]})

-----------------------------------------------------------------------------

\* select_cross_cdn_sample_ranges: around the first, the middle and the last
\* durable byte after the prefix, without overlaps.
SelectSamples(extents, prefix) ==
    LET intervals == SelectSeq([i \in DOMAIN extents |->
                                   <<AtLeast(extents[i].start, prefix), extents[i].end>>],
                               LAMBDA r : r[1] < r[2])
        before(k) == FoldSeq(LAMBDA r, n : n + (r[2] - r[1]), 0,
                             SubSeq(intervals, 1, k - 1))
        available == before(Len(intervals) + 1)
        Holder(t) == CHOOSE k \in DOMAIN intervals :
                        /\ before(k) <= t
                        /\ t < before(k) + (intervals[k][2] - intervals[k][1])
        Sample(t) ==
            LET r == intervals[Holder(t)]
                length == AtMost(r[2] - r[1], SampleBytes)
                center == r[1] + (t - before(Holder(t)))
                start == Clamp(AtLeast(center - length \div 2, 0), r[1], r[2] - length)
            IN <<start, start + length>>
        Pick(chosen, t) ==
            IF \E s \in chosen : Meets(s, Sample(t)) THEN chosen
            ELSE chosen \cup {Sample(t)}
    IN IF available = 0 THEN {}
       ELSE FoldLeft(Pick, {}, <<0, (available - 1) \div 2, available - 1>>)

-----------------------------------------------------------------------------

\* What the list algorithms promise, in terms of sets of bytes, for an extent
\* list of a resource of this length: coverage and gaps are exact, the plans
\* tile the resource and agree on its parents, a run to merge lies within one
\* covered parent, and samples are durable bytes after the prefix.
MatchesReference(extents, total, prefix) ==
    LET ranges == {r \in (0 .. total) \X (0 .. total) : r[1] < r[2]}
        planned == PlannedRangeChunks(total)
        run == FirstCompaction(extents, total, <<0, total>>)
    IN /\ \A r \in ranges :
            LET gaps == MissingRangesWithin(extents, r)
                small == PlannedForegroundChunks(total, r, extents)
                bytes == UNION {Bytes(c) : c \in small}
            IN /\ RangeIsCovered(extents, r) <=> Bytes(r) \subseteq Durable(extents)
               /\ UNION {Bytes(gaps[i]) : i \in DOMAIN gaps}
                    = Bytes(r) \ Durable(extents)
               /\ Bytes(r) \ Durable(extents) \subseteq bytes
               /\ \A c \in small : Meets(c, r) /\ c[2] - c[1] <= ForegroundChunk
       /\ ToSet(MissingRanges(extents, total))
            = ToSet(MissingRangesWithin(extents, <<0, total>>))
       /\ \A o \in Bytes(<<0, total>>) :
            {planned[k] : k \in {j \in DOMAIN planned : o \in Bytes(planned[j])}}
               = {LogicalRangeParent(total, o)}
       /\ Len(planned) <= MaxChunks
       /\ run # NoRange =>
            /\ Bytes(run) \subseteq Durable(extents)
            /\ run[2] - run[1] <= MaxChunk
            /\ \E k \in DOMAIN planned : Bytes(run) \subseteq Bytes(planned[k])
            /\ Len(CoalesceSelected(extents, run, <<>>)) < Len(extents)
       /\ \A s \in SelectSamples(extents, prefix) :
            Bytes(s) \subseteq {b \in Durable(extents) : b >= prefix}
=============================================================================
