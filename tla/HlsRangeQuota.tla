--------------------------- MODULE HlsRangeQuota ----------------------------
(***************************************************************************)
(* The media budget of the range cache: the reservation a fetch of a range  *)
(* takes (reserve, note_file_length and the drop of RangeQuotaLease in      *)
(* hls_range_cache.rs) and how ensure_range_span of hls_cache.rs uses it.   *)
(* The caller measures the managed files first and passes what it saw; the  *)
(* lock of the range cache covers only the reservation itself.              *)
(***************************************************************************)
EXTENDS Naturals, FiniteSetsExt, Functions

CONSTANTS
    Spans,    \* spans being ensured, each under an activity of its session
    Resources,  \* RangeResourceKeys
    MaxLength,  \* bound on the length of a resource
    Quota       \* quota_bytes, nonzero (zero means unlimited)

\* The map of lengths is finite, and lengths and the quota are u64.
ASSUME QuotaAssumption ==
    /\ IsFiniteSet(Resources)
    /\ MaxLength \in Nat
    /\ Quota \in Nat

VARIABLES
    length,   \* bytes on disk of each resource (range_managed_size)
    span,     \* where each client is
    stale     \* history: a reservation was granted on outdated usage

quotaVars == <<length, span, stale>>

Lengths == 0 .. MaxLength

\* usage and measured are what the client read; target and current are its
\* RangeReservation.
Span == [pc : {"idle", "measuring", "measured", "leased", "written", "noted"},
         resource : Resources, end : Lengths, usage : Nat, measured : Lengths,
         target : Lengths, current : Lengths]

NoSpan == [pc |-> "idle", resource |-> CHOOSE r \in Resources : TRUE, end |-> 0,
         usage |-> 0, measured |-> 0, target |-> 0, current |-> 0]

SpansTypeOK ==
    /\ length \in [Resources -> Lengths]
    /\ span \in [Spans -> Span]
    /\ stale \in BOOLEAN

QuotaInit ==
    /\ length = [r \in Resources |-> 0]
    /\ span = [c \in Spans |-> NoSpan]
    /\ stale = FALSE

-----------------------------------------------------------------------------

\* managed_usage_size_bytes.
Usage == SumFunctionOnSet(length, Resources)

Leased == {c \in Spans : span[c].pc \in {"leased", "written", "noted"}}
LeasesOf(r) == {c \in Leased : span[c].resource = r}

\* The largest target and the largest observed length among r's reservations.
LargestTarget(r) == Max({span[c].target : c \in LeasesOf(r)} \cup {0})
Observed(r) == Max({span[c].current : c \in LeasesOf(r)} \cup {0})

SatSub(a, b) == IF a > b THEN a - b ELSE 0

\* What the reservations of each resource may still add to what was observed.
Outstanding == [q \in Resources |-> SatSub(LargestTarget(q), Observed(q))]

\* The usage reserve projects for growing r to end, when the caller saw `usage'
\* bytes in all and `current' bytes of r.
Projected_Alone(r, end, usage, current) == usage + SatSub(end, current)

Projected(r, end, usage, current) ==
    LET currentOfR == Max({current, Observed(r)})
        others == SumFunctionOnSet(Outstanding, Resources \ {r})
    IN usage + others + SatSub(Max({end, LargestTarget(r)}), currentOfR)

-----------------------------------------------------------------------------

\* The span begins with the usage of all managed files ...
MeasureUsage(c, r, end) ==
    /\ span[c].pc = "idle"
    /\ span' = [span EXCEPT ![c].pc = "measuring", ![c].resource = r,
                            ![c].end = end, ![c].usage = Usage]
    /\ UNCHANGED <<length, stale>>

\* ... then with the length of its own resource.
MeasureLength(c) ==
    /\ span[c].pc = "measuring"
    /\ span' = [span EXCEPT ![c].pc = "measured",
                            ![c].measured = length[span[c].resource]]
    /\ UNCHANGED <<length, stale>>

Fits(c) == Projected(span[c].resource, span[c].end, span[c].usage,
                     span[c].measured) <= Quota

Reserve(c) ==
    LET r == span[c].resource
    IN /\ span[c].pc = "measured"
       /\ Fits(c)
       /\ span' = [span EXCEPT ![c].pc = "leased",
                       ![c].target = Max({span[c].end, LargestTarget(r)}),
                       ![c].current = Max({span[c].measured, Observed(r)})]
       /\ stale' = (stale \/ span[c].usage < Usage)
       /\ UNCHANGED length

\* HlsRangeError::QuotaExceeded.
Reject(c) ==
    /\ span[c].pc = "measured"
    /\ ~Fits(c)
    /\ span' = [span EXCEPT ![c] = NoSpan]
    /\ UNCHANGED <<length, stale>>

\* A chunk is written at its offset: the (sparse) file reaches its end.
Grown(c) == Max({length[span[c].resource], span[c].end})

\* The owner of the chunk commits its extent ...
Write(c) ==
    /\ span[c].pc = "leased"
    /\ length' = [length EXCEPT ![span[c].resource] = Grown(c)]
    /\ span' = [span EXCEPT ![c].pc = "written"]
    /\ UNCHANGED stale

\* ... and reports the new length to every reservation of the resource.
NoteFileLength(c) ==
    LET r == span[c].resource
    IN /\ span[c].pc = "written"
       /\ span' = [d \in Spans |->
                     IF d \in LeasesOf(r)
                     THEN [span[d] EXCEPT !.current = Max({@, length[r]}),
                                          !.pc = IF d = c THEN "noted" ELSE @]
                     ELSE span[d]]
       /\ UNCHANGED <<length, stale>>

\* RangeQuotaLease drops: the span is done, failed, or was cancelled, or
\* another client fetched the chunk.
Release(c) ==
    /\ span[c].pc \in {"leased", "written", "noted"}
    /\ span' = [span EXCEPT ![c] = NoSpan]
    /\ UNCHANGED <<length, stale>>

\* A session without active clients is removed with its files.
EvictSession(r) ==
    /\ \A c \in Spans : span[c].pc # "idle" => span[c].resource # r
    /\ length' = [length EXCEPT ![r] = 0]
    /\ UNCHANGED <<span, stale>>

QuotaNext ==
    \/ \E c \in Spans :
          \/ \E r \in Resources, end \in 1 .. MaxLength : MeasureUsage(c, r, end)
          \/ MeasureLength(c)
          \/ Reserve(c)
          \/ Reject(c)
          \/ Write(c)
          \/ NoteFileLength(c)
          \/ Release(c)
    \/ \E r \in Resources : EvictSession(r)

QuotaSpec == QuotaInit /\ [][QuotaNext]_quotaVars

-----------------------------------------------------------------------------
(* Properties.                                                              *)

\* What the files take now and what the reservations allow them to grow to.
Committed == SumFunctionOnSet([r \in Resources |-> Max({length[r], LargestTarget(r)})], Resources)

\* "A nonzero Cache:HlsCacheMaxBytes caps range admission": the partial files
\* and the outstanding reservations stay within the quota.
QuotaCapsAdmission == Committed <= Quota

\* The quota can only be exceeded through a reservation granted on a usage
\* that other writers had outdated; concurrent reservations alone, shared
\* targets and late length reports never oversubscribe it.
OnlyStaleUsageOversubscribes == ~stale => Committed <= Quota
=============================================================================
