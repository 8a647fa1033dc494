------------------------- MODULE BoundedResolution --------------------------
(***************************************************************************)
(* How the adapter resolves an input into at most Limit candidates and     *)
(* knows whether there are more (bbdown_adapter.rs): a video or a season   *)
(* is resolved at once, a collection by a search for the longest prefix    *)
(* that the core accepts, a feed page by page within budgets of calls,     *)
(* requests, source items and bytes.                                       *)
(*                                                                         *)
(* A source is the sequence of its entries: a video, or None for what is   *)
(* not one.  A feed may list a video twice.  Limits are those of the code, *)
(* scaled down.                                                            *)
(***************************************************************************)
EXTENDS Naturals, Sequences, FiniteSets

CONSTANTS
    Sources,       \* [kind, entries]: "whole", "collection" or "feed"
    Limit,         \* candidates that are asked for
    CallItems, CallEntries, CallRequests,     \* budget of one call
    Calls, TotalEntries, TotalRequests,       \* and of one resolution
    Bytes, MaxBytes,  \* what a video takes, and what a resolution may take
    Oversized,     \* videos with a string over the limit
    MaxChanges,    \* bound on the changes of a collection
    None

VARIABLES
    source,      \* the input, as the origin has it now
    sizes,       \* the numbers of entries it had since the resolution began
    pc,          \* "ask", "search", "feed", "done" or "failed"
    search,      \* the prefix search
    best,        \* the entries of the last resolve that succeeded
    budget,      \* calls, requests and entries used, bytes charged
    cursor,      \* where the next page of the feed starts
    seen,        \* videos that were seen in the feed
    candidates,  \* the candidates so far
    truncated,   \* the input has more than the candidates
    changes

vars == <<source, sizes, pc, search, best, budget, cursor, seen, candidates, truncated, changes>>
state == <<search, best, budget, cursor, seen, candidates, truncated>>

Least(S) == CHOOSE x \in S : \A y \in S : x <= y
Greatest(S) == CHOOSE x \in S : \A y \in S : x >= y
Prefix(s, n) == SubSeq(s, 1, IF n < Len(s) THEN n ELSE Len(s))
Videos(s) == SelectSeq(s, LAMBDA e : e # None)
Values(s) == {s[i] : i \in DOMAIN s}

\* One more than the limit, to see whether there are more.
ProbeLimit == Limit + 1

NoBudget == [calls |-> 0, requests |-> 0, entries |-> 0, bytes |-> 0]

Init ==
    /\ source \in Sources /\ sizes = {Len(source.entries)}
    /\ pc = "ask" /\ search = [low |-> 1, high |-> 0] /\ best = None
    /\ budget = NoBudget /\ cursor = 1 /\ seen = {}
    /\ candidates = << >> /\ truncated = FALSE /\ changes = 0

\* The origin gains or loses an entry of a collection.
Change ==
    /\ pc \in {"ask", "search"} /\ source.kind = "collection" /\ changes < MaxChanges
    /\ \E n \in {Len(source.entries) - 1, Len(source.entries) + 1} \ {0} :
          /\ source' = [source EXCEPT !.entries = [i \in 1..n |-> i]]
          /\ sizes' = sizes \cup {n}
    /\ changes' = changes + 1
    /\ UNCHANGED <<pc, state>>

-----------------------------------------------------------------------------
(* The bytes that the candidates take.                                     *)

RECURSIVE TotalBytes(_)
TotalBytes(s) == IF s = << >> THEN 0 ELSE Bytes[Head(s)] + TotalBytes(Tail(s))

\* ensure_resolution_materialization_budget: before anything is materialized.
FitsBudget(s) == Values(s) \cap Oversized = {} /\ TotalBytes(s) <= MaxBytes

\* from_resolved_content: the window of what was resolved.
Materialize(entries) ==
    IF FitsBudget(Prefix(entries, Limit))
    THEN /\ pc' = "done" /\ candidates' = Prefix(entries, Limit)
         /\ truncated' = (Len(entries) > Limit)
         /\ budget' = [budget EXCEPT !.bytes = TotalBytes(Prefix(entries, Limit))]
    ELSE pc' = "failed" /\ UNCHANGED <<candidates, truncated, budget>>

-----------------------------------------------------------------------------
(* The prefix search of a collection.                                      *)

AfterFailedLimit(limit) == [low |-> 1, high |-> limit - 1]
NextLimit(s) == s.low + (s.high - s.low + 1) \div 2
RecordSuccess(s, limit) == [s EXCEPT !.low = limit + 1]
RecordMissing(s, limit) == [s EXCEPT !.high = limit - 1]

\* The core refuses a selection that the collection does not have.
CoreResolves(limit) == Len(source.entries) >= limit

ResolveWhole ==
    /\ pc = "ask" /\ source.kind = "whole"
    /\ Materialize(source.entries)
    /\ UNCHANGED <<source, sizes, search, best, cursor, seen, changes>>

ResolveCollection ==
    /\ pc = "ask" /\ source.kind = "collection"
    /\ IF CoreResolves(ProbeLimit)
       THEN Materialize(Prefix(source.entries, ProbeLimit)) /\ UNCHANGED search
       ELSE /\ pc' = "search" /\ search' = AfterFailedLimit(ProbeLimit)
            /\ UNCHANGED <<candidates, truncated, budget>>
    /\ UNCHANGED <<source, sizes, best, cursor, seen, changes>>

RetryPrefix ==
    /\ pc = "search" /\ search.low <= search.high
    /\ LET limit == NextLimit(search)
       IN  IF CoreResolves(limit)
           THEN search' = RecordSuccess(search, limit) /\ best' = Prefix(source.entries, limit)
           ELSE search' = RecordMissing(search, limit) /\ UNCHANGED best
    /\ UNCHANGED <<source, sizes, pc, budget, cursor, seen, candidates, truncated, changes>>

PrefixFound ==
    /\ pc = "search" /\ search.low > search.high
    /\ IF best = None THEN pc' = "failed" /\ UNCHANGED <<candidates, truncated, budget>>
       ELSE Materialize(best)
    /\ UNCHANGED <<source, sizes, search, best, cursor, seen, changes>>

-----------------------------------------------------------------------------
(* The pages of a feed.                                                    *)

StartFeed ==
    /\ pc = "ask" /\ source.kind = "feed"
    /\ pc' = "feed"
    /\ UNCHANGED <<source, sizes, state, changes>>

Room(total, used, call) == IF total <= used THEN 0 ELSE Least({total - used, call})

\* DynamicMetadataBudget::next_limits; a zero ends the resolution.
NextLimits ==
    [items |-> Room(ProbeLimit, Len(candidates), CallItems),
     entries |-> Room(TotalEntries, budget.entries, CallEntries),
     requests |-> Room(TotalRequests, budget.requests, CallRequests)]

MayCall == budget.calls < Calls /\ \A f \in DOMAIN NextLimits : NextLimits[f] > 0

\* What the core answers: the entries it examined, with a cursor unless it saw
\* the end of the feed or lost its place.
Page(n, requests, lost) ==
    [items |-> Videos(SubSeq(source.entries, cursor, cursor + n - 1)),
     entries |-> n, requests |-> requests,
     stop |-> CASE lost -> "Stopped" [] ~lost /\ cursor + n > Len(source.entries) -> "End" [] OTHER -> "Limit",
     next |-> IF lost \/ cursor + n > Len(source.entries) THEN None ELSE cursor + n]

\* The items of a page, in order: a video once, none beyond the limit.
RECURSIVE Admitted(_, _, _)
Admitted(items, known, chosen) ==
    IF items = << >> THEN [known |-> known, chosen |-> chosen, more |-> FALSE]
    ELSE IF Head(items) \in known THEN Admitted(Tail(items), known, chosen)
    ELSE IF Len(chosen) = Limit THEN [known |-> known \cup {Head(items)}, chosen |-> chosen, more |-> TRUE]
    ELSE Admitted(Tail(items), known \cup {Head(items)}, Append(chosen, Head(items)))

WithinLimits(page) ==
    page.requests <= NextLimits.requests /\ page.entries <= NextLimits.entries /\ Len(page.items) <= NextLimits.items

Recorded(page) ==
    [budget EXCEPT !.calls = @ + 1, !.requests = @ + page.requests, !.entries = @ + page.entries]

WindowIsTruncated_CursorOnly(page) == page.next # None

\* dynamic_metadata_window_is_truncated
WindowIsTruncated(page) == page.next # None \/ page.stop # "End"

MadeProgress(page) == page.requests > 0 \/ page.entries > 0 \/ page.items # << >>

FetchPage(n, requests, lost) ==
    /\ pc = "feed" /\ MayCall /\ cursor + n - 1 <= Len(source.entries)
    /\ LET page == Page(n, requests, lost)
           taken == Admitted(page.items, seen, candidates)
           fresh == SubSeq(taken.chosen, Len(candidates) + 1, Len(taken.chosen))
           bytes == budget.bytes + TotalBytes(fresh)
           stops == page.next = None \/ ~MadeProgress(page)
       IN  IF ~WithinLimits(page) \/ Values(fresh) \cap Oversized # {} \/ bytes > MaxBytes
           THEN pc' = "failed" /\ UNCHANGED <<budget, cursor, seen, candidates, truncated>>
           ELSE /\ budget' = [Recorded(page) EXCEPT !.bytes = bytes]
                /\ seen' = taken.known /\ candidates' = taken.chosen
                /\ cursor' = IF page.next = None THEN cursor ELSE page.next
                /\ truncated' = (taken.more \/ (stops /\ WindowIsTruncated(page)))
                /\ pc' = IF stops \/ taken.more THEN "done" ELSE "feed"
    /\ UNCHANGED <<source, sizes, search, best, changes>>

\* The budget is used up.
BudgetEnds ==
    /\ pc = "feed" /\ ~MayCall
    /\ pc' = "done" /\ truncated' = TRUE
    /\ UNCHANGED <<source, sizes, search, best, budget, cursor, seen, candidates, changes>>

\* The request is cancelled, the deadline passes, or the core fails.
Interrupt ==
    /\ pc \in {"search", "feed"}
    /\ pc' = "failed"
    /\ UNCHANGED <<source, sizes, state, changes>>

Next ==
    \/ Change \/ ResolveWhole \/ ResolveCollection \/ RetryPrefix \/ PrefixFound
    \/ StartFeed
    \/ \E n \in 0..(CallEntries + 1), requests \in 0..CallRequests, lost \in BOOLEAN : FetchPage(n, requests, lost)
    \/ BudgetEnds \/ Interrupt

Spec == Init /\ [][Next]_vars

-----------------------------------------------------------------------------
\* with_candidates
DefaultSelection == IF Len(candidates) = 1 THEN candidates[1] ELSE None

\* The distinct videos of the feed, in the order of the feed.
RECURSIVE Distinct(_, _)
Distinct(s, chosen) ==
    IF s = << >> THEN chosen
    ELSE Distinct(Tail(s), IF Head(s) \in Values(chosen) \cup {None} THEN chosen ELSE Append(chosen, Head(s)))

\* The candidates are the first ones of the input, none twice and none beyond
\* the limit, and a list that is not marked as truncated is complete: what the
\* client is offered as "all" is all there was at some time.
ResolutionIsComplete ==
    pc = "done" =>
        /\ Len(candidates) <= Limit /\ FitsBudget(candidates)
        /\ source.kind = "feed" =>
              /\ candidates = Prefix(Distinct(source.entries, << >>), Len(candidates))
              /\ ~truncated => Len(candidates) = Len(Distinct(source.entries, << >>))
        /\ source.kind # "feed" =>
              LET count == Len(candidates) + (IF truncated THEN 1 ELSE 0)
              IN  /\ Least(sizes \cup {ProbeLimit}) <= count /\ count <= Greatest(sizes)
                  /\ candidates = [i \in 1..Len(candidates) |-> i]
        /\ DefaultSelection # None => Len(candidates) = 1

\* A resolution never asks for more than its budgets, however the pages fall.
BudgetIsKept ==
    /\ budget.calls <= Calls /\ budget.requests <= TotalRequests
    /\ budget.entries <= TotalEntries /\ budget.bytes <= MaxBytes

\* Both, for the candidates of a resolution.
ResolutionIsBounded == ResolutionIsComplete /\ BudgetIsKept
=============================================================================
