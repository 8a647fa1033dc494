------------------------- MODULE HlsRangeAdmission --------------------------
(***************************************************************************)
(* Admission to the cached byte ranges of a session (HlsRangeCache of       *)
(* hls_range_cache.rs), and the clients that go through it: fills and       *)
(* foreground reads (RangeActivity, and the RangeFlight of the chunk they   *)
(* fetch or wait for: ensure_range_span of hls_cache.rs), publications of a *)
(* session's manifest (SessionPublicationGuard), removals of a session      *)
(* (HlsSessionRemovalGuard) and the drain at shutdown.                      *)
(*                                                                         *)
(* Each method locks RangeState once and is one action; what a client holds *)
(* between two actions is what its guards will release when they drop.      *)
(***************************************************************************)
EXTENDS Integers, FiniteSets

CONSTANTS
    Clients,       \* requests, fills, publications and removals in progress
    Sessions,
    Chunks,        \* RangeChunkKeys
    SessionOf,     \* the session a chunk belongs to
    Parallelism,   \* permits of chunk_permits
    MayAbandon,    \* whether a caller may go away while its removal drains
    None

ASSUME AdmissionAssumption ==
    /\ IsFiniteSet(Clients)
    /\ SessionOf \in [Chunks -> Sessions]
    /\ Parallelism \in Nat \ {0}
    /\ MayAbandon \in BOOLEAN
    /\ None \notin Chunks \cup Sessions

VARIABLES
    active,             \* RangeState.active
    active_sessions,    \* RangeState.active_sessions, 0 where there is no entry
    active_foreground,  \* RangeState.active_foreground
    removing, retired, unpublished, published, shutting_down,
    flights,            \* RangeState.flights: the chunks with a flight
    interest,           \* FlightState.foreground_interest of those flights
    permits,            \* free permits of chunk_permits
    covered,            \* chunks covered by durable extents
    client,             \* what each client does and holds
    drain               \* where drain() is

stateVars == <<removing, retired, unpublished, published, shutting_down>>
countVars == <<active, active_sessions, active_foreground>>
flightVars == <<flights, interest, permits, covered>>
vars == <<active, active_sessions, active_foreground, removing, retired,
          unpublished, published, shutting_down, flights, interest, permits,
          covered, client, drain>>

Priorities == {"Foreground", "Background"}
Modes == {"Fresh", "Refresh", "OwnedCompletion", "OwnedRestoration"}

\* A client inside a RangeActivity is at one of these; the others hold a flight.
FlightPcs == {"owner", "fetching", "committed", "waiting"}
ActivityPcs == {"entered"} \cup FlightPcs

Client == [pc : {"idle", "publishing", "draining", "removing"} \cup ActivityPcs,
           session : Sessions \cup {None},
           priority : Priorities \cup {None},  \* of the activity
           mode : Modes \cup {None},           \* of the publication
           chunk : Chunks \cup {None},
           stale : BOOLEAN]                    \* the flight waited for has ended

IdleClient == [pc |-> "idle", session |-> None, priority |-> None,
               mode |-> None, chunk |-> None, stale |-> FALSE]

TypeOK ==
    /\ active \in Nat
    /\ active_sessions \in [Sessions -> Nat]
    /\ active_foreground \in Nat
    /\ removing \in SUBSET Sessions
    /\ retired \in SUBSET Sessions
    /\ unpublished \in SUBSET Sessions
    /\ published \in SUBSET Sessions
    /\ shutting_down \in BOOLEAN
    /\ flights \in SUBSET Chunks
    /\ interest \in [Chunks -> Nat]
    /\ permits \in Nat
    /\ covered \in SUBSET Chunks
    /\ client \in [Clients -> Client]
    /\ drain \in {"no", "draining", "done"}

Init ==
    /\ active = 0
    /\ active_sessions = [s \in Sessions |-> 0]
    /\ active_foreground = 0
    /\ removing = {} /\ retired = {} /\ unpublished = {} /\ published = {}
    /\ shutting_down = FALSE
    /\ flights = {}
    /\ interest = [k \in Chunks |-> 0]
    /\ permits = Parallelism
    /\ covered = {}
    /\ client = [c \in Clients |-> IdleClient]
    /\ drain = "no"

-----------------------------------------------------------------------------
(* Guards.                                                                  *)

IsForeground(c) == client[c].priority = "Foreground"

Open_IgnoresRetired(s) ==
    /\ ~shutting_down
    /\ s \notin removing \cup unpublished

\* The test that opens enter, claim_chunk, reserve and check_priority_control.
Open(s) ==
    /\ ~shutting_down
    /\ s \notin removing \cup retired \cup unpublished

\* One more guard of session s, of a client of priority p.
CountGuard(s, p) ==
    /\ active' = active + 1
    /\ active_sessions' = [active_sessions EXCEPT ![s] = @ + 1]
    /\ active_foreground' = active_foreground + (IF p = "Foreground" THEN 1 ELSE 0)

FinishActivity_CountsTwice(s, p) ==
    /\ active' = active - 2
    /\ active_sessions' = [active_sessions EXCEPT ![s] = @ - 1]
    /\ active_foreground' = active_foreground - (IF p = "Foreground" THEN 1 ELSE 0)

\* finish_activity.  Its saturating subtractions never saturate; see
\* CountersMatchGuards.
FinishActivity(s, p) ==
    /\ active' = active - 1
    /\ active_sessions' = [active_sessions EXCEPT ![s] = @ - 1]
    /\ active_foreground' = active_foreground - (IF p = "Foreground" THEN 1 ELSE 0)

-----------------------------------------------------------------------------
(* Reads and fills.                                                         *)

Enter(c, s, p) ==
    /\ client[c].pc = "idle"
    /\ Open(s)
    /\ CountGuard(s, p)
    /\ client' = [client EXCEPT ![c].pc = "entered", ![c].session = s,
                                ![c].priority = p]
    /\ UNCHANGED <<stateVars, flightVars, drain>>

Promoted(k) == k \in flights /\ interest[k] > 0

\* check_priority_control, when the caller's own token says Continue: a fill
\* yields to foreground work unless a foreground read shares its chunk.
MayContinue(c, k) ==
    /\ Open(client[c].session)
    /\ (~IsForeground(c) /\ active_foreground > 0) => Promoted(k)

\* claim_chunk, under the publication lock that shows the chunk not covered.
ClaimOwner(c, k) ==
    /\ client[c].pc = "entered" /\ client[c].session = SessionOf[k]
    /\ MayContinue(c, k)
    /\ k \notin covered
    /\ k \notin flights
    /\ flights' = flights \cup {k}
    /\ interest' = [interest EXCEPT ![k] = IF IsForeground(c) THEN 1 ELSE 0]
    /\ client' = [client EXCEPT ![c].pc = "owner", ![c].chunk = k]
    /\ UNCHANGED <<countVars, stateVars, permits, covered, drain>>

ClaimWaiter(c, k) ==
    /\ client[c].pc = "entered" /\ client[c].session = SessionOf[k]
    /\ MayContinue(c, k)
    /\ k \notin covered
    /\ k \in flights
    /\ interest' = [interest EXCEPT ![k] = @ + (IF IsForeground(c) THEN 1 ELSE 0)]
    /\ client' = [client EXCEPT ![c].pc = "waiting", ![c].chunk = k]
    /\ UNCHANGED <<countVars, stateVars, flights, permits, covered, drain>>

\* acquire_chunk_permit, then the second look at the durable extents.
AcquirePermit(c) ==
    /\ client[c].pc = "owner"
    /\ MayContinue(c, client[c].chunk)
    /\ permits > 0
    /\ permits' = permits - 1
    /\ client' = [client EXCEPT ![c].pc =
                    IF client[c].chunk \in covered THEN "committed" ELSE "fetching"]
    /\ UNCHANGED <<countVars, stateVars, flights, interest, covered, drain>>

\* fetch_and_commit_range_extent succeeded.
Commit(c) ==
    /\ client[c].pc = "fetching"
    /\ covered' = covered \cup {client[c].chunk}
    /\ client' = [client EXCEPT ![c].pc = "committed"]
    /\ UNCHANGED <<countVars, stateVars, flights, interest, permits, drain>>

\* The owner's RangeFlight and permit drop: after a commit, an error, a
\* preemption, or because the request went away.  finish_flight.
DropOwner(c) ==
    LET k == client[c].chunk
    IN /\ client[c].pc \in {"owner", "fetching", "committed"}
       /\ flights' = flights \ {k}
       /\ permits' = IF client[c].pc = "owner" THEN permits ELSE permits + 1
       /\ client' = [d \in Clients |->
            IF d = c THEN [client[c] EXCEPT !.pc = "entered", !.chunk = None]
            ELSE IF client[d].pc = "waiting" /\ client[d].chunk = k
            THEN [client[d] EXCEPT !.stale = TRUE] ELSE client[d]]
       /\ UNCHANGED <<countVars, stateVars, interest, covered, drain>>

ReleaseInterest_Keeps(c) == interest

\* release_foreground_interest: on whatever flight the chunk has now.
ReleaseInterest(c) ==
    LET k == client[c].chunk
    IN IF IsForeground(c) /\ k \in flights /\ interest[k] > 0
       THEN [interest EXCEPT ![k] = @ - 1] ELSE interest

\* A waiter was notified, or 50 ms passed; it drops its handle and looks again.
DropWaiter(c) ==
    /\ client[c].pc = "waiting"
    /\ interest' = ReleaseInterest(c)
    /\ client' = [client EXCEPT ![c].pc = "entered", ![c].chunk = None,
                                ![c].stale = FALSE]
    /\ UNCHANGED <<countVars, stateVars, flights, permits, covered, drain>>

\* The RangeActivity drops.
Leave(c) ==
    /\ client[c].pc = "entered"
    /\ FinishActivity(client[c].session, client[c].priority)
    /\ client' = [client EXCEPT ![c] = IdleClient]
    /\ UNCHANGED <<stateVars, flightVars, drain>>

-----------------------------------------------------------------------------
(* Publications.                                                            *)

\* The part of begin_session_publication that depends on the mode.
Publishable(s, mode) ==
    IF mode = "Fresh" THEN s \notin published /\ active_sessions[s] = 0
                      ELSE s \notin unpublished

BeginPublication(c, s, mode) ==
    /\ client[c].pc = "idle"
    /\ ~shutting_down
    /\ s \notin removing \cup retired
    /\ Publishable(s, mode)
    /\ unpublished' = IF mode = "Fresh" THEN unpublished \cup {s} ELSE unpublished
    /\ CountGuard(s, "Background")
    /\ client' = [client EXCEPT ![c].pc = "publishing", ![c].session = s,
                                ![c].mode = mode]
    /\ UNCHANGED <<removing, retired, published, shutting_down, flightVars, drain>>

\* SessionPublicationGuard::commit.
CommitPublication(c) ==
    LET s == client[c].session
    IN /\ client[c].pc = "publishing"
       /\ unpublished' = IF client[c].mode = "Fresh" THEN unpublished \ {s}
                                                     ELSE unpublished
       /\ published' = published \cup {s}
       /\ FinishActivity(s, "Background")
       /\ client' = [client EXCEPT ![c] = IdleClient]
       /\ UNCHANGED <<removing, retired, shutting_down, flightVars, drain>>

\* The manifest could not be saved: the guard drops uncommitted.
DropPublication(c) ==
    /\ client[c].pc = "publishing"
    /\ FinishActivity(client[c].session, "Background")
    /\ client' = [client EXCEPT ![c] = IdleClient]
    /\ UNCHANGED <<stateVars, flightVars, drain>>

-----------------------------------------------------------------------------
(* Removal and shutdown.                                                    *)

Idle_Always(s) == TRUE

Idle(s) == active_sessions[s] = 0

TryBeginRemoval(c, s) ==
    /\ client[c].pc = "idle"
    /\ ~shutting_down
    /\ s \notin removing
    /\ Idle(s)
    /\ removing' = removing \cup {s}
    /\ client' = [client EXCEPT ![c].pc = "removing", ![c].session = s]
    /\ UNCHANGED <<countVars, retired, unpublished, published, shutting_down,
                   flightVars, drain>>

\* begin_session_removal closes the session at once ...
BeginRemoval(c, s) ==
    /\ client[c].pc = "idle"
    /\ ~shutting_down
    /\ s \notin removing
    /\ removing' = removing \cup {s}
    /\ client' = [client EXCEPT ![c].pc = "draining", ![c].session = s]
    /\ UNCHANGED <<countVars, retired, unpublished, published, shutting_down,
                   flightVars, drain>>

\* ... and has its guard when the last user has left.
RemovalDrained(c) ==
    /\ client[c].pc = "draining"
    /\ Idle(client[c].session)
    /\ client' = [client EXCEPT ![c].pc = "removing"]
    /\ UNCHANGED <<countVars, stateVars, flightVars, drain>>

\* The call that waits is dropped (the client of CancelTask disconnected)
\* before it has a guard: nothing takes the session out of `removing'.
AbandonRemoval(c) ==
    /\ MayAbandon
    /\ client[c].pc = "draining"
    /\ client' = [client EXCEPT ![c] = IdleClient]
    /\ UNCHANGED <<countVars, stateVars, flightVars, drain>>

\* The session's files are gone; HlsSessionRemovalGuard::commit.
CommitRemoval(c) ==
    LET s == client[c].session
    IN /\ client[c].pc = "removing"
       /\ removing' = removing \ {s}
       /\ unpublished' = unpublished \ {s}
       /\ published' = published \ {s}
       /\ retired' = retired \cup {s}
       /\ covered' = {k \in covered : SessionOf[k] # s}
       /\ client' = [client EXCEPT ![c] = IdleClient]
       /\ UNCHANGED <<countVars, shutting_down, flights, interest, permits, drain>>

\* Deleting the files failed: the guard drops uncommitted.
DropRemoval(c) ==
    /\ client[c].pc = "removing"
    /\ removing' = removing \ {client[c].session}
    /\ client' = [client EXCEPT ![c] = IdleClient]
    /\ UNCHANGED <<countVars, retired, unpublished, published, shutting_down,
                   flightVars, drain>>

DrainStart ==
    /\ drain = "no"
    /\ shutting_down' = TRUE
    /\ drain' = "draining"
    /\ UNCHANGED <<countVars, removing, retired, unpublished, published,
                   flightVars, client>>

DrainDone_AfterRemovals ==
    /\ drain = "draining"
    /\ active = 0 /\ removing = {}
    /\ drain' = "done"
    /\ UNCHANGED <<countVars, stateVars, flightVars, client>>

DrainDone ==
    /\ drain = "draining"
    /\ active = 0
    /\ drain' = "done"
    /\ UNCHANGED <<countVars, stateVars, flightVars, client>>

-----------------------------------------------------------------------------

Read(c) ==
    \/ \E s \in Sessions, p \in Priorities : Enter(c, s, p)
    \/ \E k \in Chunks : ClaimOwner(c, k) \/ ClaimWaiter(c, k)
    \/ AcquirePermit(c)
    \/ Commit(c)
    \/ DropOwner(c)
    \/ DropWaiter(c)
    \/ Leave(c)

Publish(c) ==
    \/ \E s \in Sessions, mode \in Modes : BeginPublication(c, s, mode)
    \/ CommitPublication(c)
    \/ DropPublication(c)

RemoveSession(c) ==
    \/ \E s \in Sessions : TryBeginRemoval(c, s) \/ BeginRemoval(c, s)
    \/ RemovalDrained(c)
    \/ AbandonRemoval(c)
    \/ CommitRemoval(c)
    \/ DropRemoval(c)

\* After the drain, with nothing left to do, the process exits.
Stopped ==
    /\ drain = "done"
    /\ \A c \in Clients : client[c].pc = "idle"
    /\ UNCHANGED vars

Next ==
    \/ \E c \in Clients : Read(c) \/ Publish(c) \/ RemoveSession(c)
    \/ DrainStart
    \/ DrainDone
    \/ Stopped

Spec == Init /\ [][Next]_vars

\* A guard is eventually dropped: fetches time out, the manifest and the files
\* are local, and a request that went away drops its future.  The waits are on
\* a watch channel that every release signals.
Fairness ==
    /\ \A c \in Clients :
          /\ WF_vars(Commit(c) \/ DropOwner(c))
          /\ WF_vars(DropWaiter(c))
          /\ WF_vars(Leave(c))
          /\ WF_vars(CommitPublication(c) \/ DropPublication(c))
          /\ WF_vars(RemovalDrained(c))
          /\ WF_vars(CommitRemoval(c) \/ DropRemoval(c))
    /\ WF_vars(DrainDone)

FairSpec == Spec /\ Fairness

-----------------------------------------------------------------------------
(* Properties.                                                              *)

\* Clients that hold a RangeActivity or a publication guard of session s.
Holders(s) == {c \in Clients : /\ client[c].pc \in ActivityPcs \cup {"publishing"}
                               /\ client[c].session = s}

ForegroundReaders == {c \in Clients : client[c].pc \in ActivityPcs /\ IsForeground(c)}

\* The counters are exactly the guards that are alive, whatever the order of
\* the drops: a session never looks idle while it is used, nor busy for ever,
\* and active_foreground -= 1 never underflows.
CountersMatchGuards ==
    /\ \A s \in Sessions : active_sessions[s] = Cardinality(Holders(s))
    /\ active_foreground = Cardinality(ForegroundReaders)
    /\ active = Cardinality(UNION {Holders(s) : s \in Sessions})

\* While a removal holds its guard it is alone on the session: no fill, read
\* or publication can see its files disappear, and no second removal runs.
RemovalIsExclusive ==
    \A c \in Clients : client[c].pc = "removing" =>
        /\ Holders(client[c].session) = {}
        /\ \A d \in Clients \ {c} :
              ~(client[d].pc \in {"draining", "removing"}
                /\ client[d].session = client[c].session)

\* A removed session never serves or is published again ("ordinary manifest
\* saves never reopen a retired session").
RetiredStaysClosed == \A s \in retired : Holders(s) = {}

\* A first publication is closed to everybody else until it commits, also when
\* it failed and is retried.
UnpublishedIsClosed ==
    \A s \in unpublished : \A c, d \in Holders(s) :
        c = d /\ client[c].pc = "publishing" /\ client[c].mode = "Fresh"

\* Nobody uses a session that is not open: neither one that was removed nor one
\* whose first publication has not committed.
ClosedStaysClosed == RetiredStaysClosed /\ UnpublishedIsClosed

\* A refresh, a completion or a restoration never revokes a session that was
\* published, not even for a moment.
PublishedStaysOpen == published \cap unpublished = {}

\* Fetches are deduplicated: a chunk has at most one fetcher, and a chunk that
\* is durable is not fetched again.
OneFetcherPerChunk ==
    \A c, d \in Clients :
        client[c].pc \in {"owner", "fetching", "committed"} =>
            /\ client[c].chunk \in flights
            /\ client[c].pc = "fetching" => client[c].chunk \notin covered
            /\ (client[d].pc \in {"owner", "fetching", "committed"}
                /\ client[d].chunk = client[c].chunk) => c = d

\* A flight is never credited with more foreground interest than it has: a
\* fill that no foreground read waits for yields to foreground work.  (It may
\* be credited with less: release_foreground_interest does not check that the
\* handle belongs to the flight the chunk has now, as finish_flight does.)
InterestIsNeverOverstated ==
    \A k \in flights :
        interest[k] <= Cardinality({c \in Clients :
            client[c].chunk = k /\ IsForeground(c) /\ ~client[c].stale})

\* Concurrent reads and fills of a chunk share one fetch, and its priority is
\* never more than the reads that share it justify.
FlightsAreExact == OneFetcherPerChunk /\ InterestIsNeverOverstated

\* Shutdown leaves no reader or writer behind.
DrainedStaysEmpty ==
    drain = "done" => \A s \in Sessions : Holders(s) = {}

(* What makes the invariants above inductive.                               *)

HoldPcs == ActivityPcs \cup {"publishing"}
RemoverPcs == {"draining", "removing"}

\* What a client holds fits the point it is at.
Shapes ==
    \A c \in Clients :
        /\ client[c].pc \in HoldPcs \cup RemoverPcs => client[c].session \in Sessions
        /\ client[c].pc \in ActivityPcs => client[c].priority \in Priorities
        /\ client[c].pc \in FlightPcs <=> client[c].chunk # None
        /\ client[c].stale => client[c].pc = "waiting"

\* A removal has marked its session, and it is the only one that has.
RemoversMark ==
    /\ \A c \in Clients : client[c].pc \in RemoverPcs => client[c].session \in removing
    /\ \A c, d \in Clients :
          /\ client[c].pc \in RemoverPcs /\ client[d].pc \in RemoverPcs
          /\ client[c].session = client[d].session
          => c = d

DrainFlag == shutting_down <=> drain # "no"

\* Nobody is left of a removal that was begun: its caller went away.
Abandoned(s) ==
    /\ s \in removing
    /\ \A c \in Clients : client[c].pc \in {"draining", "removing"} => client[c].session # s

\* A removal closes its session only for a while: its users drain, it gets its
\* guard, and the session leaves `removing', retired or open again, unless its
\* caller goes away; and the drain at shutdown ends.
RemovalEnds ==
    /\ \A s \in Sessions : (s \in removing) ~> (s \notin removing \/ Abandoned(s))
    /\ (drain = "draining") ~> (drain = "done")
=============================================================================
