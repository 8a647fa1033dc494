---------------------------- MODULE HlsRangeProofs ----------------------------
(*****************************************************************************)
(* Proofs about the range cache, for any finite set of clients and any       *)
(* sessions and chunks.  The type of admission comes first; on top of it an  *)
(* induction on the counters, then one on who may be on a session, then one  *)
(* on flights.  The second part is about the media budget, for any spans,    *)
(* finitely many resources, and any lengths and quota.                       *)
(*****************************************************************************)
EXTENDS HlsRangeAdmission, HlsRangeQuota, InductionFacts

-----------------------------------------------------------------------------
(* Type correctness, and what a client holds at each point.                 *)

\* What the updates of a client's record make of it.
LEMMA ClientRecords ==
    ASSUME NEW r \in Client
    PROVE  /\ \A s \in Sessions, p \in Priorities :
                 [r EXCEPT !.pc = "entered", !.session = s, !.priority = p] \in Client
           /\ \A s \in Sessions, m \in Modes :
                 [r EXCEPT !.pc = "publishing", !.session = s, !.mode = m] \in Client
           /\ \A s \in Sessions, q \in RemoverPcs :
                 [r EXCEPT !.pc = q, !.session = s] \in Client
           /\ \A k \in Chunks, q \in FlightPcs :
                 [r EXCEPT !.pc = q, !.chunk = k] \in Client
           /\ \A q \in FlightPcs \cup RemoverPcs : [r EXCEPT !.pc = q] \in Client
           /\ [r EXCEPT !.pc = "entered", !.chunk = None] \in Client
           /\ [r EXCEPT !.pc = "entered", !.chunk = None, !.stale = FALSE] \in Client
           /\ [r EXCEPT !.stale = TRUE] \in Client
           /\ IdleClient \in Client
  BY ZenonT(60) DEF Client, RemoverPcs, FlightPcs, ActivityPcs, IdleClient

\* Client c's record becomes r.
Moves(c, r) == client' = [client EXCEPT ![c] = r]

\* The actions that change several fields of a client's record keep it a
\* record of a client.
LEMMA ClientMoves ==
    ASSUME TypeOK, NEW c \in Clients,
           \/ \E s \in Sessions, p \in Priorities : Enter(c, s, p)
           \/ \E k \in Chunks : ClaimOwner(c, k) \/ ClaimWaiter(c, k)
           \/ DropWaiter(c)
           \/ \E s \in Sessions, m \in Modes : BeginPublication(c, s, m)
           \/ \E s \in Sessions : TryBeginRemoval(c, s) \/ BeginRemoval(c, s)
    PROVE  client' \in [Clients -> Client]
<1>1. client[c] \in Client
  BY DEF TypeOK
<1>2. ASSUME NEW r \in Client, Moves(c, r) PROVE client' \in [Clients -> Client]
  BY <1>2 DEF Moves, TypeOK
<1>3. ASSUME NEW s \in Sessions, NEW p \in Priorities, Enter(c, s, p)
      PROVE  client' \in [Clients -> Client]
  <2>1. Moves(c, [client[c] EXCEPT !.pc = "entered", !.session = s, !.priority = p])
    BY <1>3 DEF Moves, Enter, TypeOK, Client
  <2> QED
    BY <1>1, <1>2, <2>1, ClientRecords
<1>4. ASSUME NEW k \in Chunks, ClaimOwner(c, k) PROVE client' \in [Clients -> Client]
  <2>1. Moves(c, [client[c] EXCEPT !.pc = "owner", !.chunk = k])
    BY <1>4 DEF Moves, ClaimOwner, TypeOK, Client
  <2>2. [client[c] EXCEPT !.pc = "owner", !.chunk = k] \in Client
    BY <1>1, ClientRecords DEF FlightPcs
  <2> QED
    BY <1>2, <2>1, <2>2
<1>5. ASSUME NEW k \in Chunks, ClaimWaiter(c, k) PROVE client' \in [Clients -> Client]
  <2>1. Moves(c, [client[c] EXCEPT !.pc = "waiting", !.chunk = k])
    BY <1>5 DEF Moves, ClaimWaiter, TypeOK, Client
  <2>2. [client[c] EXCEPT !.pc = "waiting", !.chunk = k] \in Client
    BY <1>1, ClientRecords DEF FlightPcs
  <2> QED
    BY <1>2, <2>1, <2>2
<1>6. CASE DropWaiter(c)
  <2>1. Moves(c, [client[c] EXCEPT !.pc = "entered", !.chunk = None, !.stale = FALSE])
    BY <1>6 DEF Moves, DropWaiter, TypeOK, Client
  <2> QED
    BY <1>1, <1>2, <2>1, ClientRecords
<1>7. ASSUME NEW s \in Sessions, NEW m \in Modes, BeginPublication(c, s, m)
      PROVE  client' \in [Clients -> Client]
  <2>1. Moves(c, [client[c] EXCEPT !.pc = "publishing", !.session = s, !.mode = m])
    BY <1>7 DEF Moves, BeginPublication, TypeOK, Client
  <2> QED
    BY <1>1, <1>2, <2>1, ClientRecords
<1>8. ASSUME NEW s \in Sessions, TryBeginRemoval(c, s) \/ BeginRemoval(c, s)
      PROVE  client' \in [Clients -> Client]
  <2>1. PICK q \in RemoverPcs : Moves(c, [client[c] EXCEPT !.pc = q, !.session = s])
    BY <1>8 DEF Moves, TryBeginRemoval, BeginRemoval, TypeOK, Client, RemoverPcs
  <2> QED
    BY <1>1, <1>2, <2>1, ClientRecords
<1> QED
  BY <1>3, <1>4, <1>5, <1>6, <1>7, <1>8

\* The clients that hold a RangeActivity or a publication guard.
Guards == {c \in Clients : client[c].pc \in HoldPcs}

\* CountersMatchGuards, with the guards of all sessions as one set.
Counters ==
    /\ \A s \in Sessions : active_sessions[s] = Cardinality(Holders(s))
    /\ active_foreground = Cardinality(ForegroundReaders)
    /\ active = Cardinality(Guards)

Base == TypeOK /\ Shapes /\ Counters

\* The sets that are counted are finite.
LEMMA Finite ==
    /\ \A s : IsFiniteSet(Holders(s))
    /\ IsFiniteSet(ForegroundReaders)
    /\ IsFiniteSet(Guards)
<1>1. /\ \A s : Holders(s) \subseteq Clients
      /\ ForegroundReaders \subseteq Clients
      /\ Guards \subseteq Clients
  BY DEF Holders, ForegroundReaders, Guards
<1> QED
  BY <1>1, FS_Subset, AdmissionAssumption DEF AdmissionAssumption

\* A client with a guard has been counted, so finish_activity does not saturate.
LEMMA Counted ==
    ASSUME Base, NEW c \in Clients
    PROVE  /\ client[c].pc \in HoldPcs =>
                 /\ client[c].session \in Sessions
                 /\ active > 0
                 /\ active_sessions[client[c].session] > 0
           /\ (client[c].pc \in ActivityPcs /\ IsForeground(c)) => active_foreground > 0
<1>1. ASSUME NEW S, IsFiniteSet(S), c \in S PROVE Cardinality(S) > 0
  BY <1>1, FS_EmptySet, FS_CardinalityType
<1>2. ASSUME client[c].pc \in HoldPcs
      PROVE  /\ client[c].session \in Sessions
             /\ active > 0
             /\ active_sessions[client[c].session] > 0
  <2>1. client[c].session \in Sessions
    BY <1>2 DEF Base, Shapes
  <2>2. c \in Guards /\ c \in Holders(client[c].session)
    BY <1>2 DEF Guards, Holders, HoldPcs
  <2> QED
    BY <1>1, <2>1, <2>2, Finite DEF Base, Counters
<1>3. ASSUME client[c].pc \in ActivityPcs, IsForeground(c) PROVE active_foreground > 0
  BY <1>1, <1>3, Finite DEF ForegroundReaders, Base, Counters
<1> QED
  BY <1>2, <1>3

\* A step keeps the type; only the counters make the subtractions safe.
LEMMA TypeStep == Base /\ [Next]_vars => TypeOK'
<1> SUFFICES ASSUME Base, [Next]_vars PROVE TypeOK'
  OBVIOUS
<1> USE AdmissionAssumption DEF AdmissionAssumption
<1>t. TypeOK
  BY DEF Base
<1>m. ASSUME NEW c \in Clients, NEW r \in Client, Moves(c, r)
      PROVE  client' \in [Clients -> Client]
  BY <1>t, <1>m DEF Moves, TypeOK
<1>r. \A c \in Clients : client[c] \in Client
  BY <1>t DEF TypeOK
<1>f. ASSUME NEW c \in Clients, client[c].pc \in HoldPcs, NEW p \in Priorities,
             p = "Foreground" => (client[c].pc \in ActivityPcs /\ IsForeground(c)),
             FinishActivity(client[c].session, p)
      PROVE  /\ active' \in Nat /\ active_foreground' \in Nat
             /\ active_sessions' \in [Sessions -> Nat]
  BY <1>t, <1>f, Counted DEF FinishActivity, TypeOK
<1>i. ASSUME NEW c \in Clients, Moves(c, IdleClient) PROVE client' \in [Clients -> Client]
  BY <1>i, <1>m, <1>r, ClientRecords
<1>1. ASSUME NEW c \in Clients, NEW s \in Sessions, NEW p \in Priorities, Enter(c, s, p)
      PROVE  TypeOK'
  <2>1. client' \in [Clients -> Client]
    BY <1>1, <1>t, ClientMoves
  <2> QED
    BY <1>1, <1>t, <2>1 DEF Enter, CountGuard, TypeOK, stateVars, flightVars
<1>2. ASSUME NEW c \in Clients, NEW k \in Chunks, ClaimOwner(c, k) \/ ClaimWaiter(c, k)
      PROVE  TypeOK'
  <2>1. client' \in [Clients -> Client]
    BY <1>2, <1>t, ClientMoves DEF FlightPcs
  <2>2. interest' \in [Chunks -> Nat] /\ flights' \in SUBSET Chunks
    BY <1>2, <1>t DEF ClaimOwner, ClaimWaiter, TypeOK
  <2> QED
    BY <1>2, <1>t, <2>1, <2>2 DEF ClaimOwner, ClaimWaiter, TypeOK, stateVars, countVars
<1>3. ASSUME NEW c \in Clients, AcquirePermit(c) PROVE TypeOK'
  <2>1. client' \in [Clients -> Client]
    BY <1>3, <1>t DEF AcquirePermit, TypeOK, Client, ActivityPcs, FlightPcs
  <2> QED
    BY <1>3, <1>t, <2>1 DEF AcquirePermit, TypeOK, stateVars, countVars
<1>4. ASSUME NEW c \in Clients, Commit(c) PROVE TypeOK'
  <2>1. client' \in [Clients -> Client] /\ client[c].chunk \in Chunks
    BY <1>4, <1>t DEF Commit, TypeOK, Client, ActivityPcs, FlightPcs, Base, Shapes
  <2> QED
    BY <1>4, <1>t, <2>1 DEF Commit, TypeOK, stateVars, countVars
<1>5. ASSUME NEW c \in Clients, DropOwner(c) PROVE TypeOK'
  <2>1. \A d \in Clients : client'[d] \in Client
    BY <1>5, <1>r, ClientRecords DEF DropOwner
  <2>2. client' \in [Clients -> Client]
    BY <1>5, <2>1 DEF DropOwner
  <2> QED
    BY <1>5, <1>t, <2>2 DEF DropOwner, TypeOK, stateVars, countVars
<1>6. ASSUME NEW c \in Clients, DropWaiter(c) PROVE TypeOK'
  <2>1. client' \in [Clients -> Client]
    BY <1>6, <1>t, ClientMoves
  <2>2. interest' \in [Chunks -> Nat]
    BY <1>6, <1>t DEF DropWaiter, ReleaseInterest, TypeOK
  <2> QED
    BY <1>6, <1>t, <2>1, <2>2 DEF DropWaiter, TypeOK, stateVars, countVars
<1>7. ASSUME NEW c \in Clients, Leave(c) PROVE TypeOK'
  <2>1. client[c].priority \in Priorities
    BY <1>7 DEF Leave, Base, Shapes, ActivityPcs
  <2>2. /\ active' \in Nat /\ active_foreground' \in Nat
        /\ active_sessions' \in [Sessions -> Nat]
    BY <1>7, <1>f, <2>1 DEF Leave, HoldPcs, ActivityPcs, IsForeground
  <2> QED
    BY <1>7, <1>t, <1>i, <2>2 DEF Leave, Moves, TypeOK, stateVars, flightVars
<1>8. ASSUME NEW c \in Clients, NEW s \in Sessions, NEW m \in Modes, BeginPublication(c, s, m)
      PROVE  TypeOK'
  <2>1. client' \in [Clients -> Client]
    BY <1>8, <1>t, ClientMoves
  <2> QED
    BY <1>8, <1>t, <2>1 DEF BeginPublication, CountGuard, TypeOK, flightVars
<1>9. ASSUME NEW c \in Clients, CommitPublication(c) \/ DropPublication(c) PROVE TypeOK'
  <2>1. /\ active' \in Nat /\ active_foreground' \in Nat
        /\ active_sessions' \in [Sessions -> Nat]
    BY <1>9, <1>f DEF CommitPublication, DropPublication, HoldPcs, Priorities
  <2>2. client[c].session \in Sessions
    BY <1>9, Counted DEF CommitPublication, DropPublication, HoldPcs
  <2>3. client' \in [Clients -> Client]
    BY <1>9, <1>i DEF CommitPublication, DropPublication, Moves
  <2> QED
    BY <1>9, <1>t, <2>1, <2>2, <2>3
    DEF CommitPublication, DropPublication, TypeOK, stateVars, flightVars
<1>10. ASSUME NEW c \in Clients, NEW s \in Sessions, TryBeginRemoval(c, s) \/ BeginRemoval(c, s)
       PROVE  TypeOK'
  <2>1. client' \in [Clients -> Client]
    BY <1>10, <1>t, ClientMoves DEF RemoverPcs
  <2> QED
    BY <1>10, <1>t, <2>1 DEF TryBeginRemoval, BeginRemoval, TypeOK, countVars, flightVars
<1>11. ASSUME NEW c \in Clients,
              RemovalDrained(c) \/ AbandonRemoval(c) \/ CommitRemoval(c) \/ DropRemoval(c)
       PROVE  TypeOK'
  <2>1. client' \in [Clients -> Client]
    <3>1. CASE RemovalDrained(c)
      BY <3>1, <1>t DEF RemovalDrained, TypeOK, Client
    <3> QED
      BY <1>11, <3>1, <1>i DEF AbandonRemoval, CommitRemoval, DropRemoval, Moves
  <2>2. client[c].session \in Sessions
    BY <1>11 DEF RemovalDrained, AbandonRemoval, CommitRemoval, DropRemoval, Base, Shapes,
                 RemoverPcs
  <2> QED
    BY <1>11, <1>t, <2>1, <2>2
    DEF RemovalDrained, AbandonRemoval, CommitRemoval, DropRemoval, TypeOK, stateVars,
        countVars, flightVars
<1>12. ASSUME DrainStart \/ DrainDone \/ UNCHANGED vars PROVE TypeOK'
  BY <1>12, <1>t DEF DrainStart, DrainDone, TypeOK, vars, stateVars, countVars, flightVars
<1> QED
  BY <1>1, <1>2, <1>3, <1>4, <1>5, <1>6, <1>7, <1>8, <1>9, <1>10, <1>11, <1>12
  DEF Next, Read, Publish, RemoveSession, Stopped

\* A step keeps what a client holds in line with the point it is at.
LEMMA ShapesStep == Base /\ [Next]_vars => Shapes'
<1> SUFFICES ASSUME Base, [Next]_vars PROVE Shapes'
  OBVIOUS
<1> USE AdmissionAssumption DEF AdmissionAssumption, Base, TypeOK, Client, HoldPcs, RemoverPcs,
        ActivityPcs, FlightPcs
<1>i. ASSUME NEW c \in Clients, client' = [client EXCEPT ![c] = IdleClient] PROVE Shapes'
  BY <1>i DEF Shapes, IdleClient
<1>1. ASSUME NEW c \in Clients, NEW s \in Sessions, NEW p \in Priorities, Enter(c, s, p)
      PROVE  Shapes'
  BY <1>1 DEF Shapes, Enter
<1>2. ASSUME NEW c \in Clients, NEW k \in Chunks, ClaimOwner(c, k) \/ ClaimWaiter(c, k)
      PROVE  Shapes'
  BY <1>2 DEF Shapes, ClaimOwner, ClaimWaiter
<1>3. ASSUME NEW c \in Clients, AcquirePermit(c) \/ Commit(c) PROVE Shapes'
  BY <1>3 DEF Shapes, AcquirePermit, Commit
<1>4. ASSUME NEW c \in Clients, DropOwner(c) PROVE Shapes'
  BY <1>4 DEF Shapes, DropOwner
<1>5. ASSUME NEW c \in Clients, DropWaiter(c) PROVE Shapes'
  BY <1>5 DEF Shapes, DropWaiter
<1>6. ASSUME NEW c \in Clients, NEW s \in Sessions, NEW m \in Modes, BeginPublication(c, s, m)
      PROVE  Shapes'
  BY <1>6 DEF Shapes, BeginPublication
<1>7. ASSUME NEW c \in Clients, NEW s \in Sessions, TryBeginRemoval(c, s) \/ BeginRemoval(c, s)
      PROVE  Shapes'
  BY <1>7 DEF Shapes, TryBeginRemoval, BeginRemoval
<1>8. ASSUME NEW c \in Clients, RemovalDrained(c) PROVE Shapes'
  BY <1>8 DEF Shapes, RemovalDrained
<1>9. ASSUME NEW c \in Clients,
             \/ Leave(c) \/ CommitPublication(c) \/ DropPublication(c)
             \/ AbandonRemoval(c) \/ CommitRemoval(c) \/ DropRemoval(c)
      PROVE  Shapes'
  BY <1>9, <1>i DEF Leave, CommitPublication, DropPublication, AbandonRemoval, CommitRemoval,
                    DropRemoval
<1>10. ASSUME client' = client PROVE Shapes'
  BY <1>10 DEF Shapes
<1> QED
  BY <1>1, <1>2, <1>3, <1>4, <1>5, <1>6, <1>7, <1>8, <1>9, <1>10
  DEF Next, Read, Publish, RemoveSession, DrainStart, DrainDone, Stopped, vars

-----------------------------------------------------------------------------
(* The counters.                                                            *)

\* A step that neither takes nor drops a guard.
SameGuards ==
    \A d \in Clients :
        /\ client'[d].pc \in ActivityPcs <=> client[d].pc \in ActivityPcs
        /\ client'[d].pc = "publishing" <=> client[d].pc = "publishing"
        /\ client[d].pc \in HoldPcs =>
              /\ client'[d].session = client[d].session
              /\ client'[d].priority = client[d].priority
              /\ client'[d].mode = client[d].mode

\* Everybody but c stays as it is.
Alone(c) == \A d \in Clients \ {c} : client'[d] = client[d]

\* Which steps take a guard, which drop one and which do neither.
LEMMA GuardSteps ==
    ASSUME Base, [Next]_vars
    PROVE  \/ SameGuards /\ UNCHANGED countVars
           \/ \E c \in Clients, s \in Sessions, p \in Priorities :
                 /\ Enter(c, s, p)
                 /\ Alone(c)
                 /\ client'[c].pc = "entered"
                 /\ client'[c].session = s /\ client'[c].priority = p
           \/ \E c \in Clients, s \in Sessions, m \in Modes :
                 /\ BeginPublication(c, s, m)
                 /\ Alone(c)
                 /\ client'[c].pc = "publishing"
                 /\ client'[c].session = s /\ client'[c].mode = m
           \/ \E c \in Clients :
                 /\ Leave(c) \/ CommitPublication(c) \/ DropPublication(c)
                 /\ Alone(c)
                 /\ client'[c] = IdleClient
<1> USE DEF Base, TypeOK, Client
<1>1. ASSUME NEW c \in Clients, NEW s \in Sessions, NEW p \in Priorities, Enter(c, s, p)
      PROVE  /\ Alone(c) /\ client'[c].pc = "entered"
             /\ client'[c].session = s /\ client'[c].priority = p
  BY <1>1 DEF Enter, Alone
<1>2. ASSUME NEW c \in Clients, NEW s \in Sessions, NEW m \in Modes, BeginPublication(c, s, m)
      PROVE  /\ Alone(c) /\ client'[c].pc = "publishing"
             /\ client'[c].session = s /\ client'[c].mode = m
  BY <1>2 DEF BeginPublication, Alone
<1>3. ASSUME NEW c \in Clients, Leave(c) \/ CommitPublication(c) \/ DropPublication(c)
      PROVE  Alone(c) /\ client'[c] = IdleClient
  BY <1>3 DEF Leave, CommitPublication, DropPublication, Alone
<1>4. ASSUME NEW c \in Clients, NEW k \in Chunks, ClaimOwner(c, k) \/ ClaimWaiter(c, k)
      PROVE  SameGuards /\ UNCHANGED countVars
  BY <1>4 DEF ClaimOwner, ClaimWaiter, SameGuards, HoldPcs, ActivityPcs, FlightPcs
<1>5. ASSUME NEW c \in Clients, AcquirePermit(c) \/ Commit(c) \/ DropOwner(c) \/ DropWaiter(c)
      PROVE  SameGuards /\ UNCHANGED countVars
  <2> USE DEF SameGuards, HoldPcs, ActivityPcs, FlightPcs
  <2>1. CASE AcquirePermit(c) \/ Commit(c)
    BY <2>1 DEF AcquirePermit, Commit
  <2>2. CASE DropOwner(c)
    BY <2>2 DEF DropOwner
  <2>3. CASE DropWaiter(c)
    BY <2>3 DEF DropWaiter
  <2> QED
    BY <1>5, <2>1, <2>2, <2>3
<1>6. ASSUME NEW c \in Clients, NEW s \in Sessions, TryBeginRemoval(c, s) \/ BeginRemoval(c, s)
      PROVE  SameGuards /\ UNCHANGED countVars
  BY <1>6 DEF TryBeginRemoval, BeginRemoval, SameGuards, HoldPcs, ActivityPcs, FlightPcs
<1>7. ASSUME NEW c \in Clients,
             RemovalDrained(c) \/ AbandonRemoval(c) \/ CommitRemoval(c) \/ DropRemoval(c)
      PROVE  SameGuards /\ UNCHANGED countVars
  BY <1>7 DEF RemovalDrained, AbandonRemoval, CommitRemoval, DropRemoval, IdleClient,
              SameGuards, HoldPcs, ActivityPcs, FlightPcs
<1>8. ASSUME DrainStart \/ DrainDone \/ UNCHANGED vars
      PROVE  SameGuards /\ UNCHANGED countVars
  BY <1>8 DEF DrainStart, DrainDone, vars, SameGuards, countVars
<1> HIDE DEF Base, TypeOK, Client
<1>9. ASSUME NEW c \in Clients, Read(c) \/ Publish(c) \/ RemoveSession(c)
      PROVE  \/ SameGuards /\ UNCHANGED countVars
             \/ \E s \in Sessions, p \in Priorities : Enter(c, s, p)
             \/ \E s \in Sessions, m \in Modes : BeginPublication(c, s, m)
             \/ Leave(c) \/ CommitPublication(c) \/ DropPublication(c)
  BY <1>4, <1>5, <1>6, <1>7, <1>9 DEF Read, Publish, RemoveSession
<1> QED
  BY <1>1, <1>2, <1>3, <1>8, <1>9 DEF Next, Stopped

\* The counters follow every step.
LEMMA CountersStep == Base /\ [Next]_vars => Counters'
<1> SUFFICES ASSUME Base, [Next]_vars PROVE Counters'
  OBVIOUS
<1>f. /\ \A s : IsFiniteSet(Holders(s))
      /\ IsFiniteSet(ForegroundReaders) /\ IsFiniteSet(Guards)
  BY Finite
<1>a. ASSUME NEW S, IsFiniteSet(S), NEW x
      PROVE  /\ Cardinality(S) \in Nat
             /\ x \notin S => Cardinality(S \cup {x}) = Cardinality(S) + 1
             /\ x \in S => Cardinality(S \ {x}) = Cardinality(S) - 1
  BY <1>a, FS_AddElement, FS_RemoveElement, FS_CardinalityType
<1>1. CASE SameGuards /\ UNCHANGED countVars
  <2>1. /\ \A s : Holders(s)' = Holders(s)
        /\ ForegroundReaders' = ForegroundReaders /\ Guards' = Guards
    BY <1>1 DEF SameGuards, Holders, ForegroundReaders, Guards, IsForeground, HoldPcs
  <2> QED
    BY <1>1, <2>1 DEF Base, Counters, countVars
<1>2. ASSUME NEW c \in Clients, NEW s \in Sessions, NEW p \in Priorities,
             client[c].pc = "idle", Alone(c), CountGuard(s, p),
             \/ client'[c].pc = "entered" /\ client'[c].priority = p
             \/ client'[c].pc = "publishing" /\ p = "Background",
             client'[c].session = s
      PROVE  Counters'
  <2>1. /\ Holders(s)' = Holders(s) \cup {c} /\ c \notin Holders(s)
        /\ \A t \in Sessions \ {s} : Holders(t)' = Holders(t)
    BY <1>2 DEF Alone, Holders, ActivityPcs, FlightPcs
  <2>2. Guards' = Guards \cup {c} /\ c \notin Guards
    BY <1>2 DEF Alone, Guards, HoldPcs, ActivityPcs, FlightPcs
  <2>3. /\ p = "Foreground" => ForegroundReaders' = ForegroundReaders \cup {c}
        /\ p # "Foreground" => ForegroundReaders' = ForegroundReaders
        /\ c \notin ForegroundReaders
    BY <1>2 DEF Alone, ForegroundReaders, IsForeground, ActivityPcs, FlightPcs
  <2>4. Cardinality(Holders(s)') = Cardinality(Holders(s)) + 1
    BY <1>f, <1>a, <2>1
  <2>5. Cardinality(Guards') = Cardinality(Guards) + 1
    BY <1>f, <1>a, <2>2
  <2>6. Cardinality(ForegroundReaders') =
          Cardinality(ForegroundReaders) + (IF p = "Foreground" THEN 1 ELSE 0)
    <3>1. CASE p = "Foreground"
      <4>1. ForegroundReaders' = ForegroundReaders \cup {c}
        BY <2>3, <3>1
      <4>2. Cardinality(ForegroundReaders \cup {c}) = Cardinality(ForegroundReaders) + 1
        BY <1>f, <1>a, <2>3, <3>1
      <4> QED
        BY <3>1, <4>1, <4>2
    <3>2. CASE p # "Foreground"
      <4>1. Cardinality(ForegroundReaders) \in Nat
        BY <1>f, <1>a
      <4>2. ForegroundReaders' = ForegroundReaders
        BY <2>3, <3>2
      <4> QED
        BY <3>2, <4>1, <4>2
    <3> QED
      BY <3>1, <3>2
  <2> QED
    BY <1>2, <2>1, <2>4, <2>5, <2>6 DEF Base, Counters, TypeOK, CountGuard
<1>3. ASSUME NEW c \in Clients, NEW s \in Sessions, NEW p \in Priorities,
             client[c].pc \in HoldPcs, client[c].session = s,
             Alone(c), client'[c] = IdleClient, FinishActivity(s, p),
             p = "Foreground" <=> (client[c].pc \in ActivityPcs /\ IsForeground(c))
      PROVE  Counters'
  <2>1. /\ Holders(s)' = Holders(s) \ {c} /\ c \in Holders(s)
        /\ \A t \in Sessions \ {s} : Holders(t)' = Holders(t)
    BY <1>3 DEF Alone, Holders, IdleClient, HoldPcs, ActivityPcs, FlightPcs
  <2>2. Guards' = Guards \ {c} /\ c \in Guards
    BY <1>3 DEF Alone, Guards, IdleClient, HoldPcs, ActivityPcs, FlightPcs
  <2>3. /\ p = "Foreground" => /\ ForegroundReaders' = ForegroundReaders \ {c}
                               /\ c \in ForegroundReaders
        /\ p # "Foreground" => ForegroundReaders' = ForegroundReaders
    BY <1>3 DEF Alone, ForegroundReaders, IdleClient, IsForeground, ActivityPcs, FlightPcs
  <2>4. Cardinality(Holders(s)') = Cardinality(Holders(s)) - 1
    BY <1>f, <1>a, <2>1
  <2>5. Cardinality(Guards') = Cardinality(Guards) - 1
    BY <1>f, <1>a, <2>2
  <2>6. Cardinality(ForegroundReaders') =
          Cardinality(ForegroundReaders) - (IF p = "Foreground" THEN 1 ELSE 0)
    <3>1. CASE p = "Foreground"
      <4>1. ForegroundReaders' = ForegroundReaders \ {c}
        BY <2>3, <3>1
      <4>2. Cardinality(ForegroundReaders \ {c}) = Cardinality(ForegroundReaders) - 1
        BY <1>f, <1>a, <2>3, <3>1
      <4> QED
        BY <3>1, <4>1, <4>2
    <3>2. CASE p # "Foreground"
      <4>1. Cardinality(ForegroundReaders) \in Nat
        BY <1>f, <1>a
      <4>2. ForegroundReaders' = ForegroundReaders
        BY <2>3, <3>2
      <4> QED
        BY <3>2, <4>1, <4>2
    <3> QED
      BY <3>1, <3>2
  <2> QED
    BY <1>3, <2>1, <2>4, <2>5, <2>6 DEF Base, Counters, TypeOK, FinishActivity
<1>4. ASSUME NEW c \in Clients, NEW s \in Sessions, NEW p \in Priorities,
             Enter(c, s, p), Alone(c), client'[c].pc = "entered",
             client'[c].session = s, client'[c].priority = p
      PROVE  Counters'
  BY <1>2, <1>4 DEF Enter
<1>5. ASSUME NEW c \in Clients, NEW s \in Sessions, NEW m \in Modes,
             BeginPublication(c, s, m), Alone(c), client'[c].pc = "publishing",
             client'[c].session = s
      PROVE  Counters'
  BY <1>2, <1>5 DEF BeginPublication, Priorities
<1>6. ASSUME NEW c \in Clients, Alone(c), client'[c] = IdleClient, Leave(c) PROVE Counters'
  <2>1. client[c].priority \in Priorities /\ client[c].pc \in ActivityPcs
    BY <1>6 DEF Leave, Base, Shapes, ActivityPcs
  <2>2. client[c].pc \in HoldPcs /\ client[c].session \in Sessions
    BY <2>1, Counted DEF HoldPcs
  <2> QED
    BY <1>3, <1>6, <2>1, <2>2 DEF Leave, IsForeground
<1>7. ASSUME NEW c \in Clients, Alone(c), client'[c] = IdleClient,
             CommitPublication(c) \/ DropPublication(c)
      PROVE  Counters'
  <2>1. client[c].pc \in HoldPcs /\ client[c].pc \notin ActivityPcs
    BY <1>7 DEF CommitPublication, DropPublication, HoldPcs, ActivityPcs, FlightPcs
  <2>2. client[c].session \in Sessions
    BY <2>1, Counted
  <2> QED
    BY <1>3, <1>7, <2>1, <2>2 DEF CommitPublication, DropPublication, Priorities
<1> QED
  BY <1>1, <1>4, <1>5, <1>6, <1>7, GuardSteps

\* The first three parts hold in every reachable state.
LEMMA BaseAlways == Spec => []Base
<1>1. Init => Base
  <2> SUFFICES ASSUME Init PROVE Base
    OBVIOUS
  <2> USE AdmissionAssumption DEF AdmissionAssumption
  <2>1. TypeOK /\ Shapes
    BY DEF Init, TypeOK, Client, IdleClient, Shapes, HoldPcs, RemoverPcs, ActivityPcs, FlightPcs
  <2>2. /\ \A s \in Sessions : Holders(s) = {}
        /\ ForegroundReaders = {} /\ Guards = {}
    BY DEF Init, IdleClient, Holders, ForegroundReaders, Guards, HoldPcs, ActivityPcs, FlightPcs
  <2>3. Counters
    BY <2>2, FS_EmptySet DEF Init, Counters
  <2> QED
    BY <2>1, <2>3 DEF Base
<1>2. Base /\ [Next]_vars => Base'
  BY TypeStep, ShapesStep, CountersStep DEF Base
<1> QED
  BY <1>1, <1>2, PTL DEF Spec

\* Every reachable state has the type the structs of hls_range_cache.rs
\* declare: no counter, interest or permit ever goes below zero.
THEOREM TypeCorrect == Spec => []TypeOK
<1>1. Base => TypeOK
  BY DEF Base
<1> QED
  BY <1>1, BaseAlways, PTL

\* RangeState's counters are exactly the guards that are alive, in every order
\* of enters, publications and drops.
THEOREM CountersMatch == Spec => []CountersMatchGuards
<1>1. Base => CountersMatchGuards
  <2> SUFFICES ASSUME Base PROVE CountersMatchGuards
    OBVIOUS
  <2>1. UNION {Holders(s) : s \in Sessions} = Guards
    BY DEF Base, Shapes, Holders, Guards, HoldPcs
  <2> QED
    BY <2>1 DEF Base, Counters, CountersMatchGuards
<1> QED
  BY <1>1, BaseAlways, PTL

-----------------------------------------------------------------------------
(* Who may be on a session.                                                 *)

\* RemovalIsExclusive, as far as readers and publications are concerned.
RemovalIsAlone ==
    \A c \in Clients, s \in Sessions :
        (client[c].pc = "removing" /\ client[c].session = s) => Holders(s) = {}

Closed ==
    /\ RemoversMark
    /\ RemovalIsAlone
    /\ RetiredStaysClosed
    /\ UnpublishedIsClosed
    /\ PublishedStaysOpen
    /\ DrainFlag
    /\ drain = "done" => Guards = {}

\* A counter at zero means that nobody holds a guard.
LEMMA ZeroMeansNobody ==
    ASSUME Base
    PROVE  /\ \A s \in Sessions : active_sessions[s] = 0 => Holders(s) = {}
           /\ active = 0 => Guards = {}
  BY Finite, FS_EmptySet DEF Base, Counters

\* A step that neither takes nor drops a guard keeps the sets of holders.
LEMMA SameHolders ==
    ASSUME SameGuards
    PROVE  /\ \A s : Holders(s)' = Holders(s)
           /\ Guards' = Guards
  BY DEF SameGuards, Holders, Guards, HoldPcs

\* A step within a read changes nothing that decides who may be on a session.
QuietStep ==
    /\ SameGuards
    /\ UNCHANGED <<stateVars, drain>>
    /\ \A d \in Clients :
          /\ client'[d].pc \in RemoverPcs <=> client[d].pc \in RemoverPcs
          /\ client'[d].pc \in RemoverPcs => client'[d] = client[d]

\* The steps of a read between its first and its last one are quiet.
LEMMA ReadsAreQuiet ==
    ASSUME Base, NEW c \in Clients,
           \/ \E k \in Chunks : ClaimOwner(c, k) \/ ClaimWaiter(c, k)
           \/ AcquirePermit(c) \/ Commit(c) \/ DropOwner(c) \/ DropWaiter(c)
    PROVE  QuietStep
<1> USE DEF QuietStep, SameGuards, RemoverPcs, HoldPcs, ActivityPcs, FlightPcs, Base, TypeOK,
            Client, stateVars
<1>1. ASSUME NEW k \in Chunks, ClaimOwner(c, k) \/ ClaimWaiter(c, k) PROVE QuietStep
  BY <1>1 DEF ClaimOwner, ClaimWaiter
<1>2. CASE AcquirePermit(c) \/ Commit(c)
  BY <1>2 DEF AcquirePermit, Commit
<1>3. CASE DropOwner(c)
  BY <1>3 DEF DropOwner
<1>4. CASE DropWaiter(c)
  BY <1>4 DEF DropWaiter
<1> QED
  BY ONLY <1>1, <1>2, <1>3, <1>4,
          \/ \E k \in Chunks : ClaimOwner(c, k) \/ ClaimWaiter(c, k)
          \/ AcquirePermit(c) \/ Commit(c) \/ DropOwner(c) \/ DropWaiter(c)

\* Every step keeps closed what is closed.
LEMMA ClosedStep == Base /\ Closed /\ [Next]_vars => Closed'
<1> SUFFICES ASSUME Base, Closed, [Next]_vars PROVE Closed'
  OBVIOUS
<1> USE DEF Closed
<1>q. ASSUME QuietStep PROVE Closed'
  <2>1. (\A s : Holders(s)' = Holders(s)) /\ Guards' = Guards
    BY <1>q, SameHolders DEF QuietStep
  <2>2. RemoversMark'
    BY <1>q DEF QuietStep, RemoversMark, RemoverPcs, stateVars
  <2>3. RemovalIsAlone'
    BY <1>q, <2>1 DEF QuietStep, RemovalIsAlone, RemoverPcs
  <2>4. RetiredStaysClosed' /\ PublishedStaysOpen' /\ DrainFlag'
    BY <1>q, <2>1 DEF QuietStep, RetiredStaysClosed, PublishedStaysOpen, DrainFlag, stateVars
  <2>5. UnpublishedIsClosed'
    BY <1>q, <2>1 DEF QuietStep, SameGuards, UnpublishedIsClosed, Holders, HoldPcs, stateVars
  <2> QED
    BY <1>q, <2>1, <2>2, <2>3, <2>4, <2>5 DEF QuietStep
<1>g. ASSUME NEW c \in Clients, NEW s \in Sessions, client[c].pc = "idle", Alone(c),
             client'[c].pc \in {"entered", "publishing"}, client'[c].session = s,
             s \notin removing \cup retired, ~shutting_down,
             UNCHANGED <<removing, retired, shutting_down, drain>>
      PROVE  /\ \A t : Holders(t)' = IF t = s THEN Holders(t) \cup {c} ELSE Holders(t)
             /\ RemoversMark' /\ RemovalIsAlone' /\ RetiredStaysClosed' /\ DrainFlag'
             /\ drain' # "done"
  <2>1. \A t : Holders(t)' = IF t = s THEN Holders(t) \cup {c} ELSE Holders(t)
    BY <1>g DEF Alone, Holders, ActivityPcs, FlightPcs
  <2>2. RemoversMark'
    BY <1>g DEF Alone, RemoversMark, RemoverPcs
  <2>3. RemovalIsAlone'
    BY <1>g, <2>1 DEF Alone, RemovalIsAlone, RemoversMark, RemoverPcs
  <2>4. RetiredStaysClosed' /\ DrainFlag' /\ drain' # "done"
    BY <1>g, <2>1 DEF RetiredStaysClosed, DrainFlag
  <2> QED
    BY <2>1, <2>2, <2>3, <2>4
<1>u. ASSUME NEW c \in Clients, NEW s \in Sessions, client[c].pc = "idle", Alone(c),
             NEW t \in unpublished, t # s,
             Holders(t)' = Holders(t)
      PROVE  \A d, e \in Holders(t)' :
                (d = e /\ client[d].pc = "publishing" /\ client[d].mode = "Fresh")'
  <2>1. c \notin Holders(t) /\ Holders(t) \subseteq Clients
    BY <1>u DEF Holders, ActivityPcs, FlightPcs
  <2> QED
    BY <1>u, <2>1 DEF Alone, UnpublishedIsClosed
<1>d. ASSUME \A d \in Clients : client'[d].pc \in HoldPcs \cup RemoverPcs => client'[d] = client[d],
             \A d \in Clients : client'[d].pc \in RemoverPcs => client[d].session \in removing',
             \A s \in retired' : Holders(s) = {},
             unpublished' \subseteq unpublished,
             published' \cap unpublished' = {},
             DrainFlag',
             drain' = "done" => Guards = {}
      PROVE  Closed'
  <2>1. (\A s : Holders(s)' \subseteq Holders(s)) /\ Guards' \subseteq Guards
    BY <1>d DEF Holders, Guards, HoldPcs
  <2>2. RemoversMark'
    BY <1>d DEF RemoversMark
  <2>3. RemovalIsAlone'
    BY <1>d, <2>1 DEF RemovalIsAlone, RemoverPcs
  <2>4. RetiredStaysClosed' /\ PublishedStaysOpen'
    BY <1>d, <2>1 DEF RetiredStaysClosed, PublishedStaysOpen
  <2>5. UnpublishedIsClosed'
    BY <1>d, <2>1 DEF UnpublishedIsClosed, Holders, HoldPcs
  <2> QED
    BY <1>d, <2>1, <2>2, <2>3, <2>4, <2>5
<1>i. ASSUME NEW c \in Clients, client' = [client EXCEPT ![c] = IdleClient]
      PROVE  /\ \A d \in Clients : client'[d].pc \in HoldPcs \cup RemoverPcs => client'[d] = client[d]
             /\ \A d \in Clients : client'[d].pc \in RemoverPcs => d # c
  BY <1>i DEF Base, TypeOK, IdleClient, HoldPcs, RemoverPcs, ActivityPcs, FlightPcs
<1>1. ASSUME NEW c \in Clients, NEW s \in Sessions, NEW p \in Priorities, Enter(c, s, p)
      PROVE  Closed'
  <2>1. Alone(c) /\ client'[c].pc = "entered" /\ client'[c].session = s
    BY <1>1 DEF Enter, Alone, Base, TypeOK, Client
  <2>2. s \notin unpublished /\ UNCHANGED <<unpublished, published>> /\ client[c].pc = "idle"
    BY <1>1 DEF Enter, Open, stateVars
  <2>3. /\ \A t : Holders(t)' = IF t = s THEN Holders(t) \cup {c} ELSE Holders(t)
        /\ RemoversMark' /\ RemovalIsAlone' /\ RetiredStaysClosed' /\ DrainFlag'
        /\ drain' # "done"
    BY <1>1, <1>g, <2>1 DEF Enter, Open, stateVars
  <2>4. UnpublishedIsClosed'
    BY <1>u, <2>1, <2>2, <2>3 DEF UnpublishedIsClosed
  <2> QED
    BY <2>2, <2>3, <2>4 DEF PublishedStaysOpen
<1>2. ASSUME NEW c \in Clients, NEW s \in Sessions, NEW m \in Modes, BeginPublication(c, s, m)
      PROVE  Closed'
  <2>1. /\ Alone(c) /\ client'[c].pc = "publishing" /\ client'[c].session = s
        /\ client'[c].mode = m
    BY <1>2 DEF BeginPublication, Alone, Base, TypeOK, Client
  <2>2. /\ \A t : Holders(t)' = IF t = s THEN Holders(t) \cup {c} ELSE Holders(t)
        /\ RemoversMark' /\ RemovalIsAlone' /\ RetiredStaysClosed' /\ DrainFlag'
        /\ drain' # "done"
    BY <1>2, <1>g, <2>1 DEF BeginPublication
  <2>3. client[c].pc = "idle" /\ published' = published
    BY <1>2 DEF BeginPublication
  <2>4. CASE m = "Fresh"
    <3>1. s \notin published /\ Holders(s) = {} /\ unpublished' = unpublished \cup {s}
      BY <1>2, <2>4, ZeroMeansNobody DEF BeginPublication, Publishable
    <3>2. Holders(s)' = {c}
      BY <2>2, <3>1
    <3>3. UnpublishedIsClosed'
      BY <1>u, <2>1, <2>2, <2>3, <2>4, <3>1, <3>2 DEF UnpublishedIsClosed
    <3> QED
      BY <2>2, <2>3, <3>1, <3>3 DEF PublishedStaysOpen
  <2>5. CASE m # "Fresh"
    <3>1. s \notin unpublished /\ unpublished' = unpublished
      BY <1>2, <2>5 DEF BeginPublication, Publishable
    <3>2. UnpublishedIsClosed'
      BY <1>u, <2>1, <2>2, <2>3, <3>1 DEF UnpublishedIsClosed
    <3> QED
      BY <2>2, <2>3, <3>1, <3>2 DEF PublishedStaysOpen
  <2> QED
    BY <2>4, <2>5
<1>3. ASSUME NEW c \in Clients, Leave(c) \/ DropPublication(c) \/ AbandonRemoval(c)
      PROVE  Closed'
  <2>1. client' = [client EXCEPT ![c] = IdleClient] /\ UNCHANGED <<stateVars, drain>>
    BY <1>3 DEF Leave, DropPublication, AbandonRemoval
  <2> QED
    BY <1>d, <1>i, <2>1
    DEF stateVars, RemoversMark, RetiredStaysClosed, PublishedStaysOpen, DrainFlag
<1>4. ASSUME NEW c \in Clients, CommitPublication(c) PROVE Closed'
  <2>1. /\ client' = [client EXCEPT ![c] = IdleClient]
        /\ UNCHANGED <<removing, retired, shutting_down, drain>>
        /\ published' = published \cup {client[c].session}
        /\ unpublished' \subseteq unpublished
        /\ client[c].mode = "Fresh" => client[c].session \notin unpublished'
    BY <1>4 DEF CommitPublication
  <2>2. c \in Holders(client[c].session)
    BY <1>4 DEF CommitPublication, Holders
  <2>3. client[c].session \notin unpublished'
    BY <2>1, <2>2 DEF UnpublishedIsClosed
  <2> QED
    BY <1>d, <1>i, <2>1, <2>3
    DEF RemoversMark, RetiredStaysClosed, PublishedStaysOpen, DrainFlag
<1>5. ASSUME NEW c \in Clients, CommitRemoval(c) \/ DropRemoval(c) PROVE Closed'
  <2>1. /\ client' = [client EXCEPT ![c] = IdleClient] /\ client[c].pc = "removing"
        /\ UNCHANGED <<shutting_down, drain>>
        /\ removing' = removing \ {client[c].session}
        /\ retired' \subseteq retired \cup {client[c].session}
        /\ published' \subseteq published /\ unpublished' \subseteq unpublished
    BY <1>5 DEF CommitRemoval, DropRemoval
  <2>2. client[c].session \in Sessions /\ Holders(client[c].session) = {}
    BY <2>1 DEF Base, Shapes, RemoverPcs, RemovalIsAlone
  <2>3. \A d \in Clients : client'[d].pc \in RemoverPcs => client[d].session \in removing'
    BY <1>i, <2>1 DEF RemoversMark, RemoverPcs
  <2> QED
    BY <1>d, <1>i, <2>1, <2>2, <2>3 DEF RetiredStaysClosed, PublishedStaysOpen, DrainFlag
<1>6. ASSUME NEW c \in Clients, NEW s \in Sessions, TryBeginRemoval(c, s) \/ BeginRemoval(c, s)
      PROVE  Closed'
  <2>1. /\ Alone(c) /\ client'[c].session = s /\ client'[c].pc \in RemoverPcs
        /\ client'[c].pc = "removing" => active_sessions[s] = 0
        /\ client[c].pc = "idle" /\ s \notin removing /\ removing' = removing \cup {s}
        /\ UNCHANGED <<retired, unpublished, published, shutting_down, drain>>
    BY <1>6 DEF TryBeginRemoval, BeginRemoval, Alone, Idle, RemoverPcs, Base, TypeOK, Client
  <2>2. SameGuards
    BY <2>1 DEF SameGuards, Alone, RemoverPcs, HoldPcs, ActivityPcs, FlightPcs
  <2>3. (\A t : Holders(t)' = Holders(t)) /\ Guards' = Guards
    BY <2>2, SameHolders
  <2>4. RemoversMark'
    BY <2>1 DEF RemoversMark, Alone
  <2>5. RemovalIsAlone'
    BY <2>1, <2>3, ZeroMeansNobody DEF RemovalIsAlone, Alone
  <2>6. RetiredStaysClosed' /\ PublishedStaysOpen' /\ DrainFlag'
    BY <2>1, <2>3 DEF RetiredStaysClosed, PublishedStaysOpen, DrainFlag
  <2>7. UnpublishedIsClosed'
    BY <2>1, <2>2, <2>3 DEF SameGuards, UnpublishedIsClosed, Holders, HoldPcs
  <2> QED
    BY <2>1, <2>3, <2>4, <2>5, <2>6, <2>7
<1>7. ASSUME NEW c \in Clients, RemovalDrained(c) PROVE Closed'
  <2>1. /\ Alone(c) /\ client'[c].session = client[c].session /\ client'[c].pc = "removing"
        /\ active_sessions[client[c].session] = 0 /\ client[c].pc = "draining"
        /\ UNCHANGED <<removing, retired, unpublished, published, shutting_down, drain>>
    BY <1>7 DEF RemovalDrained, Alone, Idle, Base, TypeOK, Client, stateVars
  <2>2. SameGuards
    BY <2>1 DEF SameGuards, Alone, HoldPcs, ActivityPcs, FlightPcs
  <2>3. (\A t : Holders(t)' = Holders(t)) /\ Guards' = Guards
    BY <2>2, SameHolders
  <2>4. RemoversMark'
    BY <2>1 DEF RemoversMark, RemoverPcs, Alone
  <2>5. RemovalIsAlone'
    BY <2>1, <2>3, ZeroMeansNobody DEF RemovalIsAlone, Alone
  <2>6. RetiredStaysClosed' /\ PublishedStaysOpen' /\ DrainFlag'
    BY <2>1, <2>3 DEF RetiredStaysClosed, PublishedStaysOpen, DrainFlag
  <2>7. UnpublishedIsClosed'
    BY <2>1, <2>2, <2>3 DEF SameGuards, UnpublishedIsClosed, Holders, HoldPcs
  <2> QED
    BY <2>1, <2>3, <2>4, <2>5, <2>6, <2>7
<1>8. ASSUME DrainStart \/ DrainDone PROVE Closed'
  <2>1. /\ UNCHANGED <<removing, retired, unpublished, published, client>>
        /\ DrainFlag'
        /\ drain' = "done" => active = 0
    BY <1>8 DEF DrainStart, DrainDone, DrainFlag, stateVars
  <2> QED
    BY <1>d, <2>1, ZeroMeansNobody DEF RemoversMark, RetiredStaysClosed, PublishedStaysOpen
<1>9. ASSUME UNCHANGED vars PROVE QuietStep
  BY <1>9 DEF vars, QuietStep, SameGuards, stateVars
<1> HIDE DEF Closed
<1>10. ASSUME NEW c \in Clients, Read(c) \/ Publish(c) \/ RemoveSession(c) PROVE Closed'
  BY <1>q, <1>1, <1>2, <1>3, <1>4, <1>5, <1>6, <1>7, <1>10, ReadsAreQuiet
  DEF Read, Publish, RemoveSession
<1> QED
  BY <1>q, <1>8, <1>9, <1>10 DEF Next, Stopped

\* Closed holds in every reachable state.
LEMMA ClosedAlways == Spec => []Closed
<1>1. Init => Closed
  <2> SUFFICES ASSUME Init PROVE Closed
    OBVIOUS
  <2>1. (\A s : Holders(s) = {}) /\ Guards = {}
    BY DEF Init, IdleClient, Holders, Guards, HoldPcs, ActivityPcs, FlightPcs
  <2> QED
    BY <2>1 DEF Init, IdleClient, Closed, RemoversMark, RemovalIsAlone, RetiredStaysClosed,
                UnpublishedIsClosed, PublishedStaysOpen, DrainFlag, RemoverPcs
<1> QED
  BY <1>1, ClosedStep, BaseAlways, PTL DEF Spec

\* A removal that holds its HlsSessionRemovalGuard is alone on the session: no
\* reader, fill, publication or second removal.
THEOREM RemovalExclusive == Spec => []RemovalIsExclusive
<1>1. Base /\ Closed => RemovalIsExclusive
  BY DEF Base, Shapes, Closed, RemovalIsAlone, RemoversMark, RemovalIsExclusive, RemoverPcs
<1> QED
  BY <1>1, BaseAlways, ClosedAlways, PTL

\* Nobody enters or publishes a session that has been removed.
THEOREM RetiredClosed == Spec => []RetiredStaysClosed
<1>1. Closed => RetiredStaysClosed
  BY DEF Closed
<1> QED
  BY <1>1, ClosedAlways, PTL

\* Until its first publication commits, a session is closed to all but that
\* publication.
THEOREM UnpublishedClosed == Spec => []UnpublishedIsClosed
<1>1. Closed => UnpublishedIsClosed
  BY DEF Closed
<1> QED
  BY <1>1, ClosedAlways, PTL

\* Sessions that are not open to readers have none (begin_activity).
THEOREM ClosedAreClosed == Spec => []ClosedStaysClosed
<1>1. RetiredStaysClosed /\ UnpublishedIsClosed => ClosedStaysClosed
  BY DEF ClosedStaysClosed
<1> QED
  BY <1>1, RetiredClosed, UnpublishedClosed, PTL

\* No later publication takes a published session away from its readers.
THEOREM PublishedOpen == Spec => []PublishedStaysOpen
<1>1. Closed => PublishedStaysOpen
  BY DEF Closed
<1> QED
  BY <1>1, ClosedAlways, PTL

\* When drain returns, no reader, fill or publication is left, nor will be.
THEOREM DrainedEmpty == Spec => []DrainedStaysEmpty
<1>1. Closed => DrainedStaysEmpty
  BY DEF Closed, DrainedStaysEmpty, Holders, Guards, HoldPcs
<1> QED
  BY <1>1, ClosedAlways, PTL

-----------------------------------------------------------------------------
(* Flights.                                                                 *)

\* The clients that own the flight of their chunk.
OwnerPcs == {"owner", "fetching", "committed"}

\* Every step keeps the fetchers of a chunk apart.
LEMMA FetcherStep == Base /\ OneFetcherPerChunk /\ [Next]_vars => OneFetcherPerChunk'
<1> SUFFICES ASSUME Base, OneFetcherPerChunk, [Next]_vars PROVE OneFetcherPerChunk'
  OBVIOUS
<1>t. client \in [Clients -> Client]
  BY DEF Base, TypeOK
<1>s. ASSUME \A d \in Clients : client'[d].pc \in OwnerPcs =>
                /\ client[d].pc \in OwnerPcs
                /\ client'[d].chunk = client[d].chunk
                /\ client'[d].pc = client[d].pc,
             flights \subseteq flights', covered' \subseteq covered
      PROVE  OneFetcherPerChunk'
  BY <1>s DEF OneFetcherPerChunk, OwnerPcs
<1>1. ASSUME NEW c \in Clients, NEW k \in Chunks, ClaimOwner(c, k) PROVE OneFetcherPerChunk'
  <2>1. /\ Alone(c) /\ client'[c].pc = "owner" /\ client'[c].chunk = k
        /\ k \notin flights /\ flights' = flights \cup {k} /\ covered' = covered
    BY <1>1, <1>t DEF ClaimOwner, Alone, Client
  <2> QED
    BY <2>1 DEF Alone, OneFetcherPerChunk
<1>2. ASSUME NEW c \in Clients, AcquirePermit(c) \/ Commit(c) PROVE OneFetcherPerChunk'
  <2>1. /\ Alone(c) /\ client'[c].chunk = client[c].chunk
        /\ client[c].pc \in OwnerPcs /\ client'[c].pc \in OwnerPcs
        /\ client'[c].pc = "fetching" => client[c].chunk \notin covered'
        /\ covered' \subseteq covered \cup {client[c].chunk} /\ flights' = flights
    BY <1>2, <1>t DEF AcquirePermit, Commit, Alone, Client, OwnerPcs
  <2> QED
    BY <2>1 DEF Alone, OneFetcherPerChunk, OwnerPcs
<1>3. ASSUME NEW c \in Clients, DropOwner(c) PROVE OneFetcherPerChunk'
  <2>1. /\ client'[c].pc = "entered" /\ client[c].pc \in OwnerPcs
        /\ \A d \in Clients \ {c} : /\ client'[d].pc = client[d].pc
                                    /\ client'[d].chunk = client[d].chunk
        /\ flights' = flights \ {client[c].chunk} /\ covered' = covered
    BY <1>3, <1>t DEF DropOwner, Client, OwnerPcs
  <2> QED
    BY <2>1 DEF OneFetcherPerChunk, OwnerPcs
<1>4. ASSUME NEW c \in Clients, Alone(c), client'[c].pc \notin OwnerPcs,
             flights' = flights, covered' \subseteq covered
      PROVE  OneFetcherPerChunk'
  BY <1>s, <1>4 DEF Alone
<1>5. ASSUME NEW c \in Clients, NEW s \in Sessions, NEW p \in Priorities, Enter(c, s, p)
      PROVE  OneFetcherPerChunk'
  BY <1>4, <1>5, <1>t DEF Enter, Alone, Client, OwnerPcs, flightVars
<1>6. ASSUME NEW c \in Clients, NEW k \in Chunks, ClaimWaiter(c, k) PROVE OneFetcherPerChunk'
  BY <1>4, <1>6, <1>t DEF ClaimWaiter, Alone, Client, OwnerPcs
<1>7. ASSUME NEW c \in Clients, DropWaiter(c) PROVE OneFetcherPerChunk'
  BY <1>4, <1>7, <1>t DEF DropWaiter, Alone, Client, OwnerPcs
<1>8. ASSUME NEW c \in Clients, NEW s \in Sessions, NEW m \in Modes, BeginPublication(c, s, m)
      PROVE  OneFetcherPerChunk'
  BY <1>4, <1>8, <1>t DEF BeginPublication, Alone, Client, OwnerPcs, flightVars
<1>9. ASSUME NEW c \in Clients, NEW s \in Sessions, TryBeginRemoval(c, s) \/ BeginRemoval(c, s)
      PROVE  OneFetcherPerChunk'
  BY <1>4, <1>9, <1>t DEF TryBeginRemoval, BeginRemoval, Alone, Client, OwnerPcs, flightVars
<1>10. ASSUME NEW c \in Clients, RemovalDrained(c) PROVE OneFetcherPerChunk'
  BY <1>4, <1>10, <1>t DEF RemovalDrained, Alone, Client, OwnerPcs, flightVars
<1>11. ASSUME NEW c \in Clients,
              \/ Leave(c) \/ CommitPublication(c) \/ DropPublication(c)
              \/ AbandonRemoval(c) \/ CommitRemoval(c) \/ DropRemoval(c)
       PROVE  OneFetcherPerChunk'
  <2>1. /\ client' = [client EXCEPT ![c] = IdleClient]
        /\ flights' = flights /\ covered' \subseteq covered
    BY <1>11 DEF Leave, CommitPublication, DropPublication, AbandonRemoval, CommitRemoval,
                 DropRemoval, flightVars
  <2> QED
    BY <1>4, <1>t, <2>1 DEF Alone, IdleClient, OwnerPcs
<1>12. ASSUME DrainStart \/ DrainDone \/ UNCHANGED vars PROVE OneFetcherPerChunk'
  BY <1>s, <1>12 DEF DrainStart, DrainDone, vars, flightVars
<1>13. ASSUME NEW c \in Clients, Read(c) \/ Publish(c) \/ RemoveSession(c) PROVE OneFetcherPerChunk'
  BY <1>1, <1>2, <1>3, <1>5, <1>6, <1>7, <1>8, <1>9, <1>10, <1>11, <1>13
  DEF Read, Publish, RemoveSession
<1> QED
  BY <1>12, <1>13 DEF Next, Stopped

\* claim_chunk admits one fetcher of a chunk at a time, and never one of a
\* chunk that is durable.
THEOREM OneFetcher == Spec => []OneFetcherPerChunk
<1>1. Init => OneFetcherPerChunk
  BY DEF Init, IdleClient, OneFetcherPerChunk
<1> QED
  BY <1>1, FetcherStep, BaseAlways, PTL DEF Spec

\* The foreground reads that share the flight chunk k has now.
Interested(k) == {c \in Clients : client[c].chunk = k /\ IsForeground(c) /\ ~client[c].stale}

\* InterestIsNeverOverstated, with that set by its name.
Credit == \A k \in flights : interest[k] <= Cardinality(Interested(k))

\* Every step keeps a flight's credit within the reads that share it.
LEMMA CreditStep == Base /\ Credit /\ [Next]_vars => Credit'
<1> SUFFICES ASSUME Base, Credit, [Next]_vars PROVE Credit'
  OBVIOUS
<1>t. /\ client \in [Clients -> Client] /\ interest \in [Chunks -> Nat]
      /\ flights \in SUBSET Chunks
  BY DEF Base, TypeOK
<1>n. \A k \in Chunks : k # None
  BY AdmissionAssumption DEF AdmissionAssumption
<1>f. \A k : IsFiniteSet(Interested(k)) /\ IsFiniteSet(Interested(k)')
  <2>1. \A k : Interested(k) \subseteq Clients /\ Interested(k)' \subseteq Clients
    BY DEF Interested
  <2> QED
    BY <2>1, FS_Subset, AdmissionAssumption DEF AdmissionAssumption
<1>c. ASSUME NEW S, NEW T, IsFiniteSet(T), S \subseteq T
      PROVE  /\ Cardinality(S) \in Nat /\ Cardinality(T) \in Nat
             /\ Cardinality(S) <= Cardinality(T)
  BY <1>c, FS_Subset, FS_CardinalityType
<1>s. ASSUME NEW k, k \in flights, interest'[k] = interest[k],
             Interested(k) \subseteq Interested(k)'
      PROVE  interest'[k] <= Cardinality(Interested(k)')
  <2>1. interest[k] <= Cardinality(Interested(k)) /\ interest[k] \in Nat
    BY <1>s, <1>t DEF Credit
  <2>2. /\ Cardinality(Interested(k)) \in Nat /\ Cardinality(Interested(k)') \in Nat
        /\ Cardinality(Interested(k)) <= Cardinality(Interested(k)')
    BY <1>s, <1>c, <1>f
  <2> QED
    BY <1>s, <2>1, <2>2
<1>a. ASSUME flights' \subseteq flights, interest' = interest,
             \A d \in Clients : client[d].chunk \in flights' =>
                /\ client'[d].chunk = client[d].chunk
                /\ client'[d].priority = client[d].priority
                /\ client'[d].stale = client[d].stale
      PROVE  Credit'
  <2>1. \A k \in flights' : Interested(k) \subseteq Interested(k)'
    BY <1>a DEF Interested, IsForeground
  <2> QED
    BY <1>a, <1>s, <2>1 DEF Credit
<1>o. ASSUME NEW c \in Clients, Alone(c), client[c].pc \notin FlightPcs,
             UNCHANGED <<flights, interest>>
      PROVE  Credit'
  <2>1. client[c].chunk = None
    BY <1>o DEF Base, Shapes
  <2> QED
    BY <1>a, <1>n, <1>o, <1>t, <2>1 DEF Alone
<1>1. ASSUME NEW c \in Clients, NEW k \in Chunks, ClaimOwner(c, k) PROVE Credit'
  <2>1. /\ Alone(c) /\ client'[c].chunk = k /\ client'[c].priority = client[c].priority
        /\ client'[c].stale = client[c].stale /\ client[c].pc = "entered"
        /\ flights' = flights \cup {k}
        /\ interest' = [interest EXCEPT ![k] = IF IsForeground(c) THEN 1 ELSE 0]
    BY <1>1, <1>t DEF ClaimOwner, Alone, Client
  <2>2. client[c].chunk = None /\ ~client[c].stale
    BY <2>1 DEF Base, Shapes, FlightPcs
  <2>3. ASSUME NEW j \in flights', j # k PROVE interest'[j] <= Cardinality(Interested(j)')
    <3>1. Interested(j) \subseteq Interested(j)'
      BY <1>n, <1>t, <2>1, <2>2, <2>3 DEF Interested, IsForeground, Alone
    <3> QED
      BY <1>s, <1>t, <2>1, <2>3, <3>1
  <2>4. interest'[k] <= Cardinality(Interested(k)')
    <3>1. CASE IsForeground(c)
      <4>1. {c} \subseteq Interested(k)'
        BY <2>1, <2>2, <3>1 DEF Interested, IsForeground
      <4>2. Cardinality({c}) = 1
        BY FS_Singleton
      <4> QED
        BY <1>c, <1>f, <1>t, <2>1, <3>1, <4>1, <4>2
    <3>2. CASE ~IsForeground(c)
      <4>1. Cardinality(Interested(k)') \in Nat
        BY <1>c, <1>f
      <4>2. interest'[k] = 0
        BY <1>t, <2>1, <3>2
      <4> QED
        BY <4>1, <4>2
    <3> QED
      BY <3>1, <3>2
  <2> QED
    BY <2>3, <2>4 DEF Credit
<1>2. ASSUME NEW c \in Clients, NEW k \in Chunks, ClaimWaiter(c, k) PROVE Credit'
  <2>1. /\ Alone(c) /\ client'[c].chunk = k /\ client'[c].priority = client[c].priority
        /\ client'[c].stale = client[c].stale /\ client[c].pc = "entered"
        /\ flights' = flights /\ k \in flights
        /\ interest' = [interest EXCEPT ![k] = @ + (IF IsForeground(c) THEN 1 ELSE 0)]
    BY <1>2, <1>t DEF ClaimWaiter, Alone, Client
  <2>2. client[c].chunk = None /\ ~client[c].stale
    BY <2>1 DEF Base, Shapes, FlightPcs
  <2>3. \A j \in flights : Interested(j) \subseteq Interested(j)'
    BY <1>n, <1>t, <2>1, <2>2 DEF Interested, IsForeground, Alone
  <2>4. interest'[k] <= Cardinality(Interested(k)')
    <3>1. CASE IsForeground(c)
      <4>1. Interested(k) \cup {c} \subseteq Interested(k)' /\ c \notin Interested(k)
        BY <1>n, <2>1, <2>2, <2>3, <3>1 DEF Interested, IsForeground
      <4>2. /\ Cardinality(Interested(k) \cup {c}) = Cardinality(Interested(k)) + 1
            /\ Cardinality(Interested(k)) \in Nat
        BY <1>c, <1>f, <4>1, FS_AddElement
      <4>3. /\ Cardinality(Interested(k) \cup {c}) <= Cardinality(Interested(k)')
            /\ Cardinality(Interested(k)') \in Nat
        BY <1>c, <1>f, <4>1
      <4>4. interest'[k] = interest[k] + 1 /\ interest[k] \in Nat
        BY <1>t, <2>1, <3>1
      <4>5. interest[k] <= Cardinality(Interested(k))
        BY <2>1 DEF Credit
      <4> QED
        BY <4>2, <4>3, <4>4, <4>5
    <3>2. CASE ~IsForeground(c)
      BY <1>s, <1>t, <2>1, <2>3, <3>2
    <3> QED
      BY <3>1, <3>2
  <2> QED
    BY <1>s, <1>t, <2>1, <2>3, <2>4 DEF Credit
<1>3. ASSUME NEW c \in Clients, DropWaiter(c) PROVE Credit'
  <2>1. PICK k : k = client[c].chunk
    OBVIOUS
  <2>2. /\ Alone(c) /\ flights' = flights
        /\ interest' = IF IsForeground(c) /\ k \in flights /\ interest[k] > 0
                       THEN [interest EXCEPT ![k] = @ - 1] ELSE interest
    BY <1>3, <1>t, <2>1 DEF DropWaiter, ReleaseInterest, Alone
  <2>3. \A j : Interested(j) \ {c} \subseteq Interested(j)'
    BY <2>2 DEF Interested, IsForeground, Alone
  <2>4. ASSUME NEW j \in flights, j # k PROVE interest'[j] <= Cardinality(Interested(j)')
    <3>1. c \notin Interested(j)
      BY <2>1, <2>4 DEF Interested
    <3> QED
      BY <1>s, <1>t, <2>2, <2>3, <2>4, <3>1
  <2>5. ASSUME k \in flights PROVE interest'[k] <= Cardinality(Interested(k)')
    <3>1. CASE ~IsForeground(c)
      <4>1. c \notin Interested(k)
        BY <3>1 DEF Interested
      <4> QED
        BY <1>s, <2>2, <2>3, <2>5, <3>1, <4>1
    <3>2. CASE IsForeground(c) /\ interest[k] > 0
      <4>1. interest'[k] = interest[k] - 1 /\ interest[k] \in Nat
        BY <1>t, <2>2, <2>5, <3>2
      <4>2. interest[k] <= Cardinality(Interested(k))
        BY <2>5 DEF Credit
      <4>3. /\ Cardinality(Interested(k) \ {c}) >= Cardinality(Interested(k)) - 1
            /\ Cardinality(Interested(k)) \in Nat
        <5>1. Cardinality(Interested(k)) \in Nat
          BY <1>f, FS_CardinalityType
        <5>2. Cardinality(Interested(k) \ {c}) = IF c \in Interested(k)
                THEN Cardinality(Interested(k)) - 1 ELSE Cardinality(Interested(k))
          BY <1>f, FS_RemoveElement
        <5> QED
          BY <5>1, <5>2
      <4>4. /\ Cardinality(Interested(k) \ {c}) <= Cardinality(Interested(k)')
            /\ Cardinality(Interested(k) \ {c}) \in Nat
            /\ Cardinality(Interested(k)') \in Nat
        BY <1>c, <1>f, <2>3
      <4> QED
        BY <4>1, <4>2, <4>3, <4>4
    <3>3. CASE interest[k] = 0
      <4>1. Cardinality(Interested(k)') \in Nat
        BY <1>f, FS_CardinalityType
      <4>2. interest'[k] = 0
        BY <2>2, <3>3
      <4> QED
        BY <4>1, <4>2
    <3>4. interest[k] \in Nat
      BY <1>t, <2>5
    <3> QED
      BY <3>1, <3>2, <3>3, <3>4
  <2> QED
    BY <2>2, <2>4, <2>5 DEF Credit
<1>4. ASSUME NEW c \in Clients, AcquirePermit(c) \/ Commit(c) PROVE Credit'
  BY <1>4, <1>a, <1>t DEF AcquirePermit, Commit, Client
<1>5. ASSUME NEW c \in Clients, DropOwner(c) PROVE Credit'
  BY <1>5, <1>a, <1>t DEF DropOwner, Client
<1>6. ASSUME NEW c \in Clients,
             \/ \E s \in Sessions, p \in Priorities : Enter(c, s, p)
             \/ \E s \in Sessions, m \in Modes : BeginPublication(c, s, m)
             \/ \E s \in Sessions : TryBeginRemoval(c, s) \/ BeginRemoval(c, s)
      PROVE  Credit'
  <2>1. Alone(c) /\ client[c].pc = "idle" /\ UNCHANGED <<flights, interest>>
    BY <1>6, <1>t DEF Enter, BeginPublication, TryBeginRemoval, BeginRemoval, Alone, flightVars
  <2> QED
    BY <1>o, <2>1 DEF FlightPcs
<1>7. ASSUME NEW c \in Clients,
             \/ Leave(c) \/ CommitPublication(c) \/ DropPublication(c) \/ RemovalDrained(c)
             \/ AbandonRemoval(c) \/ CommitRemoval(c) \/ DropRemoval(c)
      PROVE  Credit'
  <2>1. /\ Alone(c) /\ client[c].pc \in {"entered", "publishing", "draining", "removing"}
        /\ UNCHANGED <<flights, interest>>
    BY <1>7, <1>t DEF Leave, CommitPublication, DropPublication, RemovalDrained, AbandonRemoval,
                      CommitRemoval, DropRemoval, Alone, flightVars
  <2> QED
    BY <1>o, <2>1 DEF FlightPcs
<1>8. ASSUME DrainStart \/ DrainDone \/ UNCHANGED vars PROVE Credit'
  BY <1>8, <1>a DEF DrainStart, DrainDone, vars, flightVars
<1>9. ASSUME NEW c \in Clients, Read(c) \/ Publish(c) \/ RemoveSession(c) PROVE Credit'
  BY <1>1, <1>2, <1>3, <1>4, <1>5, <1>6, <1>7, <1>9 DEF Read, Publish, RemoveSession
<1> QED
  BY <1>8, <1>9 DEF Next, Stopped

\* A flight never counts more foreground reads than share it, though a late
\* release may be taken from a flight it does not belong to.
THEOREM InterestBounded == Spec => []InterestIsNeverOverstated
<1>1. Init => Credit
  BY DEF Init, Credit
<1>2. Spec => []Credit
  BY <1>1, CreditStep, BaseAlways, PTL DEF Spec
<1>3. Credit => InterestIsNeverOverstated
  BY DEF Credit, Interested, InterestIsNeverOverstated
<1> QED
  BY <1>2, <1>3, PTL

\* claim_chunk and release_foreground_interest together: one fetcher, and no
\* more foreground interest than reads.
THEOREM FlightsExact == Spec => []FlightsAreExact
<1>1. OneFetcherPerChunk /\ InterestIsNeverOverstated => FlightsAreExact
  BY DEF FlightsAreExact
<1> QED
  BY <1>1, OneFetcher, InterestBounded, PTL
-----------------------------------------------------------------------------
(* The inductive invariant.                                                 *)

\* A span as it is typed when there may be no resource at all.
Place == [pc : {"idle", "measuring", "measured", "leased", "written", "noted"},
          resource : Resources \cup {NoSpan.resource}, end : Lengths, usage : Nat,
          measured : Lengths, target : Lengths, current : Lengths]

TypeInv ==
    /\ length \in [Resources -> Lengths]
    /\ span \in [Spans -> Place]
    /\ stale \in BOOLEAN
    /\ \A c \in Spans : span[c].pc # "idle" => span[c].resource \in Resources

\* What a client saw of its resource is on disk as long as it is at work, and
\* its reservation reaches the end it asked for.
SeenInv ==
    \A c \in Spans :
        /\ span[c].pc = "measured" => span[c].measured <= length[span[c].resource]
        /\ c \in Leased => /\ span[c].current <= length[span[c].resource]
                           /\ span[c].end <= span[c].target

IInv == TypeInv /\ SeenInv /\ OnlyStaleUsageOversubscribes

-----------------------------------------------------------------------------
(* Largest elements.                                                        *)

\* The larger one of two numbers.
LEMMA MaxOfTwo ==
    ASSUME NEW a \in Nat, NEW b \in Nat
    PROVE  Max({a, b}) = IF a >= b THEN a ELSE b
<1> DEFINE m == IF a >= b THEN a ELSE b
<1>1. m \in {a, b} /\ \A y \in {a, b} : m >= y
  OBVIOUS
<1>2. ASSUME NEW x \in {a, b}, \A y \in {a, b} : x >= y PROVE x = m
  BY <1>2
<1> HIDE DEF m
<1>3. Max({a, b}) \in {a, b} /\ \A y \in {a, b} : Max({a, b}) >= y
  BY <1>1 DEF Max
<1>4. Max({a, b}) = m
  BY <1>2, <1>3
<1> QED BY <1>4 DEF m

\* The largest one of a set of lengths, or zero.
LEMMA MaxOfLengths ==
    ASSUME MaxLength \in Nat, NEW A \in SUBSET Lengths
    PROVE  /\ Max(A \cup {0}) \in Lengths
           /\ \A x \in A : x <= Max(A \cup {0})
           /\ Max(A \cup {0}) = 0 \/ Max(A \cup {0}) \in A
<1> DEFINE B == A \cup {0}
<1>1. B \in SUBSET Nat /\ B # {} /\ \A x \in B : x <= MaxLength /\ x \in Lengths
  BY DEF Lengths
<1>2. A \subseteq B /\ \A x \in B : x = 0 \/ x \in A
  OBVIOUS
<1> HIDE DEF B
<1>3. PICK x \in B : \A y \in B : y <= x
  BY <1>1, HasGreatest
<1>4. \A y \in B : x >= y
  BY <1>1, <1>3
<1>5. Max(B) \in B /\ \A y \in B : Max(B) >= y
  BY <1>3, <1>4 DEF Max
<1>6. \A y \in B : y <= Max(B)
  BY <1>1, <1>5
<1>7. Max(B) \in Lengths /\ (\A y \in A : y <= Max(B)) /\ (Max(B) = 0 \/ Max(B) \in A)
  BY <1>1, <1>2, <1>5, <1>6
<1> QED BY <1>7 DEF B

\* What the reservations of a resource reach and have seen.
LEMMA TargetFacts ==
    ASSUME TypeInv, NEW r
    PROVE  /\ LargestTarget(r) \in Lengths /\ Observed(r) \in Lengths
           /\ \A c \in LeasesOf(r) : span[c].target <= LargestTarget(r) /\ span[c].current <= Observed(r)
           /\ LargestTarget(r) = 0 \/ \E c \in LeasesOf(r) : LargestTarget(r) = span[c].target
           /\ Observed(r) = 0 \/ \E c \in LeasesOf(r) : Observed(r) = span[c].current
<1> DEFINE T == {span[c].target : c \in LeasesOf(r)}
           O == {span[c].current : c \in LeasesOf(r)}
<1>1. T \in SUBSET Lengths /\ O \in SUBSET Lengths
  BY DEF TypeInv, Place, LeasesOf, Leased
<1>2. \A c \in LeasesOf(r) : span[c].target \in T /\ span[c].current \in O
  OBVIOUS
<1>3. /\ \A x \in T : \E c \in LeasesOf(r) : x = span[c].target
      /\ \A x \in O : \E c \in LeasesOf(r) : x = span[c].current
  OBVIOUS
<1>4. LargestTarget(r) = Max(T \cup {0}) /\ Observed(r) = Max(O \cup {0})
  BY DEF LargestTarget, Observed
<1> HIDE DEF T, O
<1>5. /\ Max(T \cup {0}) \in Lengths /\ Max(O \cup {0}) \in Lengths
      /\ \A x \in T : x <= Max(T \cup {0})
      /\ \A x \in O : x <= Max(O \cup {0})
      /\ Max(T \cup {0}) = 0 \/ Max(T \cup {0}) \in T
      /\ Max(O \cup {0}) = 0 \/ Max(O \cup {0}) \in O
  BY <1>1, MaxOfLengths, QuotaAssumption
<1> QED BY <1>2, <1>3, <1>4, <1>5

\* The same of the next state: what the reservations will reach.
LEMMA NextTargetFacts ==
    ASSUME TypeInv', NEW r
    PROVE  /\ LargestTarget(r)' \in Lengths
           /\ LargestTarget(r)' = 0 \/ \E c \in LeasesOf(r)' : LargestTarget(r)' = span'[c].target
<1> DEFINE T == {span'[c].target : c \in LeasesOf(r)'}
<1>1. T \in SUBSET Lengths
  BY DEF TypeInv, Place, LeasesOf, Leased, Lengths
<1>2. \A x \in T : \E c \in LeasesOf(r)' : x = span'[c].target
  OBVIOUS
<1>3. LargestTarget(r)' = Max(T \cup {0})
  BY DEF LargestTarget
<1> HIDE DEF T
<1>4. Max(T \cup {0}) \in Lengths /\ (Max(T \cup {0}) = 0 \/ Max(T \cup {0}) \in T)
  BY <1>1, MaxOfLengths, QuotaAssumption
<1> QED BY <1>2, <1>3, <1>4

-----------------------------------------------------------------------------
(* What is committed.                                                       *)

\* What a resource takes, or may grow to.
Weight(r) == Max({length[r], LargestTarget(r)})

\* A reservation that is given back, or was never there, commits nothing.
LEMMA TargetShrinks ==
    ASSUME TypeInv, TypeInv', NEW r,
           \A c \in LeasesOf(r)' : c \in LeasesOf(r) /\ span'[c].target = span[c].target
    PROVE  LargestTarget(r)' <= LargestTarget(r) /\ LargestTarget(r)' \in Lengths
<1>1. /\ LargestTarget(r) \in Lengths
      /\ \A c \in LeasesOf(r) : span[c].target <= LargestTarget(r)
  BY TargetFacts
<1>2. LargestTarget(r)' \in Lengths /\ (LargestTarget(r)' = 0 \/ \E c \in LeasesOf(r)' : LargestTarget(r)' = span'[c].target)
  BY NextTargetFacts
<1>3. CASE LargestTarget(r)' = 0
  BY <1>1, <1>2, <1>3, QuotaAssumption DEF Lengths
<1>4. CASE \E c \in LeasesOf(r)' : LargestTarget(r)' = span'[c].target
  <2>1. PICK c \in LeasesOf(r)' : LargestTarget(r)' = span'[c].target
    BY <1>4
  <2>2. c \in LeasesOf(r) /\ span'[c].target = span[c].target
    OBVIOUS
  <2> QED BY <1>1, <1>2, <2>1, <2>2
<1> QED BY <1>2, <1>3, <1>4

\* When no resource takes more, no more is committed.
LEMMA CommittedShrinks ==
    ASSUME TypeInv, TypeInv', \A r \in Resources : Weight(r)' <= Weight(r)
    PROVE  Committed' <= Committed /\ Committed' \in Nat /\ Committed \in Nat
<1> DEFINE f == [r \in Resources |-> Max({length[r], LargestTarget(r)})]
           g == [r \in Resources |-> Max({length'[r], LargestTarget(r)'})]
<1>1. ASSUME NEW r \in Resources PROVE f[r] \in Nat /\ g[r] \in Nat /\ g[r] <= f[r]
  <2>1. length[r] \in Nat /\ length'[r] \in Nat /\ LargestTarget(r) \in Nat /\ LargestTarget(r)' \in Nat
    BY TargetFacts, NextTargetFacts, QuotaAssumption DEF TypeInv, Lengths
  <2>2. f[r] = Weight(r) /\ g[r] = Weight(r)'
    BY DEF Weight
  <2>3. f[r] \in Nat /\ g[r] \in Nat
    BY <2>1, MaxOfTwo
  <2> HIDE DEF f, g
  <2> QED BY <2>2, <2>3
<1>2. Committed = SumFunctionOnSet(f, Resources) /\ Committed' = SumFunctionOnSet(g, Resources)
  BY DEF Committed
<1> HIDE DEF f, g
<1>3. IsFiniteSet(Resources) /\ (\A r \in Resources : f[r] \in Nat) /\ (\A r \in Resources : g[r] \in Nat)
  BY <1>1, QuotaAssumption
<1>4. SumFunctionOnSet(f, Resources) \in Nat /\ SumFunctionOnSet(g, Resources) \in Nat
  BY <1>3, SumFacts
<1>5. SumFunctionOnSet(g, Resources) <= SumFunctionOnSet(f, Resources)
  BY <1>1, <1>3, SumMonotone
<1> QED BY <1>2, <1>4, <1>5

\* The usage of the managed files is a number.
LEMMA UsageType ==
    ASSUME TypeInv
    PROVE  Usage \in Nat
<1>1. \A r \in Resources : length[r] \in Nat
  BY QuotaAssumption DEF TypeInv, Lengths
<1>2. SumFunctionOnSet(length, Resources) \in Nat
  BY <1>1, SumFacts, QuotaAssumption
<1> QED BY <1>2 DEF Usage

-----------------------------------------------------------------------------
(* The steps.                                                               *)

\* A step that lets no target and no length grow beyond what was committed.
LEMMA QuotaKept ==
    ASSUME IInv, TypeInv', UNCHANGED stale, \A r \in Resources : Weight(r)' <= Weight(r)
    PROVE  OnlyStaleUsageOversubscribes'
<1>1. Committed' <= Committed /\ Committed' \in Nat /\ Committed \in Nat
  BY CommittedShrinks DEF IInv
<1> QED BY <1>1, QuotaAssumption DEF IInv, OnlyStaleUsageOversubscribes

\* Targets and lengths that are not larger make no resource weigh more.
LEMMA WeightShrinks ==
    ASSUME TypeInv, TypeInv', NEW r \in Resources,
           LargestTarget(r)' <= LargestTarget(r), length'[r] <= length[r] \/ length'[r] <= LargestTarget(r)
    PROVE  Weight(r)' <= Weight(r)
<1>1. length[r] \in Nat /\ length'[r] \in Nat /\ LargestTarget(r) \in Nat /\ LargestTarget(r)' \in Nat
  BY TargetFacts, NextTargetFacts, QuotaAssumption DEF TypeInv, Lengths
<1>2. /\ Max({length[r], LargestTarget(r)}) = IF length[r] >= LargestTarget(r) THEN length[r] ELSE LargestTarget(r)
      /\ Max({length'[r], LargestTarget(r)'}) = IF length'[r] >= LargestTarget(r)' THEN length'[r] ELSE LargestTarget(r)'
  BY <1>1, MaxOfTwo
<1>3. Weight(r) = Max({length[r], LargestTarget(r)}) /\ Weight(r)' = Max({length'[r], LargestTarget(r)'})
  BY DEF Weight
<1> QED BY <1>1, <1>2, <1>3

\* Only the span of one client changes, and it holds no reservation afterwards.
LEMMA SpanKeeps ==
    ASSUME IInv, NEW c \in Spans, UNCHANGED <<length, stale>>,
           span' \in [Spans -> Place], \A d \in Spans : d # c => span'[d] = span[d],
           span'[c].pc \in {"idle", "measuring", "measured"},
           span'[c].pc # "idle" => span'[c].resource \in Resources,
           span'[c].pc = "measured" => span'[c].measured <= length[span'[c].resource]
    PROVE  IInv'
<1>1. TypeInv'
  BY DEF IInv, TypeInv
<1>2. SeenInv'
  BY DEF IInv, SeenInv, Leased
<1>3. ASSUME NEW r \in Resources PROVE Weight(r)' <= Weight(r)
  <2>1. \A d \in LeasesOf(r)' : d \in LeasesOf(r) /\ span'[d].target = span[d].target
    BY DEF LeasesOf, Leased
  <2>2. LargestTarget(r)' <= LargestTarget(r)
    BY <1>1, <2>1, TargetShrinks DEF IInv
  <2>3. length'[r] <= length[r]
    BY QuotaAssumption DEF IInv, TypeInv, Lengths
  <2> QED BY <1>1, <2>2, <2>3, WeightShrinks DEF IInv
<1>4. OnlyStaleUsageOversubscribes'
  BY <1>1, <1>3, QuotaKept
<1> QED BY <1>1, <1>2, <1>4 DEF IInv

\* Measuring, refusals and the end of a reservation.
LEMMA MeasuresKeep ==
    ASSUME IInv, NEW c \in Spans
    PROVE  /\ \A r \in Resources, end \in 1 .. MaxLength : MeasureUsage(c, r, end) => IInv'
           /\ MeasureLength(c) \/ Reject(c) \/ Release(c) => IInv'
<1>1. ASSUME NEW r \in Resources, NEW end \in 1 .. MaxLength, MeasureUsage(c, r, end) PROVE IInv'
  <2> DEFINE place == [span[c] EXCEPT !.pc = "measuring", !.resource = r, !.end = end, !.usage = Usage]
  <2>1. /\ span' = [span EXCEPT ![c] = place]
        /\ UNCHANGED <<length, stale>> /\ end \in Lengths /\ Usage \in Nat
    <3>1. span' = [span EXCEPT ![c] = place] /\ UNCHANGED <<length, stale>>
      BY <1>1 DEF MeasureUsage, IInv, TypeInv
    <3> HIDE DEF place
    <3>2. end \in Lengths
      BY QuotaAssumption DEF Lengths
    <3> QED BY <3>1, <3>2, UsageType DEF IInv
  <2>2. place \in Place /\ place.pc = "measuring" /\ place.resource = r
    BY <2>1 DEF IInv, TypeInv, Place
  <2> HIDE DEF place
  <2>3. /\ span' \in [Spans -> Place] /\ \A d \in Spans : d # c => span'[d] = span[d]
        /\ span'[c].pc = "measuring" /\ span'[c].resource \in Resources
    BY <2>1, <2>2 DEF IInv, TypeInv
  <2> QED BY <2>1, <2>3, SpanKeeps
<1>2. ASSUME MeasureLength(c) PROVE IInv'
  <2> DEFINE r == span[c].resource
  <2>1. /\ span' = [span EXCEPT ![c].pc = "measured", ![c].measured = length[r]]
        /\ UNCHANGED <<length, stale>> /\ r \in Resources /\ length[r] \in Lengths
    BY <1>2 DEF MeasureLength, IInv, TypeInv
  <2> HIDE DEF r
  <2>2. /\ span' \in [Spans -> Place] /\ \A d \in Spans : d # c => span'[d] = span[d]
        /\ span'[c].pc = "measured" /\ span'[c].resource = r /\ span'[c].measured = length[r]
    BY <2>1, ZenonT(60) DEF IInv, TypeInv, Place, r
  <2>3. span'[c].measured <= length[span'[c].resource]
    BY <2>1, <2>2, QuotaAssumption DEF Lengths
  <2> QED BY <2>1, <2>2, <2>3, SpanKeeps
<1>3. ASSUME Reject(c) \/ Release(c) PROVE IInv'
  <2>1. span' = [span EXCEPT ![c] = NoSpan] /\ UNCHANGED <<length, stale>>
    BY <1>3 DEF Reject, Release
  <2>2. NoSpan \in Place /\ NoSpan.pc = "idle"
    BY QuotaAssumption DEF NoSpan, Place, Lengths
  <2>3. /\ span' \in [Spans -> Place] /\ \A d \in Spans : d # c => span'[d] = span[d]
        /\ span'[c].pc = "idle"
    BY <2>1, <2>2 DEF IInv, TypeInv
  <2> QED BY <2>1, <2>3, SpanKeeps
<1> QED BY <1>1, <1>2, <1>3

\* A chunk is written within what its reservation reaches.
LEMMA WriteKeeps ==
    ASSUME IInv, NEW c \in Spans, Write(c)
    PROVE  IInv'
<1> DEFINE q == span[c].resource
           grown == Grown(c)
<1>1. /\ span[c].pc = "leased" /\ length' = [length EXCEPT ![q] = grown]
      /\ span' = [span EXCEPT ![c].pc = "written"] /\ UNCHANGED stale
      /\ q \in Resources /\ c \in LeasesOf(q)
  BY DEF Write, IInv, TypeInv, LeasesOf, Leased
<1>2. /\ length[q] \in Lengths /\ span[c].end \in Lengths /\ span[c].target \in Lengths
      /\ span[c].end <= span[c].target /\ \A x \in Lengths : x \in Nat
  <2>1. \A x \in Lengths : x \in Nat
    BY QuotaAssumption DEF Lengths
  <2> QED BY <1>1, <2>1 DEF IInv, TypeInv, SeenInv, Place, LeasesOf
<1>3. grown \in Lengths /\ length[q] <= grown /\ (grown = length[q] \/ grown = span[c].end)
  <2>1. Max({length[q], span[c].end}) = IF length[q] >= span[c].end THEN length[q] ELSE span[c].end
    BY <1>2, MaxOfTwo
  <2>2. grown = Max({length[q], span[c].end})
    BY DEF Grown
  <2> HIDE DEF grown, q
  <2> QED BY <1>2, <2>1, <2>2
<1> HIDE DEF grown, q
<1>4. /\ length' \in [Resources -> Lengths] /\ length'[q] = grown
      /\ \A r \in Resources : r # q => length'[r] = length[r]
      /\ \A r \in Resources : length[r] <= length'[r]
  <2>1. length' \in [Resources -> Lengths] /\ length'[q] = grown
        /\ \A r \in Resources : r # q => length'[r] = length[r]
    BY <1>1, <1>3 DEF IInv, TypeInv
  <2> QED BY <1>3, <2>1, QuotaAssumption DEF IInv, TypeInv, Lengths
<1>5. /\ span' \in [Spans -> Place] /\ span'[c].pc = "written"
      /\ \A d \in Spans : /\ span'[d].resource = span[d].resource /\ span'[d].end = span[d].end
                          /\ span'[d].target = span[d].target /\ span'[d].current = span[d].current
                          /\ span'[d].measured = span[d].measured
                          /\ d # c => span'[d].pc = span[d].pc
  BY <1>1 DEF IInv, TypeInv, Place
<1>6. TypeInv'
  BY <1>1, <1>4, <1>5 DEF IInv, TypeInv
<1>7. SeenInv'
  <2>1. ASSUME NEW d \in Spans, span'[d].pc = "measured" PROVE span'[d].measured <= length'[span'[d].resource]
    <3>1. /\ span[d].pc = "measured" /\ span[d].resource \in Resources
          /\ span[d].measured <= length[span[d].resource] /\ span[d].measured \in Nat
      BY <1>2, <1>5, <2>1 DEF IInv, TypeInv, SeenInv, Place
    <3>2. length[span[d].resource] \in Nat /\ length'[span[d].resource] \in Nat
      BY <1>2, <1>4, <3>1 DEF IInv, TypeInv
    <3> QED BY <1>4, <1>5, <3>1, <3>2
  <2>2. ASSUME NEW d \in Spans, d \in Leased'
        PROVE  span'[d].current <= length'[span'[d].resource] /\ span'[d].end <= span'[d].target
    <3>1. /\ d \in Leased /\ span[d].resource \in Resources
          /\ span[d].current <= length[span[d].resource] /\ span[d].end <= span[d].target
          /\ span[d].current \in Nat
      BY <1>1, <1>2, <1>5, <2>2 DEF IInv, TypeInv, SeenInv, Place, Leased
    <3>2. length[span[d].resource] \in Nat /\ length'[span[d].resource] \in Nat
      BY <1>2, <1>4, <3>1 DEF IInv, TypeInv
    <3> QED BY <1>4, <1>5, <3>1, <3>2
  <2> QED BY <2>1, <2>2 DEF SeenInv
<1>8. ASSUME NEW r \in Resources PROVE Weight(r)' <= Weight(r)
  <2>1. \A d \in LeasesOf(r)' : d \in LeasesOf(r) /\ span'[d].target = span[d].target
    BY <1>1, <1>5 DEF LeasesOf, Leased
  <2>2. LargestTarget(r)' <= LargestTarget(r)
    BY <1>6, <2>1, TargetShrinks DEF IInv
  <2>3. length'[r] <= length[r] \/ length'[r] <= LargestTarget(r)
    <3>1. span[c].target <= LargestTarget(q) /\ LargestTarget(q) \in Lengths
      BY <1>1, TargetFacts DEF IInv
    <3>2. span[c].end <= LargestTarget(q)
      BY <1>2, <3>1
    <3>3. length[r] \in Lengths
      BY DEF IInv, TypeInv
    <3> QED BY <1>2, <1>3, <1>4, <3>2, <3>3
  <2> QED BY <1>6, <2>2, <2>3, WeightShrinks DEF IInv
<1>9. OnlyStaleUsageOversubscribes'
  BY <1>1, <1>6, <1>8, QuotaKept
<1> QED BY <1>6, <1>7, <1>9 DEF IInv

\* A length is reported to the reservations of its resource.
LEMMA NoteKeeps ==
    ASSUME IInv, NEW c \in Spans, NoteFileLength(c)
    PROVE  IInv'
<1> DEFINE q == span[c].resource
           seen(d) == Max({span[d].current, length[q]})
<1>1. /\ span[c].pc = "written" /\ UNCHANGED <<length, stale>> /\ q \in Resources
      /\ span' = [d \in Spans |->
                     IF d \in LeasesOf(q)
                     THEN [span[d] EXCEPT !.current = seen(d), !.pc = IF d = c THEN "noted" ELSE @]
                     ELSE span[d]]
  BY DEF NoteFileLength, IInv, TypeInv
<1>2. length[q] \in Lengths /\ \A x \in Lengths : x \in Nat
  <2>1. \A x \in Lengths : x \in Nat
    BY QuotaAssumption DEF Lengths
  <2> QED BY <1>1, <2>1 DEF IInv, TypeInv
<1>3. ASSUME NEW d \in LeasesOf(q)
      PROVE  seen(d) \in Lengths /\ seen(d) <= length[q] /\ d \in Spans /\ d \in Leased
  <2>1. /\ d \in Spans /\ d \in Leased /\ span[d].resource = q
        /\ span[d].current \in Lengths /\ span[d].current <= length[q]
    BY DEF LeasesOf, Leased, IInv, TypeInv, SeenInv, Place
  <2>2. seen(d) = IF span[d].current >= length[q] THEN span[d].current ELSE length[q]
    BY <1>2, <2>1, MaxOfTwo
  <2> HIDE DEF seen, q
  <2> QED BY <1>2, <2>1, <2>2
<1> HIDE DEF seen, q
<1>4. ASSUME NEW d \in Spans
      PROVE  /\ span'[d] \in Place /\ span'[d].resource = span[d].resource
             /\ span'[d].end = span[d].end /\ span'[d].target = span[d].target
             /\ span'[d].measured = span[d].measured
             /\ (d \in Leased)' <=> d \in Leased
             /\ IF d \in LeasesOf(q) THEN span'[d].current = seen(d) /\ span[d].resource = q
                ELSE span'[d] = span[d]
             /\ span'[d].pc = "measured" => span[d].pc = "measured"
             /\ span'[d].pc # "idle" => span[d].pc # "idle"
  <2>1. span[d] \in Place
    BY DEF IInv, TypeInv
  <2>2. CASE d \in LeasesOf(q)
    <3>1. seen(d) \in Lengths /\ d \in Leased /\ span[d].resource = q
      BY <1>3, <2>2 DEF LeasesOf
    <3>2. span'[d] = [span[d] EXCEPT !.current = seen(d), !.pc = IF d = c THEN "noted" ELSE @]
      BY <1>1, <2>2
    <3> QED BY <2>1, <2>2, <3>1, <3>2 DEF Place, Leased
  <2>3. CASE d \notin LeasesOf(q)
    <3>1. span'[d] = span[d]
      BY <1>1, <2>3
    <3> QED BY <2>1, <2>3, <3>1 DEF Leased
  <2> QED BY <2>2, <2>3
<1>5. TypeInv'
  <2>1. span' \in [Spans -> Place]
    BY <1>1, <1>4
  <2> QED BY <1>1, <1>4, <2>1 DEF IInv, TypeInv
<1>6. SeenInv'
  <2>1. ASSUME NEW d \in Spans PROVE span'[d].pc = "measured" => span'[d].measured <= length'[span'[d].resource]
    BY <1>1, <1>4 DEF IInv, SeenInv
  <2>2. ASSUME NEW d \in Spans, d \in Leased'
        PROVE  span'[d].current <= length'[span'[d].resource] /\ span'[d].end <= span'[d].target
    <3>1. /\ d \in Leased /\ span'[d].resource = span[d].resource /\ length' = length
          /\ span'[d].end = span[d].end /\ span'[d].target = span[d].target
      BY <1>1, <1>4, <2>2
    <3>2. span[d].current <= length[span[d].resource] /\ span[d].end <= span[d].target
      BY <3>1 DEF IInv, SeenInv
    <3>3. CASE d \in LeasesOf(q)
      BY <1>3, <1>4, <3>1, <3>2, <3>3
    <3>4. CASE d \notin LeasesOf(q)
      BY <1>4, <3>1, <3>2, <3>4
    <3> QED BY <3>3, <3>4
  <2> QED BY <2>1, <2>2 DEF SeenInv
<1>7. ASSUME NEW r \in Resources PROVE Weight(r)' <= Weight(r)
  <2>1. \A d \in LeasesOf(r)' : d \in LeasesOf(r) /\ span'[d].target = span[d].target
    BY <1>4 DEF LeasesOf, Leased
  <2>2. LargestTarget(r)' <= LargestTarget(r)
    BY <1>5, <2>1, TargetShrinks DEF IInv
  <2>3. length'[r] <= length[r]
    <3>1. length[r] \in Lengths /\ length' = length
      BY <1>1 DEF IInv, TypeInv
    <3> QED BY <1>2, <3>1
  <2> QED BY <1>5, <2>2, <2>3, WeightShrinks DEF IInv
<1>8. OnlyStaleUsageOversubscribes'
  BY <1>1, <1>5, <1>7, QuotaKept
<1> QED BY <1>5, <1>6, <1>8 DEF IInv

\* The files of a resource that nobody is at work on are removed.
LEMMA EvictKeeps ==
    ASSUME IInv, NEW q \in Resources, EvictSession(q)
    PROVE  IInv'
<1>1. /\ \A c \in Spans : span[c].pc # "idle" => span[c].resource # q
      /\ length' = [length EXCEPT ![q] = 0] /\ UNCHANGED <<span, stale>>
  BY DEF EvictSession
<1>2. /\ length' \in [Resources -> Lengths] /\ \A r \in Resources : length'[r] <= length[r]
      /\ \A r \in Resources : r # q => length'[r] = length[r]
  BY <1>1, QuotaAssumption DEF IInv, TypeInv, Lengths
<1>3. TypeInv'
  BY <1>1, <1>2 DEF IInv, TypeInv
<1>4. SeenInv'
  <2>1. ASSUME NEW c \in Spans, span[c].pc # "idle"
        PROVE  length'[span[c].resource] = length[span[c].resource]
    BY <1>1, <1>2, <2>1 DEF IInv, TypeInv
  <2> QED BY <1>1, <2>1 DEF IInv, SeenInv, Leased
<1>5. ASSUME NEW r \in Resources PROVE Weight(r)' <= Weight(r)
  <2>1. \A d \in LeasesOf(r)' : d \in LeasesOf(r) /\ span'[d].target = span[d].target
    BY <1>1 DEF LeasesOf, Leased
  <2>2. LargestTarget(r)' <= LargestTarget(r)
    BY <1>3, <2>1, TargetShrinks DEF IInv
  <2> QED BY <1>2, <1>3, <2>2, WeightShrinks DEF IInv
<1>6. OnlyStaleUsageOversubscribes'
  BY <1>1, <1>3, <1>5, QuotaKept
<1> QED BY <1>3, <1>4, <1>6 DEF IInv

\* reserve: what it projects bounds what will be committed, when the usage it
\* was given is not outdated.
LEMMA ReserveKeeps ==
    ASSUME IInv, NEW c \in Spans, Reserve(c)
    PROVE  IInv'
<1> DEFINE r == span[c].resource
           end == span[c].end
           usage == span[c].usage
           top == Max({end, LargestTarget(r)})
           now == Max({span[c].measured, Observed(r)})
           others == SumFunctionOnSet(Outstanding, Resources \ {r})
           place == [span[c] EXCEPT !.pc = "leased", !.target = top, !.current = now]
<1>1. /\ span[c].pc = "measured" /\ usage + others + SatSub(top, now) <= Quota
      /\ span' = [span EXCEPT ![c] = place] /\ length' = length
      /\ stale' = (stale \/ usage < Usage)
  BY DEF Reserve, Fits, Projected, IInv, TypeInv
<1> HIDE DEF others, place
<1>2. /\ r \in Resources /\ end \in Lengths /\ usage \in Nat /\ span[c].measured \in Lengths
      /\ span[c].measured <= length[r] /\ stale \in BOOLEAN
  BY <1>1 DEF IInv, TypeInv, SeenInv, Place
<1>3. /\ \A x \in Lengths : x \in Nat /\ \A y \in Lengths : (IF x >= y THEN x ELSE y) \in Lengths
      /\ \A q \in Resources : length[q] \in Lengths
      /\ \A q : LargestTarget(q) \in Lengths /\ Observed(q) \in Lengths
  <2>1. \A x \in Lengths : x \in Nat
    BY QuotaAssumption DEF Lengths
  <2> QED BY <2>1, TargetFacts DEF IInv, TypeInv
<1>4. ASSUME NEW q \in Resources PROVE Observed(q) <= length[q]
  <2>1. Observed(q) = 0 \/ \E d \in LeasesOf(q) : Observed(q) = span[d].current
    BY TargetFacts DEF IInv
  <2>2. \A d \in LeasesOf(q) : span[d].current <= length[q]
    BY DEF LeasesOf, Leased, IInv, SeenInv
  <2> QED BY <1>3, <2>1, <2>2
<1>5. /\ top \in Lengths /\ end <= top /\ LargestTarget(r) <= top
      /\ now \in Lengths /\ now <= length[r]
  <2>1. /\ end \in Nat /\ LargestTarget(r) \in Nat /\ span[c].measured \in Nat /\ Observed(r) \in Nat
        /\ length[r] \in Nat /\ Observed(r) <= length[r]
    BY <1>2, <1>3, <1>4
  <2>2. /\ top = IF end >= LargestTarget(r) THEN end ELSE LargestTarget(r)
        /\ now = IF span[c].measured >= Observed(r) THEN span[c].measured ELSE Observed(r)
    BY <2>1, MaxOfTwo
  <2>3. end \in Lengths /\ LargestTarget(r) \in Lengths /\ span[c].measured \in Lengths /\ Observed(r) \in Lengths
    BY <1>2, <1>3
  <2> HIDE DEF top, now, r, end
  <2> QED BY <1>2, <2>1, <2>2, <2>3
<1>6. /\ place \in Place /\ place.pc = "leased" /\ place.resource = r /\ place.end = end
      /\ place.target = top /\ place.current = now
  <2>1. span[c] \in Place
    BY DEF IInv, TypeInv
  <2>2. top \in Lengths /\ now \in Lengths
    BY <1>5
  <2> HIDE DEF top, now
  <2> QED BY <2>1, <2>2 DEF Place, place
<1> HIDE DEF r, end, usage, top, now
<1>7. /\ span' \in [Spans -> Place] /\ span'[c] = place
      /\ \A d \in Spans : d # c => span'[d] = span[d]
  BY <1>1, <1>6 DEF IInv, TypeInv
<1>8. TypeInv'
  BY <1>1, <1>2, <1>6, <1>7 DEF IInv, TypeInv
<1>9. SeenInv'
  BY <1>1, <1>5, <1>6, <1>7 DEF IInv, SeenInv, Leased
<1>10. ASSUME NEW q \in Resources
       PROVE  LargestTarget(q)' \in Lengths /\ LargestTarget(q)' <= IF q = r THEN top ELSE LargestTarget(q)
  <2>1. CASE q # r
    <3>1. \A d \in LeasesOf(q)' : d \in LeasesOf(q) /\ span'[d].target = span[d].target
      BY <1>6, <1>7, <2>1 DEF LeasesOf, Leased
    <3> QED BY <1>8, <2>1, <3>1, TargetShrinks DEF IInv
  <2>2. CASE q = r
    <3>1. LargestTarget(q)' \in Lengths /\ (LargestTarget(q)' = 0 \/ \E d \in LeasesOf(q)' : LargestTarget(q)' = span'[d].target)
      BY <1>8, NextTargetFacts
    <3>2. ASSUME NEW d \in LeasesOf(q)' PROVE span'[d].target <= top
      <4>1. CASE d = c
        BY <1>3, <1>5, <1>6, <1>7, <4>1
      <4>2. CASE d # c
        <5>1. d \in LeasesOf(r) /\ span'[d].target = span[d].target /\ span[d].target \in Lengths
          BY <1>7, <2>2, <4>2 DEF LeasesOf, Leased, IInv, TypeInv, Place
        <5>2. span[d].target <= LargestTarget(r)
          BY <5>1, TargetFacts DEF IInv
        <5> QED BY <1>3, <1>5, <5>1, <5>2
      <4> QED BY <4>1, <4>2
    <3> QED BY <1>3, <1>5, <2>2, <3>1, <3>2
  <2> QED BY <2>1, <2>2
<1>11. ASSUME ~stale' PROVE Committed' <= Quota
  <2> DEFINE rest == [q \in Resources |-> IF q = r THEN SatSub(top, now) ELSE SatSub(LargestTarget(q), Observed(q))]
             bound == [q \in Resources |-> length[q] + rest[q]]
             next == [q \in Resources |-> Max({length'[q], LargestTarget(q)'})]
             left == Resources \ {r}
  <2>1. IsFiniteSet(Resources) /\ IsFiniteSet(left) /\ left \in SUBSET Resources
    BY FS_Subset, QuotaAssumption
  <2>2. \A x, y \in Lengths : SatSub(x, y) \in Nat /\ x <= y + SatSub(x, y)
    BY <1>3 DEF SatSub
  <2>3. ASSUME NEW q \in Resources
        PROVE  /\ rest[q] \in Nat /\ length[q] \in Nat /\ bound[q] = length[q] + rest[q]
               /\ next[q] \in Nat /\ next[q] <= bound[q]
               /\ q # r => Outstanding[q] = rest[q]
    <3> DEFINE goal == IF q = r THEN top ELSE LargestTarget(q)
               was == IF q = r THEN now ELSE Observed(q)
    <3>1. goal \in Lengths /\ was \in Lengths /\ was <= length[q] /\ rest[q] = SatSub(goal, was)
      BY <1>3, <1>4, <1>5
    <3>2. LargestTarget(q)' \in Lengths /\ LargestTarget(q)' <= goal
      BY <1>10
    <3>3. length[q] \in Lengths /\ length'[q] = length[q]
      BY <1>1, <1>3
    <3>4. next[q] = IF length[q] >= LargestTarget(q)' THEN length[q] ELSE LargestTarget(q)'
      BY <1>3, <3>2, <3>3, MaxOfTwo
    <3>5. bound[q] = length[q] + rest[q] /\ (q # r => Outstanding[q] = rest[q])
      BY DEF Outstanding
    <3>6. rest[q] \in Nat /\ goal <= was + rest[q]
      BY <2>2, <3>1
    <3> HIDE DEF goal, was, rest, bound, next
    <3>7. goal \in Nat /\ was \in Nat /\ length[q] \in Nat /\ LargestTarget(q)' \in Nat
      BY <1>3, <3>1, <3>2, <3>3
    <3> QED BY <3>1, <3>2, <3>4, <3>5, <3>6, <3>7
  <2>4. Committed' = SumFunctionOnSet(next, Resources)
    BY DEF Committed
  <2> HIDE DEF rest, bound, next
  <2>5. SumFunctionOnSet(next, Resources) <= SumFunctionOnSet(bound, Resources)
    <3>1. \A q \in Resources : next[q] \in Nat /\ bound[q] \in Nat /\ next[q] <= bound[q]
      BY <2>3
    <3> QED BY <2>1, <3>1, SumMonotone
  <2>6. SumFunctionOnSet(bound, Resources) = Usage + SumFunctionOnSet(rest, Resources)
    <3>1. \A q \in Resources : length[q] \in Nat /\ rest[q] \in Nat /\ bound[q] = length[q] + rest[q]
      BY <2>3
    <3> QED BY <2>1, <3>1, SumOfSums DEF Usage
  <2>7. /\ SumFunctionOnSet(rest, Resources) = rest[r] + SumFunctionOnSet(rest, left)
        /\ SumFunctionOnSet(rest, Resources) \in Nat /\ SumFunctionOnSet(rest, left) \in Nat
    <3>1. \A q \in Resources : rest[q] \in Nat
      BY <2>3
    <3>2. r \in Resources /\ Resources \in SUBSET Resources
      BY <1>2
    <3> QED BY <2>1, <3>1, <3>2, SumFacts
  <2>8. SumFunctionOnSet(rest, left) = others
    <3>1. \A q \in left : Outstanding[q] \in Nat /\ rest[q] = Outstanding[q]
      BY <2>3
    <3>2. SumFunctionOnSet(rest, left) = SumFunctionOnSet(Outstanding, left)
      BY <2>1, <3>1, SumSame
    <3> QED BY <3>2 DEF others
  <2>9. rest[r] = SatSub(top, now) /\ rest[r] \in Nat
    BY <1>2, <2>3 DEF rest
  <2>10. Usage \in Nat /\ Usage <= usage
    <3>1. Usage \in Nat
      BY UsageType DEF IInv
    <3>2. ~(usage < Usage)
      BY <1>1, <2>4, <1>11
    <3> QED BY <1>2, <3>1, <3>2
  <2>11. Committed' \in Nat
    BY <1>8, <2>1, <2>3, <2>4, SumFacts
  <2>12. SumFunctionOnSet(bound, Resources) = Usage + (rest[r] + others)
    BY <2>6, <2>7, <2>8
  <2>13. others \in Nat /\ usage + others + rest[r] <= Quota
    BY <1>1, <2>7, <2>8, <2>9
  <2> QED BY <1>2, <2>4, <2>5, <2>9, <2>10, <2>11, <2>12, <2>13, QuotaAssumption
<1> QED BY <1>8, <1>9, <1>11 DEF IInv, OnlyStaleUsageOversubscribes

-----------------------------------------------------------------------------
(* The theorems.                                                            *)

\* The invariant is inductive.
LEMMA Invariance ==
    QuotaInit /\ [][QuotaNext]_quotaVars => []IInv
<1>1. QuotaInit => IInv
  <2> SUFFICES ASSUME QuotaInit PROVE IInv
    OBVIOUS
  <2>1. NoSpan \in Place /\ NoSpan.pc = "idle" /\ 0 \in Lengths
    BY QuotaAssumption DEF NoSpan, Place, Lengths
  <2>2. TypeInv /\ SeenInv
    BY <2>1 DEF QuotaInit, TypeInv, SeenInv, Leased
  <2>3. Committed = 0
    <3> DEFINE f == [r \in Resources |-> Max({length[r], LargestTarget(r)})]
               P == {S \in SUBSET Resources : SumFunctionOnSet(f, S) = 0}
    <3>1. \A r \in Resources : f[r] = 0
      <4> TAKE r \in Resources
      <4>1. LeasesOf(r) = {}
        BY <2>1 DEF QuotaInit, LeasesOf, Leased
      <4>2. LargestTarget(r) = 0
        BY <2>2, <4>1, TargetFacts
      <4>3. length[r] = 0 /\ Max({0, 0}) = 0
        BY MaxOfTwo DEF QuotaInit
      <4> QED BY <4>2, <4>3
    <3> HIDE DEF f
    <3>2. /\ SumFunctionOnSet(f, {}) = 0
          /\ \A S \in SUBSET Resources : \A r \in S :
                SumFunctionOnSet(f, S) = f[r] + SumFunctionOnSet(f, S \ {r})
      BY <3>1, SumFacts, QuotaAssumption
    <3>3. {} \in P
      BY <3>2
    <3>4. ASSUME NEW S \in SUBSET Resources, S # {}, \A r \in S : S \ {r} \in P PROVE S \in P
      <4>1. PICK r : r \in S
        BY <3>4
      <4>2. SumFunctionOnSet(f, S) = f[r] + SumFunctionOnSet(f, S \ {r}) /\ f[r] = 0
        BY <3>1, <3>2, <4>1
      <4>3. SumFunctionOnSet(f, S \ {r}) = 0
        BY <3>4, <4>1
      <4> QED BY <4>2, <4>3
    <3>5. Resources \in P
      <4> HIDE DEF P
      <4>1. \A S \in SUBSET Resources : S \in P
        BY <3>3, <3>4, SubsetInduction, QuotaAssumption
      <4> QED BY <4>1
    <3> QED BY <3>5 DEF Committed, f
  <2> QED BY <2>2, <2>3, QuotaAssumption DEF IInv, OnlyStaleUsageOversubscribes
<1>2. IInv /\ [QuotaNext]_quotaVars => IInv'
  <2> SUFFICES ASSUME IInv, [QuotaNext]_quotaVars PROVE IInv'
    OBVIOUS
  <2>1. CASE UNCHANGED quotaVars
    <3>1. /\ TypeInv' = TypeInv /\ SeenInv' = SeenInv
          /\ OnlyStaleUsageOversubscribes' = OnlyStaleUsageOversubscribes
      BY <2>1 DEF quotaVars, TypeInv, SeenInv, Leased, OnlyStaleUsageOversubscribes, Committed, LargestTarget, LeasesOf
    <3> QED BY <3>1 DEF IInv
  <2>2. CASE QuotaNext
    BY <2>2, MeasuresKeep, ReserveKeeps, WriteKeeps, NoteKeeps, EvictKeeps DEF QuotaNext
  <2> QED BY <2>1, <2>2
<1> QED BY <1>1, <1>2, PTL

\* Reservations alone never oversubscribe the quota, however many clients share
\* targets and report lengths late: only a usage that other writers had
\* outdated when it was used can.
THEOREM QuotaHoldsOnCurrentUsage ==
    QuotaSpec => []OnlyStaleUsageOversubscribes
<1>1. IInv => OnlyStaleUsageOversubscribes
  BY DEF IInv
<1> QED BY <1>1, Invariance, PTL DEF QuotaSpec
=============================================================================
