------------------------- MODULE ResolutionSessions -------------------------
(***************************************************************************)
(* The snapshots of resolved inputs that clients page through and select   *)
(* from (bilibili_resolution.rs and its handlers in grpc_services.rs): a   *)
(* bounded store whose sessions expire, are evicted by younger ones and    *)
(* hand out opaque tokens for pages and candidates.                        *)
(*                                                                         *)
(* A candidate is [id, whole], `whole' if its identity is complete.  The   *)
(* token of a page or of a candidate is <<session, offset>>; sessions are  *)
(* numbered as they are created.                                           *)
(***************************************************************************)
EXTENDS Naturals, Sequences, FiniteSets, TLC

CONSTANTS
    Clients,
    Resolutions,   \* what the planner may answer each client: [candidates, default]
    MaxProfile,    \* bound on the changes of the default credential profile
    PageSizes,     \* page sizes that are asked for
    MaxPage,       \* largest page
    Ttl,           \* lifetime of a session
    MaxSessions, MaxTotal,             \* capacity, in sessions and candidates
    BaseBytes, ItemBytes, CursorBytes, MaxBytes,  \* and in bytes
    MaxTask,       \* candidates of a task
    MaxTime, MaxSerial,  \* bounds on the clock and on the sessions
    None

VARIABLES
    sessions,  \* the store: a record for each live session
    order,     \* their ids, oldest first
    cursors,   \* the page tokens
    total,     \* candidates and bytes that are accounted for
    serial,    \* the last session
    made,      \* for each session that ever was, what it was made of
    profile,   \* the default credential profile
    now,
    client     \* for each client: its call, its session, what it was shown

vars == <<sessions, order, cursors, total, serial, made, profile, now, client>>

Values(s) == {s[i] : i \in DOMAIN s}
Least(S) == CHOOSE x \in S : \A y \in S : x <= y
RECURSIVE Sum(_, _)
Sum(f, S) == IF S = {} THEN 0 ELSE LET x == CHOOSE x \in S : TRUE IN f[x] + Sum(f, S \ {x})

NoClient ==
    [pc |-> "idle", res |-> None, frozen |-> None, session |-> 0, shown |-> << >>, next |-> None, task |-> None]

Init ==
    /\ sessions = << >> /\ order = << >> /\ cursors = {}
    /\ total = [candidates |-> 0, bytes |-> 0] /\ serial = 0 /\ made = << >>
    /\ profile = 0 /\ now = 0
    /\ client = [q \in Clients |-> NoClient]

-----------------------------------------------------------------------------
(* The store.  Its fields are handed from one operation to the next as a   *)
(* record [sessions, order, cursors, total].                               *)

Store == [sessions |-> sessions, order |-> order, cursors |-> cursors, total |-> total]
Keep(st) ==
    /\ sessions' = st.sessions /\ order' = st.order
    /\ cursors' = st.cursors /\ total' = st.total

RemoveSession(st, id) ==
    [st EXCEPT !.sessions = [x \in DOMAIN @ \ {id} |-> @[x]],
               !.total = [candidates |-> @.candidates - Len(st.sessions[id].candidates),
                          bytes |-> @.bytes - st.sessions[id].bytes],
               !.order = SelectSeq(@, LAMBDA x : x # id),
               !.cursors = {c \in @ : c[1] # id}]

Expired(st) == {id \in DOMAIN st.sessions : st.sessions[id].expires <= now}

RECURSIVE WithoutAll(_, _)
WithoutAll(st, ids) ==
    IF ids = {} THEN st
    ELSE LET id == CHOOSE id \in ids : TRUE IN WithoutAll(RemoveSession(st, id), ids \ {id})
Prune(st) == WithoutAll(st, Expired(st))

\* estimate_session_bytes: a cursor for every offset, whether it is made or not.
EstimatedBytes(n) == BaseBytes + n * ItemBytes + (n - 1) * CursorBytes

ValidResolution(res) ==
    LET ids == {c.id : c \in Values(res.candidates)}
    IN  /\ Len(res.candidates) \in 1..MaxTotal
        /\ \A c \in Values(res.candidates) : c.whole
        /\ Cardinality(ids) = Len(res.candidates)
        /\ res.default # None => res.default \in ids

CapacityExceeded(st, candidates, bytes) ==
    \/ Cardinality(DOMAIN st.sessions) >= MaxSessions
    \/ st.total.candidates + candidates > MaxTotal
    \/ st.total.bytes + bytes > MaxBytes

\* The oldest sessions make room.
RECURSIVE MakeRoom(_, _, _)
MakeRoom(st, candidates, bytes) ==
    IF CapacityExceeded(st, candidates, bytes)
    THEN MakeRoom(RemoveSession(st, st.order[1]), candidates, bytes) ELSE st

\* page_at_offset: the page, and a token for the next one that stays the same.
PageEnd(s, offset, size) == Least({offset + size, Len(s.candidates)})
WithPage(st, id, offset, size) ==
    LET end == PageEnd(st.sessions[id], offset, size)
    IN  IF end < Len(st.sessions[id].candidates)
        THEN [st EXCEPT !.cursors = @ \cup {<<id, end>>}] ELSE st
Shown(s, id, offset, size) == [i \in 1..(PageEnd(s, offset, size) - offset) |-> <<id, offset + i>>]
NextToken(s, id, offset, size) ==
    IF PageEnd(s, offset, size) < Len(s.candidates) THEN <<id, PageEnd(s, offset, size)>> ELSE None

Answered(q, st, id, offset, size) ==
    client' = [client EXCEPT ![q].pc = "idle", ![q].session = id, ![q].res = None, ![q].frozen = None,
                             ![q].shown = (IF offset = 0 THEN << >> ELSE @) \o Shown(st.sessions[id], id, offset, size),
                             ![q].next = NextToken(st.sessions[id], id, offset, size)]
Refused(q) == client' = [client EXCEPT ![q].pc = "idle", ![q].res = None, ![q].frozen = None]

-----------------------------------------------------------------------------
(* The handlers.                                                           *)

\* start_bilibili_resolution: the profile is frozen before the input is
\* resolved (freeze_bilibili_resolution_context).
StartResolution(q) ==
    /\ client[q].pc = "idle"
    /\ \E res \in Resolutions[q] :
          client' = [client EXCEPT ![q].pc = "resolving", ![q].res = res, ![q].frozen = profile]
    /\ UNCHANGED <<sessions, order, cursors, total, serial, made, profile, now>>

\* create_session
CreateSession(q) ==
    /\ client[q].pc = "resolving" /\ serial < MaxSerial
    /\ \E size \in PageSizes :
          LET res == client[q].res
              bytes == EstimatedBytes(Len(res.candidates))
              pruned == Prune(Store)
              id == serial + 1
              room == MakeRoom(pruned, Len(res.candidates), bytes)
              new == [candidates |-> res.candidates, expires |-> now + Ttl, bytes |-> bytes, context |-> client[q].frozen]
              stored == [room EXCEPT !.sessions = [x \in DOMAIN @ \cup {id} |-> IF x = id THEN new ELSE @[x]],
                                     !.order = Append(@, id),
                                     !.total = [candidates |-> @.candidates + Len(res.candidates), bytes |-> @.bytes + bytes]]
          IN  IF size \notin 1..MaxPage \/ ~ValidResolution(res) \/ bytes > MaxBytes
              THEN Keep(pruned) /\ Refused(q) /\ UNCHANGED <<serial, made>>
              ELSE /\ serial' = id /\ made' = Append(made, [candidates |-> res.candidates, context |-> client[q].frozen])
                   /\ Keep(WithPage(stored, id, 0, size)) /\ Answered(q, stored, id, 0, size)
    /\ UNCHANGED <<profile, now>>

\* list_bilibili_resolution_candidates: the next page, the first one again, or
\* with a token that another session gave.
ListCandidates(q, token) ==
    /\ client[q].pc = "idle" /\ client[q].session # 0
    /\ token \in {None, client[q].next} \cup {client[r].next : r \in Clients}
    /\ \E size \in PageSizes :
          LET id == client[q].session
              pruned == Prune(Store)
              offset == IF token = None THEN 0 ELSE token[2]
              valid == /\ size \in 1..MaxPage /\ id \in DOMAIN pruned.sessions
                       /\ token # None => token \in pruned.cursors /\ token[1] = id
              \* A client that goes back starts over.
              follows == token = None \/ token = client[q].next
          IN  /\ valid => follows
              /\ IF ~valid THEN Keep(pruned) /\ Refused(q)
                 ELSE Keep(WithPage(pruned, id, offset, size)) /\ Answered(q, pruned, id, offset, size)
    /\ UNCHANGED <<serial, made, profile, now>>

CandidateOffset(id, token) == token[1] = id

SelectedOffsets_OpenRange(selection) ==
    CASE selection.mode \in {"single", "multiple"} -> [i \in DOMAIN selection.tokens |-> selection.tokens[i][2]]
      [] selection.mode = "range" -> [i \in 1..(selection.last[2] - selection.first[2]) |-> selection.first[2] + i - 1]
      [] selection.mode = "all" -> [i \in 1..selection.count |-> i]

\* selected_offsets, of a selection that is valid
SelectedOffsets(selection) ==
    CASE selection.mode \in {"single", "multiple"} -> [i \in DOMAIN selection.tokens |-> selection.tokens[i][2]]
      [] selection.mode = "range" -> [i \in 1..(selection.last[2] - selection.first[2] + 1) |-> selection.first[2] + i - 1]
      [] selection.mode = "all" -> [i \in 1..selection.count |-> i]

\* validate_bilibili_resolution_selection and the checks of selected_offsets
ValidSelection(selection, id) ==
    /\ \A t \in Values(selection.tokens) \cup ({selection.first, selection.last} \ {None}) : CandidateOffset(id, t)
    /\ CASE selection.mode = "single" -> Len(selection.tokens) = 1
         [] selection.mode = "multiple" ->
               /\ Len(selection.tokens) \in 1..MaxTask
               /\ Cardinality(Values(selection.tokens)) = Len(selection.tokens)
         [] selection.mode = "range" ->
               /\ selection.first[2] <= selection.last[2]
               /\ selection.last[2] - selection.first[2] + 1 <= MaxTask
         [] selection.mode = "all" -> selection.count <= MaxTask

\* What a client may select: of what it was shown, or with a token of another.
Selections(q) ==
    LET shown == Values(client[q].shown) \cup {client[r].shown[1] : r \in {r \in Clients : client[r].shown # << >>}}
        nothing == [tokens |-> << >>, first |-> None, last |-> None, count |-> 0]
    IN  {[nothing EXCEPT !.tokens = ts] @@ [mode |-> m] :
            m \in {"single", "multiple"}, ts \in {<<t>> : t \in shown} \cup (shown \X shown)}
        \cup {[nothing EXCEPT !.first = t, !.last = u] @@ [mode |-> "range"] : t \in shown, u \in shown}
        \cup {nothing @@ [mode |-> "all"]}

\* accept_selection, and the task that is created of it (bound: the last call of
\* its client, for the session is left as it is).
CreateTask(q, selection) ==
    /\ client[q].pc = "idle" /\ client[q].session # 0
    /\ LET id == client[q].session
           pruned == Prune(Store)
           of == IF selection.mode = "all" /\ id \in DOMAIN pruned.sessions
                 THEN [selection EXCEPT !.count = Len(pruned.sessions[id].candidates)] ELSE selection
           offsets == SelectedOffsets(of)
       IN  /\ Keep(pruned)
           /\ IF id \notin DOMAIN pruned.sessions \/ ~ValidSelection(of, id) THEN Refused(q)
              ELSE client' = [client EXCEPT ![q] = [NoClient EXCEPT !.pc = "done", !.task =
                      [selection |-> selection, context |-> pruned.sessions[id].context,
                       candidates |-> [i \in DOMAIN offsets |-> pruned.sessions[id].candidates[offsets[i]]]]]]
    /\ UNCHANGED <<serial, made, profile, now>>

\* The reaper, the clock, and the owner of the credentials.
Reap ==
    /\ Expired(Store) # {} /\ Keep(Prune(Store))
    /\ UNCHANGED <<serial, made, profile, now, client>>
Elapse == now < MaxTime /\ now' = now + 1 /\ UNCHANGED <<sessions, order, cursors, total, serial, made, profile, client>>
ChangeProfile ==
    /\ profile < MaxProfile /\ profile' = profile + 1
    /\ UNCHANGED <<sessions, order, cursors, total, serial, made, now, client>>

Next ==
    \/ \E q \in Clients : StartResolution(q) \/ CreateSession(q)
    \/ \E q \in Clients : \E token \in {None} \cup {client[r].next : r \in Clients} : ListCandidates(q, token)
    \/ \E q \in Clients : \E selection \in Selections(q) : CreateTask(q, selection)
    \/ Reap \/ Elapse \/ ChangeProfile

Spec == Init /\ [][Next]_vars

-----------------------------------------------------------------------------
\* The pages that a client follows, of whatever sizes and through whatever
\* happens to other sessions, list its snapshot from the start without a gap or
\* a repetition, and completely once there is no next page.
PagesAreTheSnapshot ==
    \A q \in Clients : client[q].session # 0 =>
        LET snapshot == made[client[q].session].candidates
        IN  /\ client[q].shown = [i \in 1..Len(client[q].shown) |-> <<client[q].session, i>>]
            /\ Len(client[q].shown) <= Len(snapshot)
            /\ client[q].next = None => Len(client[q].shown) = Len(snapshot)

\* A task holds the candidates that its client was shown under the tokens it
\* selected, none twice and no more than a task may have, with the context that
\* was frozen when they were resolved.
TasksAreWhatWasSelected ==
    \A q \in Clients : client[q].task # None =>
        LET task == client[q].task
            chosen(t) == made[t[1]].candidates[t[2]]
            tokens == Values(task.selection.tokens)
        IN  /\ Len(task.candidates) \in 1..MaxTask
            /\ Cardinality(Values(task.candidates)) = Len(task.candidates)
            /\ CASE task.selection.mode \in {"single", "multiple"} -> Values(task.candidates) = {chosen(t) : t \in tokens}
                 [] task.selection.mode = "range" ->
                       /\ task.candidates[1] = chosen(task.selection.first)
                       /\ task.candidates[Len(task.candidates)] = chosen(task.selection.last)
                 [] task.selection.mode = "all" -> \E i \in DOMAIN made : task.candidates = made[i].candidates
            /\ \E i \in DOMAIN made : task.context = made[i].context /\ Values(task.candidates) \subseteq Values(made[i].candidates)

\* The accounts are those of the sessions, the capacity is never exceeded, not
\* even by tokens that are made later, and a token is of a live session.
StoreIsBounded ==
    /\ Values(order) = DOMAIN sessions /\ Len(order) = Cardinality(DOMAIN sessions) /\ Len(order) <= MaxSessions
    /\ total.candidates = Sum([id \in DOMAIN sessions |-> Len(sessions[id].candidates)], DOMAIN sessions)
    /\ total.candidates <= MaxTotal /\ total.bytes <= MaxBytes
    /\ \A c \in cursors : c[1] \in DOMAIN sessions
    /\ Sum([id \in DOMAIN sessions |-> BaseBytes + Len(sessions[id].candidates) * ItemBytes], DOMAIN sessions)
          + Cardinality(cursors) * CursorBytes <= total.bytes

SelectionIsHonest == PagesAreTheSnapshot /\ TasksAreWhatWasSelected /\ StoreIsBounded
=============================================================================
