----------------------------- MODULE CdnHistory -----------------------------
(***************************************************************************)
(* The CDN history (cdn_history.rs): what media reads, cache fills and     *)
(* downloads observed of the origins, the ranking of the URLs of a         *)
(* resource by it, and the coalescing writer of its file.  Observations    *)
(* come from anywhere (Record) and from a streamed body, judged at its end,*)
(* at its first error or when it is dropped (CdnBodyObservation, media.rs).*)
(* Clock readings and time to live are small numbers; a URL is its origin  *)
(* (None when it has no canonical origin) and a number; a digest stands    *)
(* for the fields it is computed from.  A restart is of the process: the   *)
(* file is what the last rename left.                                      *)
(***************************************************************************)
EXTENDS Naturals, Sequences, FiniteSets, Functions, SequencesExt

CONSTANTS Files,        \* what the first start finds: None, Invalid
          Resources,    \* resource -> [digest, urls]: its digest or None and its candidates
          Seen,         \* the observations an actor may report
          Lengths,      \* the body lengths responses announce, None when unknown
          HostTtl, RepTtl, BaseCooldown, MaxCooldown,
          MaxHosts, MaxReps, MaxOrigins, MaxCandidates, MaxFile,
          MaxRecords, MaxTime, MaxFaults, None

VARIABLES hist,      \* HistoryState: [seq, hosts, reps]
          now,       \* the clock
          disk,      \* the file: a HistoryState, None or Invalid
          path,      \* whether the history is persisted
          writer,    \* WriterControl and the writer task: [closed, running, pc, snap]
          persisted, \* persisted_sequence
          due,       \* recorders that are about to call schedule_write, when there is a path
          stop,      \* shutdown_and_wait: [pc, snap, from]
          body,      \* a streamed body and its CdnBodyObservation
          faults     \* [n: failed writes so far, last: the last write failed]

vars == <<hist, now, disk, path, writer, persisted, due, stop, body, faults>>

Empty == [version |-> 1, seq |-> 0, hosts |-> << >>, reps |-> << >>]

\* A malformed, unsupported, oversized or unreadable file.
Invalid == [Empty EXCEPT !.version = 0]

\* The members of S in the strict total order Less.
Sorted(S, Less(_, _)) ==
    [k \in 1..Cardinality(S) |-> CHOOSE i \in S : Cardinality({j \in S : Less(j, i)}) = k - 1]

\* The entries of records f without the n that were updated longest ago.
WithoutOldest(f, n) ==
    LET gone == CHOOSE S \in SUBSET DOMAIN f :
                  /\ Cardinality(S) = n
                  /\ \A a \in S, b \in DOMAIN f \ S : f[a].at <= f[b].at
    IN Restrict(f, DOMAIN f \ gone)

Bounded(f, limit) ==
    IF Cardinality(DOMAIN f) > limit THEN WithoutOldest(f, Cardinality(DOMAIN f) - limit) ELSE f

Fresh(f, ttl, t) == RestrictDomain(f, LAMBDA k : t < f[k].at + ttl)

Prune(h, t) == [h EXCEPT !.hosts = Bounded(Fresh(@, HostTtl, t), MaxHosts),
                         !.reps = Bounded(Fresh(@, RepTtl, t), MaxReps)]

\* The MaxOrigins most recent origins of a digest.
PruneTopK(reps, digest) ==
    RestrictDomain(reps, LAMBDA k :
        k[1] = digest => Cardinality({j \in DOMAIN reps : /\ j[1] = digest
                                                          /\ \/ reps[j].at > reps[k].at
                                                             \/ reps[j].at = reps[k].at /\ reps[j].seq > reps[k].seq})
                         < MaxOrigins)

TransportFailure(o) == o.outcome \in {"connection", "timeout", "server"}

CooldownSecs(failures) ==
    LET shift == IF failures > 7 THEN 6 ELSE failures - 1
        secs == BaseCooldown * 2^shift
    IN IF secs < MaxCooldown THEN secs ELSE MaxCooldown

Ewma(old, sample) == IF old = None THEN sample ELSE (3 * old + sample) \div 4

\* The record e after a completed transfer.
Metrics(e, o) ==
    [e EXCEPT !.ok = TRUE, !.fails = 0, !.cool = 0, !.quar = 0,
              !.thr = IF o.shard \/ o.thr = None THEN @ ELSE Ewma(@, o.thr),
              !.lat = IF o.shard \/ o.lat = None THEN @ ELSE Ewma(@, o.lat),
              !.range = IF o.range = None THEN @ ELSE o.range]

Unknown == [at |-> 0, seq |-> 0, ok |-> TRUE, fails |-> 0, cool |-> 0, quar |-> 0,
            thr |-> None, lat |-> None, range |-> None]

Stamped(f, k, seq, t) == [(IF k \in DOMAIN f THEN f[k] ELSE Unknown) EXCEPT !.at = t, !.seq = seq]

Failed(e, t) == [e EXCEPT !.ok = FALSE, !.fails = @ + 1, !.cool = t + CooldownSecs(e.fails + 1),
                          !.thr = None, !.lat = None, !.range = None]

UpdateHost(e, o, t) == IF TransportFailure(o) THEN Failed(e, t) ELSE Metrics(e, o)

UpdateRepresentation(e, o, t) ==
    CASE o.outcome = "integrity" -> [e EXCEPT !.quar = t + RepTtl, !.ok = FALSE,
                                              !.thr = None, !.lat = None, !.range = None]
      [] TransportFailure(o) -> Failed(e, t)
      [] OTHER -> Metrics(e, o)

Set(f, k, v) == [x \in DOMAIN f \cup {k} |-> IF x = k THEN v ELSE f[x]]

\* record_at under the state lock.
RecordAt(h, origin, o, digest, t) ==
    LET p == Prune(h, t)
        s == p.seq + 1
        key == <<digest, origin>>
        global == TransportFailure(o) \/ o.outcome = "complete"
        hosts == IF global THEN Set(p.hosts, origin, UpdateHost(Stamped(p.hosts, origin, s, t), o, t))
                 ELSE p.hosts
        reps == IF digest # None /\ (global \/ o.outcome = "integrity")
                THEN PruneTopK(Set(p.reps, key, UpdateRepresentation(Stamped(p.reps, key, s, t), o, t)), digest)
                ELSE p.reps
    IN Prune([p EXCEPT !.seq = s, !.hosts = hosts, !.reps = reps], t)

-----------------------------------------------------------------------------
(* Ranking *)

\* The URLs of a resource, each where it appears first.
RequestCandidates(r) ==
    LET urls == Resources[r].urls
        firsts == {i \in DOMAIN urls : \A j \in 1..(i - 1) : urls[j] # urls[i]}
        order == Sorted(firsts, <)
    IN [k \in DOMAIN order |-> urls[order[k]]]

RepOf(h, r, u) ==
    LET key == <<Resources[r].digest, u.origin>>
    IN IF u.origin # None /\ key \in DOMAIN h.reps THEN h.reps[key] ELSE None

HostOf(h, u) == IF u.origin \in DOMAIN h.hosts THEN h.hosts[u.origin] ELSE None

Quarantined(h, r, u, t) == LET rep == RepOf(h, r, u) IN rep # None /\ t < rep.quar

Cooling(h, r, u, t) ==
    LET rep == RepOf(h, r, u)
        host == HostOf(h, u)
    IN (rep # None /\ t < rep.cool) \/ (host # None /\ t < host.cool)

Tier(h, r, u, t) ==
    LET rep == RepOf(h, r, u)
        host == HostOf(h, u)
        healthy == IF rep # None THEN rep.ok /\ (host # None => host.ok) ELSE host # None /\ host.ok
    IN IF Quarantined(h, r, u, t) \/ Cooling(h, r, u, t) THEN 2 ELSE IF healthy THEN 0 ELSE 1

\* The record whose measurements count for a URL.
Measured(h, r, u) ==
    LET rep == RepOf(h, r, u)
        host == HostOf(h, u)
    IN IF host # None /\ ~host.ok THEN None
       ELSE IF rep # None /\ rep.ok THEN rep ELSE host

Recency(h, r, u, t) ==
    LET rep == RepOf(h, r, u)
    IN IF rep # None /\ Tier(h, r, u, t) = 0 THEN <<rep.at, rep.seq>> ELSE <<0, 0>>

Sample(h, r, u) == LET e == Measured(h, r, u) IN IF e = None THEN <<None, None>> ELSE <<e.thr, e.lat>>

\* What the URL at position i is ranked by.
RankKey(h, r, u, t, i) ==
    [tier |-> Tier(h, r, u, t), thr |-> Sample(h, r, u)[1], lat |-> Sample(h, r, u)[2],
     recent |-> Recency(h, r, u, t), index |-> i]

\* The order of tap_sort: tier, throughput, latency, recency, given order.
Before(a, b) ==
    CASE a.tier # b.tier -> a.tier < b.tier
      [] a.thr # b.thr -> b.thr = None \/ (a.thr # None /\ a.thr > b.thr)
      [] a.lat # b.lat -> b.lat = None \/ (a.lat # None /\ a.lat < b.lat)
      [] a.recent # b.recent -> \/ a.recent[1] > b.recent[1]
                                \/ a.recent[1] = b.recent[1] /\ a.recent[2] > b.recent[2]
      [] OTHER -> a.index < b.index

\* rank_request_at: the first MaxCandidates are ranked, the others follow.
RankRequest(h0, r, t) ==
    LET h == Prune(h0, t)
        urls == RequestCandidates(r)
        n == Min({Len(urls), MaxCandidates})
        order == Sorted({RankKey(h, r, urls[i], t, i) : i \in 1..n}, Before)
    IN [k \in 1..Len(urls) |-> IF k <= n THEN urls[order[k].index] ELSE urls[k]]

Blocked(h, r, u, t) ==
    \/ Quarantined(h, r, u, t) \/ Cooling(h, r, u, t)
    \/ HostOf(h, u) # None /\ HostOf(h, u).range = FALSE
    \/ RepOf(h, r, u) # None /\ RepOf(h, r, u).range = FALSE

\* The first usable URL of each of the best origins: positions in ranked.
Selected(h, r, t, ranked) ==
    LET usable(i) == i <= MaxCandidates /\ ranked[i].origin # None /\ ~Blocked(h, r, ranked[i], t)
        firsts == {i \in DOMAIN ranked :
                     /\ usable(i)
                     /\ \A j \in 1..(i - 1) : usable(j) => ranked[j].origin # ranked[i].origin}
        sorted == Sorted(firsts, <)
    IN SubSeq(sorted, 1, Min({Len(sorted), MaxOrigins}))

\* rank_request_for_range_at: the selected positions lead, rotated by the chunk,
\* if there are two.
Rotated(ranked, selected, chunk) ==
    LET n == Len(selected)
        rest == Sorted(DOMAIN ranked \ Range(selected), <)
    IN IF n < 2 THEN ranked
       ELSE [k \in DOMAIN ranked |->
                IF k <= n THEN ranked[selected[((chunk + k - 1) % n) + 1]] ELSE ranked[rest[k - n]]]

-----------------------------------------------------------------------------
(* Start, observations and the body of a media read *)

NoBody == [pc |-> "none", got |-> 0, exp |-> None, valid |-> FALSE, judged |-> << >>]
NoWriter == [closed |-> FALSE, running |-> FALSE, pc |-> "idle", snap |-> Empty]

\* load: an invalid file is left alone and the history stays in memory.
Load(file, t) ==
    CASE file = None -> [hist |-> Empty, path |-> TRUE]
      [] file = Invalid -> [hist |-> Empty, path |-> FALSE]
      [] OTHER -> [hist |-> Prune(file, t), path |-> TRUE]

Init ==
    /\ now = 0 /\ disk \in Files
    /\ hist = Empty /\ path = (disk # Invalid)
    /\ writer = NoWriter /\ persisted = 0 /\ due = 0
    /\ stop = [pc |-> "no", snap |-> Empty, from |-> 0]
    /\ body = NoBody /\ faults = [n |-> 0, last |-> FALSE]

Tick == /\ now < MaxTime /\ now' = now + 1
        /\ UNCHANGED <<hist, disk, path, writer, persisted, due, stop, body, faults>>

\* record_request (with a digest) and record_origin (None).
Observe(r, u, o, digest) ==
    /\ hist.seq < MaxRecords
    /\ IF u.origin = None THEN UNCHANGED <<hist, due>>
       ELSE hist' = RecordAt(hist, u.origin, o, digest, now) /\ due' = IF path THEN due + 1 ELSE due

\* A read or a fill reports on a resource, a download only on an origin.
Record(r, i, o) ==
    /\ stop.pc # "done" /\ due < 2
    /\ Observe(r, Resources[r].urls[i], o, IF o.shard THEN None ELSE Resources[r].digest)
    /\ hist' # hist
    /\ UNCHANGED <<now, disk, path, writer, persisted, stop, body, faults>>

\* Prune as a ranking leaves it: the sequence does not change.
Rank == /\ hist' = Prune(hist, now) /\ hist' # hist
        /\ UNCHANGED <<now, disk, path, writer, persisted, due, stop, body, faults>>

\* A response that is served, its expected length (expected_media_body_bytes)
\* and whether its Content-Length was validated.
OpenBody(exp, valid) ==
    /\ body.pc = "none" /\ stop.pc = "no" /\ hist.seq < MaxRecords /\ (valid => exp # None)
    /\ body' = [NoBody EXCEPT !.pc = "open", !.exp = exp, !.valid = valid]
    /\ UNCHANGED <<hist, now, disk, path, writer, persisted, due, stop, faults>>

ObserveChunk ==
    /\ body.pc = "open" /\ body.got < 2 /\ body' = [body EXCEPT !.got = @ + 1]
    /\ UNCHANGED <<hist, now, disk, path, writer, persisted, due, stop, faults>>

\* What finish makes of an outcome.
Judged(b, outcome) == IF outcome = "complete" /\ b.exp # None /\ b.exp # b.got THEN "integrity" ELSE outcome

\* What Drop makes of a body nobody finished; None: nothing to record.
Dropped(b) ==
    CASE b.got = 0 /\ ~b.valid -> None
      [] b.exp # None /\ b.got > b.exp -> "integrity"
      [] b.exp # None /\ b.valid /\ b.got = b.exp -> "complete"
      [] OTHER -> "partial"

Playback(outcome) == [outcome |-> outcome, shard |-> FALSE, thr |-> 1, lat |-> None, range |-> None]

\* The URL that answered is the first candidate of the first resource.
Answered == CHOOSE r \in DOMAIN Resources : TRUE

RecordBody(outcome, pc) ==
    /\ Observe(Answered, Resources[Answered].urls[1], Playback(outcome), Resources[Answered].digest)
    /\ body' = [body EXCEPT !.pc = pc, !.judged = Append(@, outcome)]
    /\ UNCHANGED <<now, disk, path, writer, persisted, stop, faults>>

\* The stream ends, or fails for the first time.
EndBody(outcome) ==
    /\ body.pc = "open" /\ due < 2
    /\ RecordBody(Judged(body, outcome), "ended")

\* The framework drops the body: a blocking task records what it amounts to.
DropBody ==
    /\ body.pc \in {"open", "ended"}
    /\ body' = [body EXCEPT !.pc = IF body.pc = "ended" \/ Dropped(body) = None THEN "gone" ELSE "late"]
    /\ UNCHANGED <<hist, now, disk, path, writer, persisted, due, stop, faults>>

RecordLate == body.pc = "late" /\ due < 2 /\ RecordBody(Dropped(body), "gone")

-----------------------------------------------------------------------------
(* The writer *)

ScheduleWrite ==
    /\ due > 0 /\ due' = due - 1
    /\ IF writer.closed \/ writer.running THEN UNCHANGED <<writer, faults>>
       ELSE /\ writer' = [writer EXCEPT !.running = TRUE, !.pc = "start"]
            /\ faults' = [faults EXCEPT !.last = FALSE]
    /\ UNCHANGED <<hist, now, disk, path, persisted, stop, body>>

Idle(wr) == [wr EXCEPT !.running = FALSE, !.pc = "idle", !.snap = Empty]

\* A round of run_writer begins; the throttle is only a delay.
WriterStarts ==
    /\ writer.pc = "start"
    /\ writer' = IF writer.closed THEN Idle(writer) ELSE [writer EXCEPT !.pc = "clone"]
    /\ UNCHANGED <<hist, now, disk, path, persisted, due, stop, body, faults>>

WriterClones ==
    /\ writer.pc = "clone" /\ writer' = [writer EXCEPT !.pc = "persist", !.snap = hist]
    /\ UNCHANGED <<hist, now, disk, path, persisted, due, stop, body, faults>>

Size(h) == Cardinality(DOMAIN h.hosts) + Cardinality(DOMAIN h.reps)

\* persist_snapshot: an older snapshot is not written, one that is too large
\* cannot be.
Persist(snap, ok) ==
    /\ ~ok => faults.n < MaxFaults \/ Size(snap) > MaxFile
    /\ ok => snap.seq < persisted \/ Size(snap) <= MaxFile
    /\ IF ok /\ snap.seq >= persisted THEN disk' = snap /\ persisted' = snap.seq
       ELSE UNCHANGED <<disk, persisted>>
    /\ faults' = IF ok THEN [faults EXCEPT !.last = FALSE]
                 ELSE [n |-> IF Size(snap) > MaxFile THEN faults.n ELSE faults.n + 1, last |-> TRUE]

WriterPersists(ok) ==
    /\ writer.pc = "persist" /\ Persist(writer.snap, ok)
    /\ writer' = IF ok THEN [writer EXCEPT !.pc = "check"] ELSE Idle(writer)
    /\ UNCHANGED <<hist, now, path, due, stop, body>>

\* What was recorded since the snapshot takes another round.
MustRepeat_Never == FALSE

MustRepeat == hist.seq > writer.snap.seq /\ ~writer.closed

WriterChecks ==
    /\ writer.pc = "check"
    /\ writer' = IF MustRepeat THEN [writer EXCEPT !.pc = "start", !.snap = Empty] ELSE Idle(writer)
    /\ UNCHANGED <<hist, now, disk, path, persisted, due, stop, body, faults>>

-----------------------------------------------------------------------------
(* Shutdown and restart *)

CloseAdmission ==
    /\ stop.pc = "no" /\ stop' = [stop EXCEPT !.pc = "wait", !.from = hist.seq]
    /\ writer' = [writer EXCEPT !.closed = TRUE]
    /\ UNCHANGED <<hist, now, disk, path, persisted, due, body, faults>>

WriterIsIdle ==
    /\ stop.pc = "wait" /\ ~writer.running
    /\ stop' = [stop EXCEPT !.pc = IF path THEN "persist" ELSE "done", !.snap = hist]
    /\ UNCHANGED <<hist, now, disk, path, writer, persisted, due, body, faults>>

LastPersist(ok) ==
    /\ stop.pc = "persist" /\ Persist(stop.snap, ok)
    /\ stop' = [stop EXCEPT !.pc = "done", !.snap = Empty]
    /\ UNCHANGED <<hist, now, path, writer, due, body>>

\* The process ends, at any point, and starts again.
Restart ==
    /\ writer.running \/ stop.pc # "no" \/ due > 0
    /\ hist' = Load(disk, now).hist /\ path' = Load(disk, now).path
    /\ writer' = NoWriter /\ persisted' = 0 /\ due' = 0
    /\ stop' = [pc |-> "no", snap |-> Empty, from |-> 0]
    /\ body' = NoBody /\ faults' = [faults EXCEPT !.last = FALSE]
    /\ UNCHANGED <<now, disk>>

Next ==
    \/ Tick \/ Rank \/ ObserveChunk \/ DropBody \/ RecordLate
    \/ \E r \in DOMAIN Resources, o \in Seen :
          \E i \in DOMAIN Resources[r].urls : Record(r, i, o)
    \/ \E exp \in Lengths, valid \in BOOLEAN : OpenBody(exp, valid)
    \/ \E outcome \in {"complete", "timeout", "integrity"} : EndBody(outcome)
    \/ ScheduleWrite \/ WriterStarts \/ WriterClones \/ WriterChecks
    \/ CloseAdmission \/ WriterIsIdle \/ Restart
    \/ \E ok \in BOOLEAN : WriterPersists(ok) \/ LastPersist(ok)

Spec == Init /\ [][Next]_vars

-----------------------------------------------------------------------------
(* Properties *)

\* When nobody is writing or about to ask for it, and the last write did not
\* fail, the file holds the last observation; and so it does after a shutdown
\* for what was observed before it (run_writer, schedule_write,
\* shutdown_and_wait).
NothingIsLost ==
    /\ path /\ ~writer.running /\ ~writer.closed /\ due = 0 /\ ~faults.last =>
          hist.seq = IF disk = None THEN 0 ELSE disk.seq
    /\ path /\ stop.pc = "done" /\ ~faults.last /\ stop.from > 0 => disk # None /\ disk.seq >= stop.from

\* An invalid file stays as it is, and the file never falls behind what this
\* process has written nor runs ahead of what it knows (load, persist_snapshot).
FileIsKept ==
    /\ path <=> disk # Invalid
    /\ path /\ disk # None => persisted <= disk.seq /\ disk.seq <= hist.seq

\* A ranking offers every candidate once and a cooling or quarantined one only
\* after every other; the chunks of a range lead with usable origins, each
\* in its turn; and what is kept stays within its bounds.
RankingIsSound ==
    \A r \in DOMAIN Resources :
       LET urls == RequestCandidates(r)
           h == Prune(hist, now)
           ranked == RankRequest(hist, r, now)
           selected == Selected(h, r, now, ranked)
           n == Len(selected)
           orders == {Rotated(ranked, selected, chunk) : chunk \in 0..n}
           lead == {order[1] : order \in orders}
           Bad(u) == Quarantined(h, r, u, now) \/ Cooling(h, r, u, now)
       IN /\ \A order \in orders : Len(order) = Len(urls) /\ Range(order) = Range(urls)
          /\ \A i, j \in 1..Min({MaxCandidates, Len(urls)}) : i < j /\ Bad(ranked[i]) => Bad(ranked[j])
          /\ n >= 2 => /\ Cardinality({u.origin : u \in lead}) = n
                       /\ \A u \in lead : ~Blocked(h, r, u, now)
          /\ Cardinality({k \in DOMAIN hist.reps : k[1] = Resources[r].digest}) <= MaxOrigins

\* A body is judged once, and complete only with the bytes it announced
\* (finish, Drop).
BodiesAreJudgedOnce ==
    /\ Len(body.judged) <= 1
    /\ body.judged = <<"complete">> => body.exp \in {None, body.got}

HistoryIsSound == NothingIsLost /\ FileIsKept /\ RankingIsSound /\ BodiesAreJudgedOnce
=============================================================================
