---------------------------- MODULE Mp4Playlists ----------------------------
(***************************************************************************)
(* The media playlist of one resource of an HLS session (media.rs): made   *)
(* from the cached file, from its prewarmed prefix, or from what a probe   *)
(* of the origins finds.  A cached file that is fragmented is split into   *)
(* its segments (mp4_segments.rs); whatever cannot be split safely is one  *)
(* segment.                                                                *)
(*                                                                         *)
(* A file is [boxes, total].  A box is [kind, len, body]; the body of a    *)
(* "moov" is [scales, defaults], pairs of a track with its timescale and   *)
(* with its sample duration, that of a "moof" is a sequence of fragments   *)
(* [track, default, runs], whose runs are [n, durs]; None stands for what  *)
(* is absent or malformed.                                                 *)
(***************************************************************************)
EXTENDS Naturals, Sequences, FiniteSets

CONSTANTS
    Worlds,     \* resources: [urls, fresh, upstream, advertised, size]; urls
                \* and fresh say what each URL answers, before and after a
                \* refresh: [st, file], st being "ok", "expired" or "other"
    Stored,     \* what an older server left as cached: None or metadata
    Scan,       \* HLS_INITIALIZATION_SCAN_BYTES
    Second,     \* 1000, the units of a duration in a second
    MaxPlaylists, \* bound: playlists that are asked for
    None

VARIABLES
    world,     \* the resource
    cached,    \* the cached file and its metadata: [file, init, total, segs]
    prefix,    \* the prewarmed file and its metadata: [file, init, total, len]
    req,       \* the request: [pc, url, expired, again]
    answer,    \* the last answer: [status, of, init, total, segs, from]
    count

vars == <<world, cached, prefix, req, answer, count>>

Ok(a) == a.st = "ok"

-----------------------------------------------------------------------------
(* mp4_initialization_length and mp4_fragment_ranges.                      *)

\* The end of each box of a file.
Ends(file) ==
    LET end[i \in 0..Len(file.boxes)] == IF i = 0 THEN 0 ELSE end[i - 1] + file.boxes[i].len
    IN  end

OfKind(file, kinds) == {i \in DOMAIN file.boxes : file.boxes[i].kind \in kinds}
Least(S) == CHOOSE i \in S : \A j \in S : i <= j
Greatest(S) == CHOOSE i \in S : \A j \in S : i >= j
Moov(file) == Least(OfKind(file, {"moov"}))
Shorter(a, b) == IF a <= b THEN a ELSE b

\* The end of the first moov, if it is whole within the first n bytes and
\* before any media; 0 if there is none.
InitializationLength(file, n) ==
    IF /\ OfKind(file, {"moov"}) # {}
       /\ Ends(file)[Moov(file)] <= Shorter(n, file.total)
       /\ \A i \in OfKind(file, {"moof", "mdat"}) : i > Moov(file)
    THEN Ends(file)[Moov(file)] ELSE 0

\* A track has one value, and 0 is none: parse_moov_timing
Consistent(pairs) == \A i, j \in DOMAIN pairs : pairs[i][1] = pairs[j][1] => pairs[i][2] = pairs[j][2]
Given(pairs) == SelectSeq(pairs, LAMBDA pair : pair[2] # 0)
Timed(moov) ==
    /\ moov # None
    /\ moov # None => /\ Len(moov.scales) > 0 /\ Given(moov.scales) = moov.scales
                      /\ Consistent(moov.scales) /\ Consistent(Given(moov.defaults))
ValueOf(pairs, track) ==
    IF \E i \in DOMAIN pairs : pairs[i][1] = track
    THEN pairs[CHOOSE i \in DOMAIN pairs : pairs[i][1] = track][2] ELSE None

SumOf(s) == LET sum[i \in 0..Len(s)] == IF i = 0 THEN 0 ELSE sum[i - 1] + s[i] IN sum[Len(s)]

\* parse_traf_duration_units, parse_trun_duration_units: 0 if it is not known.
Default(traf, moov) ==
    IF traf.default \notin {None, 0} THEN traf.default ELSE ValueOf(Given(moov.defaults), traf.track)
Units(traf, moov) ==
    IF \E i \in DOMAIN traf.runs : traf.runs[i].durs = None /\ Default(traf, moov) = None THEN 0
    ELSE SumOf([i \in DOMAIN traf.runs |->
            IF traf.runs[i].durs = None THEN traf.runs[i].n * Default(traf, moov) ELSE SumOf(traf.runs[i].durs)])

Duration_OfTheFirst(moof, moov) ==
    IF moof = None THEN 0
    ELSE IF moof = << >> \/ \E i \in DOMAIN moof : ValueOf(moov.scales, moof[i].track) = None \/ Units(moof[i], moov) = 0
    THEN 0
    ELSE (Units(moof[1], moov) * Second + ValueOf(moov.scales, moof[1].track) - 1) \div ValueOf(moov.scales, moof[1].track)

\* parse_moof_duration_millis_from_payload: that of the longest track, rounded
\* up; 0 if it is not known.
Duration(moof, moov) ==
    IF moof = None THEN 0
    ELSE IF moof = << >> \/ \E i \in DOMAIN moof : ValueOf(moov.scales, moof[i].track) = None \/ Units(moof[i], moov) = 0
    THEN 0
    ELSE LET tracks == {moof[i].track : i \in DOMAIN moof}
             units(t) == SumOf([i \in DOMAIN moof |-> IF moof[i].track = t THEN Units(moof[i], moov) ELSE 0])
             scale(t) == ValueOf(moov.scales, t)
         IN  Greatest({(units(t) * Second + scale(t) - 1) \div scale(t) : t \in tracks})

Media(file) == {i \in OfKind(file, {"moof", "mdat"}) : i > Moov(file)}
MediaBefore(file, i) == {j \in Media(file) : j < i}

\* find_fragment_end: every moof is followed by its mdat.
Paired(file) ==
    \A i \in Media(file) :
       (file.boxes[i].kind = "mdat") <=>
       (MediaBefore(file, i) # {} /\ file.boxes[Greatest(MediaBefore(file, i) \cup {0})].kind = "moof")

\* parse_mp4_fragment_ranges: boxes before a moof belong to its segment, and
\* nothing is left over; else the file is not split.
Fragments(file) ==
    LET end == Ends(file)
        m == Moov(file)
        n == Len(file.boxes)
        mdats == {i \in Media(file) : file.boxes[i].kind = "mdat"}
        head(i) == Greatest({j \in mdats : j < i} \cup {m})
        moof(i) == Greatest(MediaBefore(file, i) \cup {0})
        Dur(i) == Duration(file.boxes[moof(i)].body, file.boxes[m].body)
        Segment(i) == [off |-> end[head(i)], len |-> end[i] - end[head(i)], ms |-> Dur(i)]
        Nth(k) == CHOOSE i \in mdats : Cardinality({j \in mdats : j < i}) = k - 1
    IN  IF /\ Timed(file.boxes[m].body) /\ end[n] = file.total /\ n \in mdats /\ Paired(file)
           /\ Cardinality(mdats) >= 2
        THEN LET all == [k \in 1..Cardinality(mdats) |-> Segment(Nth(k))]
             IN  IF \A k \in DOMAIN all : all[k].ms > 0 THEN all ELSE << >>
        ELSE << >>

-----------------------------------------------------------------------------
(* What the session has.                                                   *)

Idle == [pc |-> "idle", url |-> 0, expired |-> FALSE, again |-> FALSE]
NoAnswer == [status |-> None, of |-> None, init |-> 0, total |-> 0, segs |-> << >>, from |-> None]

Init ==
    /\ world \in Worlds /\ cached \in Stored
    /\ prefix = None /\ req = Idle /\ answer = NoAnswer /\ count = 0

\* The cached file is complete: its metadata is written.
Store ==
    /\ cached = None
    /\ \E i \in DOMAIN world.urls :
          LET file == world.urls[i].file
              init == InitializationLength(file, Scan)
          IN  /\ Ok(world.urls[i])
              /\ Ok(world.urls[i]) => /\ world.size \in {None, file.total}
                                      /\ 0 < init /\ init < file.total
              /\ cached' = [file |-> file, init |-> init, total |-> file.total, segs |-> Fragments(file)]
    /\ UNCHANGED <<world, prefix, req, answer, count>>

\* The prefix of a file is stored (prewarm_resource): it is of the size that
\* the request states, and holds the initialization.
Prewarm ==
    /\ prefix = None
    /\ \E i \in DOMAIN world.urls :
          LET file == world.urls[i].file
              len == Shorter(Scan, file.total)
              init == InitializationLength(file, len)
          IN  /\ Ok(world.urls[i])
              /\ Ok(world.urls[i]) => world.size \in {None, file.total} /\ 0 < init /\ init < file.total
              /\ prefix' = [file |-> file, init |-> init, total |-> file.total, len |-> len]
    /\ UNCHANGED <<world, cached, req, answer, count>>

\* The cached file comes to have another length.
Damage ==
    /\ cached # None /\ cached.file # None
    /\ cached' = [cached EXCEPT !.file = None]
    /\ UNCHANGED <<world, prefix, req, answer, count>>

\* validated_cached_segments, segments_are_valid_for_resource
Tile(segs, init, total) ==
    /\ \A k \in DOMAIN segs :
          /\ segs[k].len > 0 /\ segs[k].ms > 0
          /\ segs[k].off = IF k = 1 THEN init ELSE segs[k - 1].off + segs[k - 1].len
    /\ segs # << >> => segs[Len(segs)].off + segs[Len(segs)].len = total

\* cached_resource
Cached ==
    /\ cached # None
    /\ cached # None => /\ cached.file # None
                        /\ cached.file # None => cached.file.total = cached.total
                        /\ 0 < cached.init /\ cached.init < cached.total
\* prewarmed_resource
Prewarmed == prefix # None

-----------------------------------------------------------------------------
(* hls_segment_response for a media playlist.                              *)

\* media_playlist_for_resource
Playlist(from, file, init, total, segs) ==
    [status |-> IF init = 0 \/ init >= total THEN "gateway" ELSE "ok", of |-> file, from |-> from,
     init |-> init, total |-> total,
     segs |-> IF Len(segs) >= 2 /\ Tile(segs, init, total) THEN segs
              ELSE <<[off |-> init, len |-> total - init, ms |-> 0]>>]
Fails(status) == [NoAnswer EXCEPT !.status = status]
Answer(a) == answer' = a /\ req' = Idle

Ask ==
    /\ req.pc = "idle" /\ count < MaxPlaylists /\ count' = count + 1
    /\ IF Cached
       THEN Answer(Playlist("cache", cached.file, cached.init, cached.total,
                            IF Tile(cached.segs, cached.init, cached.total) THEN cached.segs ELSE << >>))
       ELSE IF ~world.advertised /\ ~world.upstream THEN Answer(Fails("missing"))
       ELSE IF Prewarmed THEN Answer(Playlist("prefix", prefix.file, prefix.init, prefix.total, << >>))
       ELSE req' = [Idle EXCEPT !.pc = "probe", !.url = 1] /\ answer' = NoAnswer
    /\ UNCHANGED <<world, cached, prefix>>

\* The URLs in force: rank_request leaves the order open.
Urls == IF req.again THEN world.fresh ELSE world.urls

\* load_hls_mp4_initialization_from_url: the probe of one URL.
Probed(file) ==
    LET init == InitializationLength(file, Shorter(Scan, file.total))
    IN  IF 0 < init /\ init < file.total THEN init ELSE 0

\* probe_hls_mp4_initialization_candidates
Probe ==
    /\ req.pc = "probe" /\ req.url <= Len(Urls) /\ world.upstream
    /\ LET a == Urls[req.url]
           next == [req EXCEPT !.url = @ + 1, !.expired = @ \/ a.st = "expired"]
       IN  IF ~Ok(a) THEN req' = next /\ UNCHANGED answer
           ELSE IF Probed(a.file) = 0 THEN req' = next /\ UNCHANGED answer
           ELSE Answer(Playlist("probe", a.file, Probed(a.file), a.file.total, << >>))
    /\ UNCHANGED <<world, cached, prefix, count>>

\* load_hls_mp4_initialization: URLs that have expired are replaced, once; the
\* replacement may be refused or be of something else.
Exhausted ==
    /\ req.pc = "probe"
    /\ req.url > Len(Urls) \/ ~world.upstream
    /\ \/ Answer(Fails("gateway"))
       \/ req.expired /\ ~req.again /\ req' = [Idle EXCEPT !.pc = "probe", !.url = 1, !.again = TRUE] /\ UNCHANGED answer
    /\ UNCHANGED <<world, cached, prefix, count>>

Next == Store \/ Prewarm \/ Damage \/ Ask \/ Probe \/ Exhausted

Spec == Init /\ [][Next]_vars

-----------------------------------------------------------------------------
\* A playlist is of one file, every byte of which is in the initialization or
\* in one segment, in order.
PlaylistIsWhole ==
    answer.status = "ok" =>
        /\ answer.of # None /\ answer.total = answer.of.total
        /\ answer.init = InitializationLength(answer.of, answer.of.total)
        /\ Tile([k \in DOMAIN answer.segs |-> [answer.segs[k] EXCEPT !.ms = 1]], answer.init, answer.total)

\* A segment holds one fragment and its media and nothing of another, and is
\* announced with the time that its longest track takes.
SegmentsDecode ==
    answer.status = "ok" /\ Len(answer.segs) >= 2 =>
        LET file == answer.of
            end == Ends(file)
            moov == file.boxes[Moov(file)].body
        IN  \A k \in DOMAIN answer.segs :
               LET s == answer.segs[k]
                   inside == {i \in DOMAIN file.boxes : end[i - 1] >= s.off /\ end[i] <= s.off + s.len}
                   moofs == inside \cap OfKind(file, {"moof"})
                   moof == file.boxes[Least(moofs)].body
                   Time(t) == SumOf([i \in DOMAIN moof |-> IF moof[i].track = t THEN Units(moof[i], moov) ELSE 0])
                   Late(t, ms) == ms * ValueOf(moov.scales, t) >= Time(t) * Second
               IN  /\ SumOf([i \in DOMAIN file.boxes |-> IF i \in inside THEN file.boxes[i].len ELSE 0]) = s.len
                   /\ Cardinality(moofs) = 1
                   /\ inside \cap OfKind(file, {"mdat"}) = {Greatest(inside)}
                   /\ \A i \in DOMAIN moof : Late(moof[i].track, s.ms)
                   /\ \E i \in DOMAIN moof : ~Late(moof[i].track, s.ms - 1)

\* Only a resource that cannot be had is refused: what is cached or prewarmed
\* is answered for, and a probe fails only when no URL in force answers.
RefusalIsTrue ==
    /\ answer.status = "missing" => ~world.upstream
    /\ req.pc = "probe" => \A i \in 1..(req.url - 1) : Ok(Urls[i]) => Probed(Urls[i].file) = 0

PlaylistsAreSound == PlaylistIsWhole /\ SegmentsDecode /\ RefusalIsTrue
=============================================================================
