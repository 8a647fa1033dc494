---------------------------- MODULE MCComponents ----------------------------
(***************************************************************************)
(* Small instances of components that do not share state: the output of a  *)
(* v2 download, the media library, the serving of an HLS session, the CDN  *)
(* history, the playback variants, the resolution of an input, the         *)
(* planning of a playback task, the muxing of a download, the media        *)
(* playlists, the prefetching of a session, the bodies of task resources,  *)
(* the progress of a download, the start with a playback task, the limits  *)
(* of outputs and a run of the server.  A behaviour is a behaviour of one  *)
(* of them (`active'); s1, s2, ... are its variables, in the order of its  *)
(* module.                                                                 *)
(***************************************************************************)
EXTENDS Naturals, Sequences, FiniteSets

CONSTANTS c1, c2,       \* candidates of the download
          r1, r2, r3,   \* requests, readers and users
          none, MaxFaults, MaxCrashes

VARIABLES active, s1, s2, s3, s4, s5, s6, s7, s8, s9, s10, s11, s12, s13,
          s14, s15, s16, s17, s18, s19, s20, s21

lower == <<s4, s5, s6, s7, s8, s9>>
end == <<s14, s15, s16, s17, s18, s19, s20, s21>>
rest == <<s12, s13, end>>
last == <<s11, rest>>
late == <<s10, last>>
vars == <<active, s1, s2, s3, lower, late>>

Outputs == INSTANCE TaskOutputs WITH
    Cands <- {c1, c2}, MaxFaults <- MaxFaults, MaxCrashes <- MaxCrashes,
    live <- s1, vis <- s2, saved <- s3, avail <- s4, gate <- s5,
    dirs <- s6, files <- s7, bodies <- s8, staged <- s9, pend <- s10,
    dur <- s11, orphan <- s12, storage <- s13, reval <- s14, sweep <- s15,
    lease <- s16, w <- s17, defer <- s18, d <- s19, faults <- s20,
    crashes <- s21

\* The library holds one file, and one more once a download is published.
Staging == <<"int", "s">>
Finished == <<"out", "t">>
LibraryItems == {<<"a">>, Append(Finished, "m")}
Paths == LibraryItems \cup {<<"out">>, Finished, <<"int">>, Staging, Append(Staging, "m")}
Tree == [p \in Paths |-> CASE p \in {<<"out">>, <<"int">>, Staging} -> "dir"
                           [] p \in {<<"a">>, Append(Staging, "m")} -> "file"
                           [] OTHER -> "none"]

Library == INSTANCE MediaLibrary WITH
    Paths <- Paths, Tree <- Tree, Internal <- "int", Source <- Staging,
    Target <- Finished, Gates <- {{}, {Finished}}, Readers <- {r1},
    Users <- {r2, r3}, Items <- LibraryItems, MaxAttempts <- 2, MaxInstalls <- 2,
    MaxFaults <- 1, fs <- s1, disk <- s2, gate <- s3, reader <- s4, user <- s5,
    locks <- s6, cleaner <- s7, removed <- s8, faults <- s9

\* A viewer who holds a downgrade, and two requests whose URLs expire.
Serving == INSTANCE HlsServing WITH
    Requests <- {r1, r2}, Units <- 2, Preference <- "hold", MaxGen <- 2, MaxPlans <- 2,
    reg <- s1, lastGen <- s2, saved <- s3, cached <- s4, policy <- s5, entry <- s6,
    tried <- s7, req <- s8, plans <- s9, expired <- s10

Refresh == INSTANCE HlsServing WITH
    Requests <- {r1, r2}, Units <- 1, Preference <- "managed", MaxGen <- 2, MaxPlans <- 3,
    reg <- s1, lastGen <- s2, saved <- s3, cached <- s4, policy <- s5, entry <- s6,
    tried <- s7, req <- s8, plans <- s9, expired <- s10

\* The origins of the resources, what is observed of them, and the smallest
\* bounds at which records expire and are pushed out.
Urls(origins) == [i \in DOMAIN origins |-> [origin |-> origins[i], n |-> 1]]
Resource(origins) == [r \in {r1} |-> [digest |-> c1, urls |-> Urls(origins)]]
Observation(outcome, shard, sample, range) ==
    [outcome |-> outcome, shard |-> shard, thr |-> sample, lat |-> sample, range |-> range]
Observations == {Observation("complete", FALSE, 4, TRUE),
                 Observation("complete", TRUE, 1, FALSE), Observation("timeout", FALSE, none, none),
                 Observation("integrity", FALSE, none, none)}

InvalidFile == [version |-> 0, seq |-> 0, hosts |-> << >>, reps |-> << >>]

\* The writer of the file, the ranking, and a body that is read.
Writer == INSTANCE CdnHistory WITH
    Files <- {none}, Resources <- Resource(<<c1>>), Seen <- {Observation("complete", FALSE, 4, TRUE)}, Lengths <- {},
    HostTtl <- 3, RepTtl <- 2, BaseCooldown <- 1, MaxCooldown <- 2, MaxHosts <- 2,
    MaxReps <- 2, MaxOrigins <- 2, MaxCandidates <- 3, MaxFile <- 3, MaxRecords <- 3,
    MaxTime <- 0, MaxFaults <- 1, None <- none, hist <- s1, now <- s2, disk <- s3, path <- s4,
    writer <- s5, persisted <- s6, due <- s7, stop <- s8, body <- s9, faults <- s10

Ranking == INSTANCE CdnHistory WITH
    Files <- {InvalidFile}, Resources <- Resource(<<c1, c1, c2, r2, none>>), Seen <- Observations, Lengths <- {},
    HostTtl <- 3, RepTtl <- 2, BaseCooldown <- 1, MaxCooldown <- 2, MaxHosts <- 2,
    MaxReps <- 2, MaxOrigins <- 2, MaxCandidates <- 3, MaxFile <- 3, MaxRecords <- 3,
    MaxTime <- 2, MaxFaults <- 1, None <- none, hist <- s1, now <- s2, disk <- s3, path <- s4,
    writer <- s5, persisted <- s6, due <- s7, stop <- s8, body <- s9, faults <- s10

Body == INSTANCE CdnHistory WITH
    Files <- {InvalidFile}, Resources <- Resource(<<c1>>), Seen <- {}, Lengths <- {none, 1},
    HostTtl <- 3, RepTtl <- 2, BaseCooldown <- 1, MaxCooldown <- 2, MaxHosts <- 2,
    MaxReps <- 2, MaxOrigins <- 2, MaxCandidates <- 3, MaxFile <- 3, MaxRecords <- 3,
    MaxTime <- 0, MaxFaults <- 1, None <- none, hist <- s1, now <- s2, disk <- s3, path <- s4,
    writer <- s5, persisted <- s6, due <- s7, stop <- s8, body <- s9, faults <- s10

\* Variants of every kind: in several codecs, over the profile, without
\* evidence, without audio, not DASH and not playable; and what an older server
\* left.
Request(kind, id, stream, codec, rate, dims) ==
    [kind |-> kind, stream |-> stream, codec |-> codec, bw |-> rate, dims |-> dims, size |-> 1,
     key |-> [content |-> 1, kind |-> kind, stream |-> stream, codec |-> codec, source |-> <<id, kind>>],
     url |-> [rep |-> <<id, kind>>, n |-> 0]]
Audio(id) == Request("audio", id, 1, "aac", 1, none)
Variant(id, stream, codec, rate, dims, audio, score) ==
    [id |-> id, kind |-> "dash", content |-> 1, bw |-> rate, codecs |-> <<codec, "aac">>, dims |-> dims, abr |-> 1,
     video |-> Request("video", id, stream, codec, rate, dims), audio |-> audio, flv |-> none,
     playable |-> TRUE, preferred |-> FALSE, score |-> score]
Avc80 == Variant(1, 80, "avc", 6, "in", Audio(1), 1)
Avc64 == Variant(2, 64, "avc", 3, "in", Audio(2), 1)
Hev80 == Variant(3, 80, "hev", 4, "in", Audio(3), 2)
Uhd == Variant(4, 120, "avcHi", 20, "over", Audio(4), 3)
NoCodec(request) == [request EXCEPT !.codec = none, !.key.codec = none]
Bare == [Variant(5, 64, "avc", 4, "in", NoCodec(Audio(5)), 1) EXCEPT !.video = NoCodec(@)]
NoEvidence == Variant(6, 80, "avc", none, none, Audio(6), 2)
Silent == Variant(7, 64, "avc", 2, "in", none, 2)
Flv == [Variant(8, none, "avc", 2, "in", none, 3) EXCEPT !.kind = "flv", !.video = none, !.flv = 80, !.abr = none]
Hidden == [Variant(9, 64, "hev", 2, "in", Audio(9), 4) EXCEPT !.playable = FALSE, !.preferred = TRUE]
Hev64 == Variant(10, 64, "hev", 2, "in", Audio(10), 2)
Entry(aid, epid, vs) == [identity |-> [aid |-> aid, cid |-> 1, epid |-> epid, bvid |-> "b"], variants |-> vs]
Offers ==
    {Entry(1, none, vs) : vs \in
        {<<Hev80>>, <<Uhd>>, <<NoEvidence, Avc64>>, <<Avc80, Avc64, Silent>>, <<Avc80, Hev80, Avc64>>,
         <<Uhd, Avc80, Avc64>>, <<Bare, Avc80>>, <<Flv, Hev80>>, <<Flv>>, <<Hev64, Avc80>>,
         <<Hidden, Avc64, Hev80>>, <<Uhd, Hev80, Silent>>}}
    \cup {Entry(0, none, <<Avc80>>), Entry(1, 1, <<Avc80, Avc64>>)}
Asks ==
    [enc : {"auto", "h264", "hevc", "other"}, quality : {none, 64, 80}, compat : {"compatible", "requested"},
     trans : {"unspecified", "never", "force"}, enabled : BOOLEAN]
    \cup [enc : {"auto"}, quality : {120}, compat : {"unspecified"}, trans : {"auto", "unknown"}, enabled : {TRUE}]
OldManifest(state) ==
    [variant |-> [id |-> 1, codecs |-> {"avc"}, dims |-> "in", bw |-> 6, audio |-> none,
                  video |-> [id |-> <<0, "video">>, req |-> Avc80.video]],
     plan |-> [source |-> 1, state |-> state]]

Playback == INSTANCE PlaybackVariants WITH
    Offers <- Offers, Asks <- Asks, Manifests <- {OldManifest("disabled"), OldManifest("ready")},
    VideoRate <- 10, AudioRate <- 1, MaxUrls <- 1, None <- none, ask <- s1, offer <- s2,
    stage <- s3, sess <- s4, disk <- s5, job <- s6, cached <- s7, serial <- s8, refused <- s9

\* Inputs of every kind, some longer than the limit, one with an item that is
\* too large.
Inputs ==
    {[kind |-> k, entries |-> [i \in 1..n |-> i]] : k \in {"whole", "collection"}, n \in 1..5}
    \cup {[kind |-> "feed", entries |-> s] : s \in UNION {[1..n -> {1, 2, none}] : n \in 1..3}}
    \cup {[kind |-> "feed", entries |-> <<1, 2, none, 3, 1, 4>>], [kind |-> "feed", entries |-> <<1, 1, 2, 2, 2, 1>>]}

Resolving == INSTANCE BoundedResolution WITH
    Sources <- Inputs, Limit <- 3, CallItems <- 2, CallEntries <- 2, CallRequests <- 1,
    Calls <- 4, TotalEntries <- 5, TotalRequests <- 3, MaxBytes <- 4, Oversized <- {4},
    Bytes <- [i \in 1..9 |-> IF i = 3 THEN 2 ELSE 1], MaxChanges <- 2, None <- none,
    source <- s1, sizes <- s2, pc <- s3, search <- s4, best <- s5, budget <- s6, cursor <- s7,
    seen <- s8, candidates <- s9, truncated <- s10, changes <- s11

\* Two clients, the resolution of one of which evicts that of the other; one
\* resolution is refused.
Found(n, default) ==
    [candidates |-> [i \in 1..n |-> [id |-> i, whole |-> TRUE]], default |-> default]
Twice == [candidates |-> <<[id |-> 1, whole |-> TRUE], [id |-> 1, whole |-> TRUE]>>, default |-> none]
FoundFor == [q \in {r1, r2} |-> IF q = r1 THEN {Found(3, none), Twice} ELSE {Found(1, 1), Found(2, none)}]

Selecting == INSTANCE ResolutionSessions WITH
    Clients <- {r1, r2}, Resolutions <- FoundFor, MaxProfile <- 1, PageSizes <- {2, 3},
    MaxPage <- 2, Ttl <- 1, MaxSessions <- 2, MaxTotal <- 4, BaseBytes <- 1, ItemBytes <- 1,
    CursorBytes <- 1, MaxBytes <- 8, MaxTask <- 2, MaxTime <- 1, MaxSerial <- 3, None <- none,
    sessions <- s1, order <- s2, cursors <- s3, total <- s4, serial <- s5, made <- s6,
    profile <- s7, now <- s8, client <- s9

\* A video whose pages change places, and lists that lose an item.
VideoOf(cids) ==
    [kind |-> "video", source |-> "v", list |-> [i \in DOMAIN cids |-> <<c1, cids[i]>>],
     pages |-> [v \in {c1} |-> cids]]
ListOf(list, cids) ==
    [kind |-> "list", source |-> "l", list |-> list,
     pages |-> [v \in {c1, c2} |-> IF v = c1 THEN cids ELSE <<1>>]]
Origins ==
    {VideoOf(<<1, 2>>), VideoOf(<<2, 1>>), ListOf(<<<<c1, 1>>, <<c2, 1>>>>, <<1, 2>>),
     ListOf(<<<<c2, 1>>, <<c1, 2>>>>, <<2, 1>>), ListOf(<<<<c2, 1>>>>, <<2>>),
     ListOf(<<<<c1, 1>>, <<c2, 1>>, <<c1, 2>>>>, <<1, 2>>)}
PageId(i) == [kind |-> "page", index |-> i, source |-> none, of |-> <<c1, i>>]
ItemId(i, v) == [kind |-> "item", index |-> i, source |-> "l", of |-> <<v, 1>>]
Ask(v2, single, mode, ids, first, final) ==
    [v2 |-> v2, single |-> single, mode |-> mode, ids |-> ids, first |-> first, last |-> final]
PlanAsks ==
    {Ask(FALSE, none, "default", << >>, 0, 0), Ask(FALSE, PageId(1), "default", << >>, 0, 0),
     Ask(FALSE, PageId(1), "default", <<PageId(2)>>, 0, 0), Ask(FALSE, none, "one", <<ItemId(1, c1)>>, 0, 0),
     Ask(FALSE, none, "ids", <<PageId(2), PageId(1), PageId(2)>>, 0, 0),
     Ask(FALSE, none, "ids", <<ItemId(2, c2), ItemId(1, c1)>>, 0, 0),
     Ask(FALSE, none, "range", << >>, 1, 2), Ask(FALSE, none, "all", << >>, 0, 0),
     Ask(TRUE, none, "ids", <<ItemId(1, c1), ItemId(2, c2)>>, 0, 0)}

Planning == INSTANCE PlaybackPlanning WITH
    Origins <- Origins, Asks <- PlanAsks, Limit <- 2, Unplayable <- {<<c2, 1>>}, MaxChanges <- 1,
    MaxFaults <- MaxFaults, None <- none, origin <- s1, meant <- s2, reg <- s3, vis <- s4,
    avail <- s5, refused <- s6, cancel <- s7, permit <- s8, run <- s9, sessions <- s10,
    queue <- s11, changes <- s12, faults <- s13

\* Downloads of every shape, one of which is over the budget of descriptors.
Shapes == {<<"v", "a", "s">>, <<"f", "g">>, <<"out", "a">>, <<"s">>}
Downloaded(v2, audio, entries) == [v2 |-> v2, audio |-> audio, entries |-> entries]
Downloads ==
    {Downloaded(TRUE, FALSE, <<leaves>>) : leaves \in Shapes}
    \cup {Downloaded(v2, TRUE, << <<"a">> >>) : v2 \in BOOLEAN}
    \cup {Downloaded(FALSE, FALSE, <<<<"v", "a">>, <<"f">>>>),
          Downloaded(TRUE, FALSE, <<<<"v", "a", "f", "g", "s">>>>)}

Muxing == INSTANCE OutputMux WITH
    Downloads <- Downloads, Budget <- 6, MaxChanges <- 1, MaxFaults <- 1, None <- none,
    job <- s1, dir <- s2, wrote <- s3, report <- s4, muxed <- s5, bound <- s6, run <- s7,
    cancel <- s8, saved <- s9, changes <- s10, faults <- s11

\* Fragmented files of every form: with boxes between the fragments, tracks
\* without durations, media that does not pair and lengths that do not agree.
Box(kind, len, body) == [kind |-> kind, len |-> len, body |-> body]
File(boxes) ==
    LET sum[i \in 0..Len(boxes)] == IF i = 0 THEN 0 ELSE sum[i - 1] + boxes[i].len
    IN  [boxes |-> boxes, total |-> sum[Len(boxes)]]
Header == Box("moov", 1, [scales |-> <<<<1, 3>>, <<2, 2>>>>, defaults |-> <<<<1, 2>>, <<1, 0>>>>])
BadHeaders ==
    {Box("moov", 1, none), Box("moov", 1, [scales |-> <<<<1, 3>>, <<1, 2>>>>, defaults |-> << >>])}
Traf(track, default, runs) == [track |-> track, default |-> default, runs |-> runs]
Run(n, durs) == [n |-> n, durs |-> durs]
Steady == Box("moof", 1, <<Traf(1, none, <<Run(2, none)>>)>>)
Tracks == Box("moof", 1, <<Traf(2, none, <<Run(2, <<1, 2>>)>>), Traf(1, 5, <<Run(1, none)>>)>>)
Untimed ==
    {Box("moof", 1, body) : body \in
        {none, <<Traf(2, none, <<Run(1, none)>>)>>, <<Traf(3, 1, <<Run(1, none)>>)>>,
         <<Traf(1, 0, <<Run(0, none)>>)>>}}
Mdat == Box("mdat", 2, none)
Sidx == Box("sidx", 1, none)
Pieces == {<<f, Mdat>> : f \in {Steady, Tracks}} \cup {<<Sidx, f, Sidx, Mdat>> : f \in {Steady, Tracks}}
Fragmented ==
    {File(<<Sidx, Header>> \o p \o q) : p, q \in Pieces}
    \cup {File(<<Sidx, Header, u, Mdat, Steady, Mdat>>) : u \in Untimed}
    \cup UNION {{File(<<Header>> \o p), File(<<Header>> \o p \o p \o <<Sidx>>), File(<<Header, Mdat>> \o p),
                 [File(<<Header>> \o p \o p) EXCEPT !.total = @ - 1]} : p \in Pieces}
    \cup {File(<<h>> \o p \o p) : p \in Pieces, h \in BadHeaders}
    \cup {File(boxes) : boxes \in {<<Header, Steady, Tracks, Mdat>>, <<Mdat, Header>>, <<Header>>, <<Mdat>>,
                                   <<Sidx, Sidx, Sidx, Header, Mdat>>}}
Plain == [st |-> "ok", file |-> File(<<Header, Mdat>>)]
NoMp4 == [st |-> "ok", file |-> File(<<Mdat, Header>>)]
Answered(st) == [st |-> st, file |-> none]
World(urls, fresh, upstream, advertised, size) ==
    [urls |-> urls, fresh |-> fresh, upstream |-> upstream, advertised |-> advertised, size |-> size]
Worlds ==
    {World(<<[st |-> "ok", file |-> f]>>, << >>, TRUE, TRUE, none) : f \in Fragmented}
    \cup {World(urls, fresh, TRUE, advertised, 3) :
            urls \in {<<Answered("expired"), Answered("other")>>, <<NoMp4, Plain>>, <<Plain, NoMp4>>},
            fresh \in {<<Plain>>, <<Answered("other")>>}, advertised \in BOOLEAN}
    \cup {World(<< >>, << >>, FALSE, advertised, 3) : advertised \in BOOLEAN}
OldCache(segs) == [file |-> File(<<Header, Steady, Mdat, Steady, Mdat>>), init |-> 1, total |-> 7, segs |-> segs]
Cut(off, len) == [off |-> off, len |-> len, ms |-> 2]
StoredCaches ==
    {none, [OldCache(<< >>) EXCEPT !.init = 7]}
    \cup {OldCache(segs) : segs \in {<< >>, <<Cut(1, 3)>>, <<Cut(1, 3), Cut(5, 2)>>, <<Cut(0, 4), Cut(4, 3)>>}}

Playlists == INSTANCE Mp4Playlists WITH
    Worlds <- Worlds, Stored <- StoredCaches, Scan <- 3, Second <- 4, MaxPlaylists <- 2, None <- none,
    world <- s1, cached <- s2, prefix <- s3, req <- s4, answer <- s5, count <- s6

\* Sessions with and without audio, whose URLs answer with whole files, shorter
\* prefixes, other files, files without an initialization and errors.
Content(id, total, init) == [id |-> id, total |-> total, init |-> init]
From(content, head, most, whole) == [content |-> content, head |-> head, most |-> most, whole |-> whole]
Good == From(Content(1, 6, 1), TRUE, 9, TRUE)
Prefetched(urls, size, rate) == [urls |-> urls, size |-> size, rate |-> rate]
PrefetchWorlds ==
    {<<Prefetched(<<Good>>, none, 1), Prefetched(<<From(Content(2, 2, 1), TRUE, 9, TRUE)>>, 2, 0)>>,
     <<Prefetched(<<From(Content(3, 5, 1), TRUE, 9, TRUE), [Good EXCEPT !.head = FALSE], Good>>, 6, 1)>>,
     <<Prefetched(<<[Good EXCEPT !.whole = FALSE], From(Content(4, 6, 0), TRUE, 9, TRUE), [Good EXCEPT !.most = 2]>>, 6, 1)>>,
     <<Prefetched(<<From(Content(5, 5, 1), TRUE, 2, TRUE), Good>>, none, 1),
       Prefetched(<<From(Content(6, 3, 3), TRUE, 9, TRUE)>>, none, 0)>>}
Reported(intent, pos, total, variant) == [intent |-> intent, pos |-> pos, dur |-> total, variant |-> variant]

Prewarming == INSTANCE HlsPrewarm WITH
    Worlds <- PrefetchWorlds,
    Reports <- {Reported("seek", 3, 4, TRUE), Reported("playing", 1, none, TRUE),
                Reported("stopped", 0, none, TRUE), Reported("seek", 1, none, FALSE)},
    HeadBytes <- 1, First <- 2, MaxFirst <- 3, MaxFar <- 5, ActiveTtl <- 1, StoppedTtl <- 1,
    MaxTime <- 1, MaxReports <- 1, MaxFaults <- 1, None <- none,
    resources <- s1, session <- s2, now <- s3, report <- s4, reporter <- s5, serial <- s6,
    job <- s7, fill <- s8, disk <- s9, cached <- s10, faults <- s11

\* Records that declare little or much, whole files, parts, and the validators
\* of a client that comes back.
Declares(size, ranges, etag) == [size |-> size, ranges |-> ranges, etag |-> etag]
Part(kind, first, final, n) == [kind |-> kind, first |-> first, last |-> final, n |-> n]
Get(head, range) ==
    [resume |-> FALSE, head |-> head, range |-> range, ifRange |-> none, ifNone |-> none, ifSince |-> FALSE]
Resume(range, ifRange, ifNone, since) ==
    [resume |-> TRUE, head |-> FALSE, range |-> range, ifRange |-> ifRange, ifNone |-> ifNone, ifSince |-> since]
Tag(kind) == [kind |-> kind, etag |-> none, at |-> 0]
Gets ==
    {Get(head, none) : head \in BOOLEAN}
    \cup {Get(FALSE, range) : range \in
            {Part("from", 0, 0, 0), Part("from", 1, 9, 0), Part("from", 1, 0, 0), Part("suffix", 0, none, 1),
             Part("suffix", 0, none, 0), Part("suffix", 0, none, 9), Part("bad", 0, none, 0)}}
    \cup {Resume(Part("rest", 0, none, 0), v, none, FALSE) : v \in {none, Tag("strong"), Tag("weak"), Tag("date")}}
    \cup {Resume(none, none, Tag(kind), FALSE) : kind \in {"strong", "weak", "any", "bad"}}
    \cup {Resume(none, none, none, TRUE)}

Bodies == INSTANCE ResourceBodies WITH
    Sources <- {<<1, 2>>}, Requests <- Gets,
    Declared <- {Declares(none, TRUE, c1), Declares(2, TRUE, none), Declares(none, FALSE, c1)},
    MaxChanges <- 1, MaxRequests <- 2, MaxTime <- 1, None <- none,
    source <- s1, path <- s2, objs <- s3, stage <- s4, record <- s5, meta <- s6, storage <- s7,
    client <- s8, now <- s9, count <- s10, changes <- s11

Stream(urls) == [id |-> 1, urls |-> urls]
Downloading == INSTANCE DownloadProgress WITH
    Candidates <- 2, Entries <- 2, Paths <- {<<1, 1>>, <<2, 1>>}, Sizes <- {2},
    Plans <- {<<Stream(<<1, 2, 3>>), Stream(<<2, 1>>), Stream(<<3>>), Stream(<<3>>)>>},
    Rankings <- {<<2, 3, 1>>}, Scale <- 2400, Start <- 240, Finish <- 1920, Cap <- 2,
    MinBytes <- 2, MinFraction <- 24, MaxFailures <- 1, None <- none,
    v2 <- s1, plan <- s2, run <- s3, acc <- s4, core <- s5, event <- s6, cancel <- s7,
    shown <- s8, outcome <- s9, got <- s10, failures <- s11

\* A primary session and one of another result; a save or a removal may fail.
Restoring == INSTANCE PlaybackRestore WITH
    Primary <- 1, Other <- 2, Transcodes <- TRUE, MaxFaults <- 1, None <- none,
    task <- s1, vis <- s2, avail <- s3, supported <- s4, disk <- s5, reg <- s6,
    boot <- s7, fills <- s8, faults <- s9

\* Every limit is met exactly and passed by one, by an output or by a file.
Sized(body, arts, failed) == [body |-> body, arts |-> arts, failed |-> failed]
Small == Sized(1, <<>>, FALSE)
SavedTask(cands, listed, results, resources) ==
    [items |-> listed, cands |-> cands, results |-> results, resources |-> resources]
PlainArtifacts(n) == [i \in 1 .. n |-> "plain"]
Bounds == INSTANCE OutputLimits WITH
    MaxTasks <- 2, MaxCandidates <- 2, MaxResults <- 2, MaxArtifacts <- 3, MaxResources <- 2,
    MaxRegistered <- 3, MaxResultBytes <- 9, MaxStringBytes <- 9, MaxOutputBytes <- 14, MaxPageBytes <- 11,
    PageReserve <- 1, PageSizes <- {1, 3}, Uri <- 3, Redacted <- 2, Overhead <- 1, Message <- 1,
    Expired <- 2, None <- none,
    Offered <- {<<Small>>, <<Sized(1, <<"resource", "plain">>, FALSE), Sized(1, <<"resource">>, FALSE)>>,
                <<Sized(1, <<"failed">>, TRUE), Small>>, <<Small, Small, Small>>,
                <<Sized(2, <<"resource", "resource">>, FALSE)>>, <<Sized(7, <<"plain", "plain">>, FALSE), Small>>},
    Foreign <- {<<SavedTask(2, 3, <<>>, 0)>>, <<SavedTask(3, 2, <<>>, 0)>>,
                <<SavedTask(0, 0, <<Small, Small, Small>>, 0)>>,
                <<SavedTask(0, 0, <<>>, 0), SavedTask(0, 0, <<>>, 0), SavedTask(0, 0, <<>>, 0)>>}
               \cup {<<SavedTask(0, 0, <<Sized(1, PlainArtifacts(n), FALSE), Sized(1, PlainArtifacts(k), FALSE)>>, 0)>> :
                        n, k \in 0 .. 4}
               \cup {<<SavedTask(0, 0, <<>>, n), SavedTask(0, 0, <<>>, k)>> : n, k \in 0 .. 3},
    tasks <- s1, grown <- s2, file <- s3, ours <- s4, rd <- s5, list <- s6

Running == INSTANCE ServerRun WITH
    Grpc <- <<r1, r2>>, Media <- <<r3>>, MaxEnds <- 1, MaxSeen <- 2, None <- none,
    binds <- s1, login <- s2, todo <- s3, bound <- s4, server <- s5, pc <- s6,
    result <- s7, worker <- s8, ends <- s9, fills <- s10, seen <- s11, stored <- s12, file <- s13

NoEnd == s14 = 0 /\ s15 = 0 /\ s16 = 0 /\ s17 = 0 /\ s18 = 0 /\ s19 = 0 /\ s20 = 0 /\ s21 = 0

NoRest == s12 = 0 /\ s13 = 0 /\ NoEnd

NoLast == s11 = 0 /\ NoRest

NoLate == s10 = 0 /\ NoLast

Init ==
    \/ active = "outputs" /\ Outputs!Init
    \/ active = "library" /\ Library!Init /\ NoLate
    \/ active = "serving" /\ Serving!Init /\ NoLast
    \/ active = "refresh" /\ Refresh!Init /\ NoLast
    \/ active = "writer" /\ Writer!Init /\ NoLast
    \/ active = "ranking" /\ Ranking!Init /\ NoLast
    \/ active = "body" /\ Body!Init /\ NoLast
    \/ active = "playback" /\ Playback!Init /\ NoLate
    \/ active = "resolving" /\ Resolving!Init /\ NoRest
    \/ active = "selecting" /\ Selecting!Init /\ NoLate
    \/ active = "planning" /\ Planning!Init /\ NoEnd
    \/ active = "muxing" /\ Muxing!Init /\ NoRest
    \/ active = "playlists" /\ Playlists!Init /\ s7 = 0 /\ s8 = 0 /\ s9 = 0 /\ NoLate
    \/ active = "prewarming" /\ Prewarming!Init /\ NoRest
    \/ active = "bodies" /\ Bodies!Init /\ NoRest
    \/ active = "progress" /\ Downloading!Init /\ NoRest
    \/ active = "restoring" /\ Restoring!Init /\ NoLate
    \/ active = "limits" /\ Bounds!Init /\ s7 = 0 /\ s8 = 0 /\ s9 = 0 /\ NoLate
    \/ active = "run" /\ Running!Init /\ NoEnd

Next ==
    \/ active = "outputs" /\ Outputs!Next /\ UNCHANGED active
    \/ active = "library" /\ Library!Next /\ UNCHANGED <<active, late>>
    \/ active = "serving" /\ Serving!Next /\ UNCHANGED <<active, last>>
    \/ active = "refresh" /\ Refresh!Next /\ UNCHANGED <<active, last>>
    \/ active = "writer" /\ Writer!Next /\ UNCHANGED <<active, last>>
    \/ active = "ranking" /\ Ranking!Next /\ UNCHANGED <<active, last>>
    \/ active = "body" /\ Body!Next /\ UNCHANGED <<active, last>>
    \/ active = "playback" /\ Playback!Next /\ UNCHANGED <<active, late>>
    \/ active = "resolving" /\ Resolving!Next /\ UNCHANGED <<active, rest>>
    \/ active = "selecting" /\ Selecting!Next /\ UNCHANGED <<active, late>>
    \/ active = "planning" /\ Planning!Next /\ UNCHANGED <<active, end>>
    \/ active = "muxing" /\ Muxing!Next /\ UNCHANGED <<active, rest>>
    \/ active = "playlists" /\ Playlists!Next /\ UNCHANGED <<active, s7, s8, s9, late>>
    \/ active = "prewarming" /\ Prewarming!Next /\ UNCHANGED <<active, rest>>
    \/ active = "bodies" /\ Bodies!Next /\ UNCHANGED <<active, rest>>
    \/ active = "progress" /\ Downloading!Next /\ UNCHANGED <<active, rest>>
    \/ active = "restoring" /\ Restoring!Next /\ UNCHANGED <<active, late>>
    \/ active = "limits" /\ Bounds!Next /\ UNCHANGED <<active, s7, s8, s9, late>>
    \/ active = "run" /\ Running!Next /\ UNCHANGED <<active, end>>

Spec == Init /\ [][Next]_vars

\* Bounds: at most two of the reader, the users and the cleaner at a time, and
\* when the gate has changed twice only a reader that came before, alone.
TwoAtATime ==
    active = "library" => /\ Library!Busy <= 2
                          /\ s3.id = 2 => \/ s4[r1].pc = "idle"
                                          \/ s4[r1].from < 2 /\ Library!Busy = 1

\* Bounds: in "serving" the second request follows the first and is served from
\* the cache; in "refresh" both read through the range cache, the second one
\* reads "main"; in "ranking" the server does not shut down; in "selecting" the
\* second client comes after the first and creates no task; in "prewarming" the
\* clock stands still for sessions with audio; in "bodies" a client comes before
\* the copy or after the commit.
RequestsOfInterest ==
    /\ active = "bodies" => (s8.pc # "idle" => s4.pc \in {"open", "committed"})
    /\ active = "prewarming" => Len(s1) = 1 \/ s3 = 0
    /\ active = "serving" => /\ s8[r2].pc # "idle" => s8[r1].pc \in {"done", "failed"}
                             /\ s8[r2].pc \notin {"refresh", "fetch", "proxy", "ask"}
    /\ active = "refresh" => /\ \A q \in {r1, r2} : s8[q].via = "cache"
                             /\ s8[r2].pc # "idle" => s8[r2].res = "main"
    /\ active = "ranking" => s8.pc = "no"
    /\ active = "selecting" =>
          /\ (s9[r2].pc = "idle" /\ s9[r2].session = 0) \/ s9[r1].session # 0 \/ s9[r1].pc = "done"
          /\ s9[r2].pc # "done" /\ (s9[r1].pc = "done" => s9[r2].pc # "resolving")

\* What an output offers is on disk, and whatever is on disk for a download is
\* offered by its output or due for removal: run_v2_download, the terminal
\* commit, the cleanup intents and the resource bodies through failing saves
\* and crashes.  What is offered is the file that ffmpeg made of the sources,
\* and a run that ends leaves nothing else (mux_entry_media,
\* cleanup_failed_mux_files, retain_legacy_output_for_archive_commit).  The body
\* of a resource is a whole copy, and what clients put together from their
\* responses is that body (create_staged_resource_body, resource_response).  What
\* a client is told of a running download is true: the bytes were received,
\* nothing is shown as complete before it is, the throttle keeps back little
\* (BilibiliBbdownProgressAccumulator).  The state file is read within its
\* limits, and an accepted output can be saved, loaded and listed
\* (deserialize_task_snapshot, validate_collection_sizes, page).
OutputIsAccountedFor ==
    /\ active = "outputs" => Outputs!OutputIsBacked /\ Outputs!NothingIsOrphaned
    /\ active = "muxing" => Muxing!MuxIsSound
    /\ active = "bodies" => Bodies!BodiesAreSound
    /\ active = "progress" => Downloading!ProgressIsTrue
    /\ active = "limits" => Bounds!LimitsAreKept

\* A deletion is alone on its item, never takes away what a download still
\* owns, and what was reported as removed stays removed through a crash
\* (delete_item_blocking, remove_entry_no_follow_at).
LibraryIsStable ==
    active = "library" => Library!DeletionIsExclusive /\ Library!RemovalIsDurable

\* Through replacement, completion, removal and refresh of its session a body is
\* exact, the network policy knows nothing of sessions that are gone, and what is
\* registered is what is stored (hls_segment_response,
\* refresh_hls_media_requests_inner).  The servers of a run start together, share
\* their workers and stop in order (run_with_state).
ServingIsSound ==
    /\ active = "serving" =>
          Serving!BodiesAreExact /\ Serving!PolicyIsFenced /\ Serving!SavedIsRegistered
    /\ active = "refresh" =>
          Refresh!BodiesAreExact /\ Refresh!PolicyIsFenced /\ Refresh!SavedIsRegistered
    /\ active = "run" => Running!RunIsSound

\* A page of the library is true of the gate it is answered under, and only URLs
\* that the origins refuse are replaced (with_stable_snapshot,
\* refresh_hls_media_requests_inner).  The progress of a download goes back only
\* when a file has to be received again (on_download_progress), and a
\* cancellation is not taken for a failure.  A start removes only what the saved
\* tasks offer no more (filter_authorized_restored_hls_sessions).
NothingStaleIsUsed ==
    [][/\ active = "library" => Library!AnswersHonourGate
       /\ active = "serving" => Serving!WorkingUrlsStay
       /\ active = "refresh" => Refresh!WorkingUrlsStay
       /\ active = "progress" => Downloading!ReportsAreOrderly
       /\ active = "restoring" => Restoring!RemovalIsAuthorized]_vars

\* The history of the CDNs loses no observation to its coalescing writer, ranks
\* every candidate once and the failing ones last, and judges a body once
\* (run_writer, rank_request_at, rank_request_for_range_at, CdnBodyObservation).
HistoryIsSound ==
    /\ active = "writer" => Writer!HistoryIsSound
    /\ active = "ranking" => Ranking!HistoryIsSound
    /\ active = "body" => Body!HistoryIsSound

\* The variant, the playlists, the URLs and the manifest of a playback session
\* agree from its plan to its completion (select_playback_variant,
\* with_refreshed_media_requests, save_session, save_completed_session), a media
\* playlist is of one file, whole and decodable (hls_segment_response,
\* mp4_fragment_ranges), and the prefetch of a session follows a seek and leaves
\* prefixes of whole files (prewarm_resource, record_hls_playback_progress).
\* After a start the restored playback tasks offer exactly what is stored, from
\* the sources that serve it (fail_unrestorable_playback_tasks,
\* resume_incomplete_hls_cache_finalizers).
PlaybackIsFaithful ==
    /\ active = "playback" => Playback!PlaybackIsFaithful
    /\ active = "playlists" => Playlists!PlaylistsAreSound
    /\ active = "prewarming" => Prewarming!PrewarmIsSound
    /\ active = "restoring" => Restoring!RestoreIsSound

\* An input is resolved completely or known to be truncated, clients page through
\* and select from the snapshot that they were shown, and what is planned and
\* played is what was selected (resolve_playback_input, BilibiliResolutionStore,
\* run_selected_bilibili_playback_planning).
ResolutionIsSound ==
    /\ active = "resolving" => Resolving!ResolutionIsBounded
    /\ active = "selecting" => Selecting!SelectionIsHonest
    /\ active = "planning" => Planning!PlanningIsHonest

=============================================================================
