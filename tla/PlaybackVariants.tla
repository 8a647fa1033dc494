-------------------------- MODULE PlaybackVariants --------------------------
(***************************************************************************)
(* What an HLS playback session is made of, from the variants that BBDown  *)
(* plans to the completed session on disk: the preferences of the request  *)
(* (bbdown_adapter.rs, playback_policy.rs), the variant they select, the   *)
(* session with its alternates and its transcoding plan (hls.rs,           *)
(* transcoding.rs), the refresh of its URLs, and the manifest that the     *)
(* fill worker publishes, republishes and completes (hls_cache.rs).        *)
(*                                                                         *)
(* A codec is "avc" (H.264 up to level 4.2), "avcHi" (beyond it), "hev",   *)
(* "aac" or "flac".  `dims' stands for width, height and frame rate: "in"  *)
(* or "over" the LAN transcoding profile, or None.  `url' stands for the   *)
(* URL, the backup URLs and the headers of a request: the representation   *)
(* it serves and the refresh it comes from, or None.  An optional value is *)
(* None.                                                                   *)
(***************************************************************************)
EXTENDS Naturals, Sequences, FiniteSets

CONSTANTS
    Offers,     \* entries of playback plans: [identity, variants]
    Asks,       \* requests: [enc, quality, compat, trans], `enabled' of the server
    Manifests,  \* session manifests that older servers left
    VideoRate, AudioRate,  \* the bandwidth bounds of the transcoding profile
    MaxUrls,    \* bound on the refreshes
    None

VARIABLES
    ask, offer,  \* the request, the entry that was planned for it
    stage,       \* "asked", "open", "completed", "failed"
    sess,        \* the registered session
    disk,        \* session.json
    job,         \* the fill worker: its step and the session it was given
    cached,      \* the resources that are complete on disk, with their cache keys
    serial,      \* refreshes so far
    refused      \* a publication of the server's own was refused

vars == <<ask, offer, stage, sess, disk, job, cached, serial, refused>>

Values(s) == {s[i] : i \in DOMAIN s}

-----------------------------------------------------------------------------
(* The conservative AVPlayer profile.                                      *)

H264Codecs == {"avc", "avcHi"}
AacCodecs == {"aac"}

HasCodec(v, request, codecs) ==
    IF request.codec # None THEN request.codec \in codecs
    ELSE Values(v.codecs) \cap codecs # {}

HasCompatibleCodecs(v) ==
    /\ v.kind = "dash" /\ v.video # None
    /\ HasCodec(v, v.video, H264Codecs)
    /\ v.audio # None => HasCodec(v, v.audio, AacCodecs)

TotalRate(hasAudio) == VideoRate + (IF hasAudio THEN AudioRate ELSE 0)

AtMost(x, max) == x # None => x \in 1..max

BandwidthIsBounded(v) ==
    LET audio == IF v.audio = None THEN None ELSE v.audio.bw
    IN  /\ \/ v.bw # None
           \/ v.video.bw # None /\ (v.audio # None => audio # None)
        /\ AtMost(v.bw, TotalRate(v.audio # None))
        /\ AtMost(v.video.bw, VideoRate)
        /\ AtMost(audio, AudioRate)

\* An upper bound holds only on evidence, of the variant or of its request.
IsWithinEnvelope(v) ==
    /\ "in" \in {v.dims, v.video.dims}
    /\ "over" \notin {v.dims, v.video.dims}
    /\ BandwidthIsBounded(v)

LevelIsBounded(v) ==
    IF v.video.codec # None THEN v.video.codec = "avc"
    ELSE Values(v.codecs) \cap H264Codecs = {"avc"}

IsCompatible(v) == HasCompatibleCodecs(v) /\ IsWithinEnvelope(v) /\ LevelIsBounded(v)

-----------------------------------------------------------------------------
(* The selection of a variant.                                             *)

\* The policy of the request: an unspecified value is the default, an unknown
\* one is refused.
Policy(a) ==
    [trans |-> IF a.trans = "unspecified" THEN "auto" ELSE a.trans,
     compat |-> IF a.compat = "unspecified" THEN "compatible" ELSE a.compat]

PolicyIsKnown(a) == a.trans # "unknown" /\ a.compat # "unknown"

Fallback == [policy |-> "h264_fallback", families |-> <<"h264">>]

\* What to look for, in order; nothing for an encoding that is not supported.
Candidates(enc) ==
    CASE enc = "auto" -> <<[policy |-> "default", families |-> <<"h264", "hevc">>], Fallback>>
      [] enc = "h264" -> <<[policy |-> "explicit", families |-> <<"h264">>]>>
      [] enc = "hevc" -> <<[policy |-> "explicit", families |-> <<"hevc">>], Fallback>>
      [] OTHER -> << >>

StreamId(v) == IF v.video # None /\ v.video.stream # None THEN v.video.stream ELSE v.flv

MatchingQuality(vs, quality) == {v \in vs : quality = None \/ StreamId(v) = quality}

DoesNotExceed(v, quality) ==
    quality # None => StreamId(v) # None /\ StreamId(v) <= quality

\* The rank of a variant's codecs in a preference of BBDown (0: not in it).
Family(v) ==
    IF v.video = None \/ (v.audio # None /\ ~HasCodec(v, v.audio, AacCodecs)) THEN "none"
    ELSE IF HasCodec(v, v.video, H264Codecs) THEN "h264" ELSE "hevc"
CodecRank(v, families) ==
    IF \E i \in DOMAIN families : families[i] = Family(v)
    THEN CHOOSE i \in DOMAIN families : families[i] = Family(v) ELSE 0

\* compare_playback_variants: rank, preference, score, bandwidth, then the id.
IsBetter(l, lrank, r, rrank) ==
    LET rate(v) == IF v.bw = None THEN 0 ELSE v.bw
        key(v, rank) == <<rank, IF v.preferred THEN 0 ELSE 1, 100 - v.score, 100 - rate(v), v.id>>
    IN  \E i \in 1..5 :
            /\ \A j \in 1..(i - 1) : key(l, lrank)[j] = key(r, rrank)[j]
            /\ key(l, lrank)[i] < key(r, rrank)[i]

Best(vs, families) ==
    CHOOSE v \in vs : \A u \in vs \ {v} :
        IsBetter(v, CodecRank(v, families), u, CodecRank(u, families))

Playable(vs) == {v \in vs : v.playable}

\* The compatible variant that is preferred: of the quality that was asked for,
\* or of a lower one.
CompatibleVariant(a, vs) ==
    LET here == {v \in Playable(MatchingQuality(vs, a.quality)) : IsCompatible(v)}
        below == {v \in Playable(vs) : DoesNotExceed(v, a.quality) /\ IsCompatible(v)}
    IN  CASE a.enc # "auto" \/ Policy(a).compat # "compatible" -> None
          [] here # {} -> Best(here, << >>)
          [] here = {} /\ below # {} -> Best(below, << >>)
          [] OTHER -> None

PreferCompatible(v, compatible) ==
    IF IsCompatible(v) \/ compatible = None THEN v ELSE compatible

\* select_playback_variant: the variant, or None when the request cannot be met.
Selected(a, vs) ==
    LET here == Playable(MatchingQuality(vs, a.quality))
        candidates == Candidates(a.enc)
        found(i) == {v \in here : CodecRank(v, candidates[i].families) # 0}
        hits == {i \in DOMAIN candidates : found(i) # {}}
        compatible == CompatibleVariant(a, vs)
    IN  CASE candidates = << >> \/ MatchingQuality(vs, a.quality) = {} -> None
          [] candidates # << >> /\ hits # {} ->
                LET i == CHOOSE i \in hits : \A j \in hits : i <= j
                IN  PreferCompatible(Best(found(i), candidates[i].families), compatible)
          [] hits = {} /\ a.enc = "auto" /\ here # {} -> PreferCompatible(Best(here, << >>), compatible)
          [] hits = {} /\ a.enc = "auto" /\ here = {} -> compatible
          [] OTHER -> None

-----------------------------------------------------------------------------
(* The session.                                                            *)

\* BilibiliPlaybackVariant::from_core: the hints of the selection stay behind.
FromCore(v) == [f \in DOMAIN v \ {"playable", "preferred", "score"} |-> v[f]]

HlsCodecs(v) ==
    (IF v.video.codec # None THEN {v.video.codec} ELSE Values(v.codecs))
    \cup (CASE v.audio = None -> {}
            [] v.audio # None -> IF v.audio.codec # None THEN {v.audio.codec}
                                 ELSE Values(v.codecs) \cap AacCodecs)

\* The resources of the i-th variant; the playlists are named after them.
HlsVariant(v, i) ==
    [id |-> v.id, codecs |-> HlsCodecs(v), dims |-> v.dims,
     bw |-> CASE v.bw # None -> v.bw [] v.bw = None /\ v.video.bw # None -> v.video.bw [] OTHER -> 1,
     video |-> [id |-> <<i, "video">>, req |-> v.video],
     audio |-> IF v.audio = None THEN None ELSE [id |-> <<i, "audio">>, req |-> v.audio]]

Metadata(v) ==
    [id |-> v.id, kind |-> v.kind, content |-> v.content, bw |-> v.bw, codecs |-> v.codecs, dims |-> v.dims, abr |-> v.abr]

IsSwitchable(selected, v) == selected.abr # None /\ v.abr = selected.abr
SameAudioPresence(selected, v) == (selected.audio = None) = (v.audio = None)

IsAlternate(selected, v) ==
    /\ v.id # selected.id
    /\ IsSwitchable(selected, v) /\ SameAudioPresence(selected, v) /\ IsCompatible(v)

\* playable_alternate_variants: none for a variant that AVPlayer might not play.
Alternates(selected, vs) ==
    LET chosen == SelectSeq(vs, LAMBDA v : IsAlternate(selected, v))
    IN  IF HasCompatibleCodecs(selected)
        THEN [i \in DOMAIN chosen |-> HlsVariant(chosen[i], i)] ELSE << >>

TranscodingPlan(a, v) ==
    LET trans == Policy(a).trans
    IN  [source |-> v.id,
         state |-> CASE v.video = None -> "unsupported"
                     [] v.video # None /\ trans # "force" /\ IsCompatible(v) -> "not_required"
                     [] v.video # None /\ trans = "never" /\ ~IsCompatible(v) -> "disabled"
                     [] OTHER -> IF a.enabled THEN "ready" ELSE "disabled"]

\* BilibiliContentIdentity: ids are positive, names are not blank.
IsComplete(x) ==
    /\ 0 \notin {x.aid, x.cid, x.epid} /\ x.bvid # ""
    /\ CASE x.kind = "page" -> x.cid # None /\ (x.aid # None \/ x.bvid # None) /\ x.epid = None
         [] x.kind = "episode" -> x.epid # None
IsRefreshComplete(x) == IsComplete(x) /\ x.aid # None /\ x.cid # None

AcceptedIdentity(x) ==
    LET identity == [kind |-> IF x.epid # None THEN "episode" ELSE "page", aid |-> x.aid,
                     cid |-> x.cid, epid |-> x.epid, bvid |-> x.bvid]
    IN  IF IsRefreshComplete(identity) THEN identity ELSE None

\* A DASH variant with a video is needed (from_selected_variant).
CanOpen(v) == v.kind = "dash" /\ v.video # None

\* playback_task_metadata_with_policy, from_playback_entry_with_policy.
Session(a, entry, v) ==
    LET vs == [i \in DOMAIN entry.variants |-> FromCore(entry.variants[i])]
    IN  [identity |-> AcceptedIdentity(entry.identity),
         variant |-> HlsVariant(FromCore(v), 0), alts |-> Alternates(FromCore(v), vs),
         advertise |-> TRUE, meta |-> [i \in DOMAIN vs |-> Metadata(vs[i])],
         plan |-> TranscodingPlan(a, FromCore(v)), policy |-> Policy(a)]

\* What a manifest of an older server lacks has a default.
Restored(m) ==
    LET default == [identity |-> None, alts |-> << >>, advertise |-> TRUE, meta |-> << >>,
                    plan |-> [source |-> "", state |-> "disabled"],
                    policy |-> [trans |-> "auto", compat |-> "compatible"]]
    IN  [f \in DOMAIN m \cup DOMAIN default |-> IF f \in DOMAIN m THEN m[f] ELSE default[f]]

-----------------------------------------------------------------------------
(* The playlists.                                                          *)

ResourceVariants(s) == <<s.variant>> \o s.alts
AdvertisedVariants(s) == IF s.advertise THEN ResourceVariants(s) ELSE <<s.variant>>

\* What the network policy leaves, or else the variant of the least bandwidth.
Listed(s, healthy) ==
    LET advertised == Values(AdvertisedVariants(s))
        left == {v \in advertised : v.id \in healthy}
    IN  IF left # {} THEN left
        ELSE {CHOOSE v \in advertised : \A u \in advertised : v.bw <= u.bw}

Resources(v) == {v.video} \cup (IF v.audio = None THEN {} ELSE {v.audio})

\* media_playlist_resource_ref_from: the first variant that has the resource.
Lookup(variants, id) ==
    LET owners == {i \in DOMAIN variants : \E r \in Resources(variants[i]) : r.id = id}
    IN  IF owners = {} THEN None ELSE variants[CHOOSE i \in owners : \A j \in owners : i <= j]

\* playback_session_from_hls_cache_session: what the client is shown.
View(s) ==
    LET own == {m \in Values(s.meta) : m.id = s.variant.id}
    IN  [selected |-> s.variant.id,
         ids |-> {m.id : m \in Values(s.meta)} \cup {s.variant.id},
         content |-> IF own # {} THEN (CHOOSE m \in own : TRUE).content
                     ELSE s.variant.video.req.key.content]

-----------------------------------------------------------------------------
(* The refresh of the URLs.                                                *)

RequestMatches(accepted, fresh) ==
    /\ \A f \in {"kind", "stream", "codec", "bw", "dims", "size"} : accepted[f] = fresh[f]
    /\ \A f \in {"content", "kind", "stream", "codec"} : accepted.key[f] = fresh.key[f]

\* variant_matches_accepted: the metadata decide, if the session has them.
VariantMatches(accepted, meta, v) ==
    LET own == {m \in Values(meta) : m.id = accepted.id}
    IN  /\ v.kind = "dash" /\ v.flv = None /\ v.video # None
        /\ (v.audio = None) = (accepted.audio = None)
        /\ RequestMatches(accepted.video.req, v.video)
        /\ v.audio # None => RequestMatches(accepted.audio.req, v.audio)
        /\ IF own # {}
           THEN LET m == CHOOSE m \in own : TRUE
                IN  \A f \in {"content", "bw", "codecs", "dims"} : v[f] = m[f]
           ELSE /\ HlsVariant(v, 0).bw = accepted.bw
                /\ HlsCodecs(v) = accepted.codecs /\ v.dims = accepted.dims

Matches(accepted, meta, vs) == {i \in DOMAIN vs : VariantMatches(accepted, meta, vs[i])}

\* A representation is refreshed by the only variant that matches it.
IsRefreshable(accepted, meta, vs) == Cardinality(Matches(accepted, meta, vs)) = 1

RefreshedVariant(accepted, meta, vs) ==
    LET v == vs[CHOOSE i \in Matches(accepted, meta, vs) : TRUE]
    IN  [accepted EXCEPT !.video.req.url = v.video.url,
                         !.audio = IF @ = None THEN None ELSE [@ EXCEPT !.req.url = v.audio.url]]

EntryMatches(entry, identity) ==
    /\ 0 \notin {entry.identity.aid, entry.identity.cid}
    /\ \A f \in {"aid", "cid", "epid", "bvid"} : entry.identity[f] = identity[f]

\* with_refreshed_media_requests: every representation or none.
CanRefresh(s, entry) ==
    /\ s.identity # None => EntryMatches(entry, s.identity)
    /\ s.identity # None
    /\ \A v \in Values(ResourceVariants(s)) : IsRefreshable(v, s.meta, entry.variants)

RefreshedSession(s, entry) ==
    LET fresh(v) == RefreshedVariant(v, s.meta, entry.variants)
    IN  [s EXCEPT !.variant = fresh(@), !.alts = [i \in DOMAIN @ |-> fresh(@[i])]]

-----------------------------------------------------------------------------
(* The publication of the manifest.                                        *)

SetUrls(v, video, audio) ==
    [v EXCEPT !.video.req.url = video,
              !.audio = IF @ = None THEN None ELSE [@ EXCEPT !.req.url = audio]]

\* normalized_session_bindings, without the headers.
Normalized(s) ==
    [s EXCEPT !.variant = SetUrls(@, None, None), !.advertise = FALSE,
              !.alts = [i \in DOMAIN @ |-> SetUrls(@[i], None, None)]]

RefreshMatches(existing, incoming) == Normalized(existing) = Normalized(incoming)

PreservedSession_Incoming(existing, incoming) == incoming

\* The URLs on disk are the newer ones (preserve_persisted_request_candidates).
WithUrlsOf(v, old) ==
    SetUrls(v, old.video.req.url, IF old.audio = None THEN None ELSE old.audio.req.url)
PreservedSession(existing, incoming) ==
    [incoming EXCEPT !.variant = WithUrlsOf(@, existing.variant),
                     !.alts = [i \in DOMAIN @ |-> WithUrlsOf(@[i], existing.alts[i])]]

\* What is completed is served from disk alone.
CompletedRuntime(s) == [s EXCEPT !.advertise = FALSE, !.variant = SetUrls(@, None, None)]
Sanitized(s) ==
    [CompletedRuntime(s) EXCEPT !.identity = None, !.alts = [i \in DOMAIN @ |-> SetUrls(@[i], None, None)]]

CompletionMatches(existing, completed) ==
    Normalized([existing EXCEPT !.identity = None]) = Normalized([completed EXCEPT !.identity = None])

\* ffmpeg scales down to the profile; without evidence there is none afterwards.
TranscodedDims(dims) == IF dims = None THEN None ELSE "in"
TranscodedCodecs(s) == {"avc"} \cup (IF s.variant.audio = None THEN {} ELSE {"aac"})
TranscodedRate(s) == TotalRate(s.variant.audio # None)
TranscodedKey(s) ==
    [content |-> s.variant.video.req.key.content, kind |-> "video",
     stream |-> s.variant.video.req.key.stream, codec |-> TranscodedCodecs(s),
     source |-> <<s.variant.video.req.key.source,
                  IF s.variant.audio = None THEN None ELSE s.variant.audio.req.key.source>>]

\* transcoded_completed_session: what was served before can still be looked up.
TranscodedSession(s) ==
    LET dims == TranscodedDims(s.variant.dims)
        request == [kind |-> "video", stream |-> s.variant.video.req.stream, codec |-> TranscodedCodecs(s),
                    bw |-> TranscodedRate(s), dims |-> dims, size |-> 1, key |-> TranscodedKey(s), url |-> None]
    IN  [s EXCEPT !.variant = [id |-> s.variant.id, codecs |-> TranscodedCodecs(s), dims |-> dims,
                               bw |-> TranscodedRate(s), audio |-> None,
                               video |-> [id |-> <<0, "transcoded">>, req |-> request]],
                  !.alts = ResourceVariants(s), !.advertise = FALSE,
                  !.meta = <<[id |-> s.variant.id, kind |-> "dash", bw |-> TranscodedRate(s), abr |-> None,
                              content |-> s.variant.video.req.key.content, codecs |-> TranscodedCodecs(s),
                              dims |-> dims]>>,
                  !.plan = [source |-> s.variant.id, state |-> "not_required"]]

\* completed_transcode_matches: the proof is on disk.
CompletedTranscodeMatches(existing, completed) ==
    LET transcoded == [id |-> <<0, "transcoded">>, key |-> TranscodedKey(existing)]
        bare(v) == SetUrls(v, None, None)
    IN  /\ existing.policy = completed.policy
        /\ existing.plan.state = "ready" /\ completed.plan.state = "not_required"
        /\ completed.plan.source = existing.variant.id /\ completed.variant.id = existing.variant.id
        /\ completed.variant.video.id = transcoded.id /\ completed.variant.audio = None
        /\ \A v \in Values(ResourceVariants(existing)) :
              \E u \in Values(completed.alts) : [id |-> u.id, res |-> Resources(bare(u))] = [id |-> v.id, res |-> Resources(bare(v))]
        /\ completed.variant.video.req.key = transcoded.key
        /\ transcoded \in cached

CompletedPublicationMatches(existing, completed) ==
    CompletionMatches(existing, completed) \/ CompletedTranscodeMatches(existing, completed)

SourceIsComplete(s) == \A r \in Resources(s.variant) : [id |-> r.id, key |-> r.req.key] \in cached

\* source_completed_session_for_restore
RestoredSource(s) == [s EXCEPT !.plan.state = IF @ = "ready" THEN "disabled" ELSE @]

-----------------------------------------------------------------------------
NoJob == [step |-> "idle", sess |-> None]

\* A request, or a session that an older server left.
Init ==
    /\ \/ ask \in Asks /\ offer \in Offers /\ stage = "asked" /\ sess = None /\ disk = None
       \/ \E m \in Manifests : /\ ask = None /\ offer = None /\ stage = "open"
                               /\ sess = Restored(m) /\ disk = Restored(m)
    /\ job = NoJob /\ cached = {} /\ serial = 0 /\ refused = FALSE

\* The plan of the adapter, the session and its first publication.
Open ==
    /\ stage = "asked"
    /\ LET v == IF PolicyIsKnown(ask) THEN Selected(ask, Values(offer.variants)) ELSE None
           opens == v # None => CanOpen(v)
       IN  IF v = None \/ ~opens THEN stage' = "failed" /\ UNCHANGED <<sess, disk>>
           ELSE /\ stage' = "open"
                /\ sess' = Session(ask, offer, v) /\ disk' = sess'
    /\ UNCHANGED <<ask, offer, job, cached, serial, refused>>

\* The entry of a later plan: the origins gave new URLs, and maybe lost the
\* selected variant, changed it, gave it a twin or replaced the content.
Later(drift) ==
    LET renewed(r) == IF r = None THEN None ELSE [r EXCEPT !.url.n = serial + 1]
        vs == [i \in DOMAIN offer.variants |->
                  [FromCore(offer.variants[i]) EXCEPT !.video = renewed(@), !.audio = renewed(@)]]
        own == CHOOSE i \in DOMAIN vs : vs[i].id = sess.variant.id
        twin == [vs[own] EXCEPT !.id = 99, !.video.url.rep = None]
    IN  CASE drift = "none" -> [offer EXCEPT !.variants = vs]
          [] drift = "lost" -> [offer EXCEPT !.variants = SelectSeq(vs, LAMBDA v : v.id # sess.variant.id)]
          [] drift = "changed" -> [offer EXCEPT !.variants = [vs EXCEPT ![own].video.size = 99]]
          [] drift = "twin" -> [offer EXCEPT !.variants = <<twin>> \o vs]
          [] drift = "moved" -> [offer EXCEPT !.variants = vs, !.identity.cid = 99]

\* refresh_hls_media_requests_inner: the manifest, then the registered session.
Refresh(drift) ==
    /\ stage = "open" /\ offer # None /\ serial < MaxUrls
    /\ serial' = serial + 1
    /\ IF ~CanRefresh(sess, Later(drift)) THEN UNCHANGED <<sess, disk, refused>>
       ELSE LET fresh == RefreshedSession(sess, Later(drift))
            IN  IF disk = sess /\ RefreshMatches(sess, fresh)
                THEN disk' = fresh /\ sess' = fresh /\ UNCHANGED refused
                ELSE refused' = TRUE /\ UNCHANGED <<sess, disk>>
    /\ UNCHANGED <<ask, offer, stage, job, cached>>

\* The worker is given the session (it may be refreshed before the next step).
StartJob ==
    /\ stage = "open" /\ job = NoJob
    /\ job' = [step |-> "given", sess |-> sess]
    /\ UNCHANGED <<ask, offer, stage, sess, disk, cached, serial, refused>>

\* cache_session_resources_inner: save_session, then the resources.
SaveJob ==
    /\ job.step = "given"
    /\ IF RefreshMatches(disk, job.sess)
       THEN /\ disk' = PreservedSession(disk, job.sess)
            /\ job' = [job EXCEPT !.step = "saved"] /\ UNCHANGED refused
       ELSE job' = NoJob /\ refused' = TRUE /\ UNCHANGED disk
    /\ UNCHANGED <<ask, offer, stage, sess, cached, serial>>

CacheJob ==
    /\ job.step = "saved"
    /\ cached' = cached \cup {[id |-> r.id, key |-> r.req.key] : r \in Resources(job.sess.variant)}
    /\ job' = [job EXCEPT !.step = "cached"]
    /\ UNCHANGED <<ask, offer, stage, sess, disk, serial, refused>>

\* transcode_cached_session_if_needed: ffmpeg's output and its metadata.
TranscodeJob ==
    /\ job.step = "cached" /\ job.sess.plan.state = "ready"
    /\ ask # None => ask.enabled
    /\ cached' = cached \cup {[id |-> <<0, "transcoded">>, key |-> TranscodedKey(job.sess)]}
    /\ job' = [step |-> "transcoded", sess |-> TranscodedSession(job.sess)]
    /\ UNCHANGED <<ask, offer, stage, sess, disk, serial, refused>>

\* save_completed_session
Publish(completed) ==
    IF CompletedPublicationMatches(disk, completed)
    THEN disk' = completed /\ sess' = completed /\ stage' = "completed" /\ UNCHANGED refused
    ELSE refused' = TRUE /\ UNCHANGED <<disk, sess, stage>>

CompleteJob ==
    /\ \/ job.step = "cached" /\ job.sess.plan.state # "ready"
       \/ job.step = "transcoded"
    /\ Publish(Sanitized(job.sess))
    /\ job' = NoJob
    /\ UNCHANGED <<ask, offer, cached, serial>>

\* The server restarts; the sources of a task that counts as completed serve
\* for an output that was never made (save_restored_source_completed_session).
Restart(claimed) ==
    /\ stage \in {"open", "completed"} /\ (job # NoJob \/ claimed)
    /\ job' = NoJob
    /\ IF claimed /\ disk.plan.state = "ready" /\ SourceIsComplete(disk)
       THEN /\ disk' = Sanitized(RestoredSource(disk)) /\ sess' = disk' /\ stage' = "completed"
       ELSE sess' = disk /\ UNCHANGED <<disk, stage>>
    /\ UNCHANGED <<ask, offer, cached, serial, refused>>

Next ==
    \/ Open
    \/ \E drift \in {"none", "lost", "changed", "twin", "moved"} : Refresh(drift)
    \/ StartJob \/ SaveJob \/ CacheJob \/ TranscodeJob \/ CompleteJob
    \/ \E claimed \in BOOLEAN : Restart(claimed)

Spec == Init /\ [][Next]_vars
-----------------------------------------------------------------------------
\* The variant that was selected is one of those offered, AVPlayer plays it,
\* it is never above the quality that was asked for, and below it only to be
\* compatible; an encoding that was asked for is given, or H.264; and a
\* compatible variant is chosen if the policy wants one and there is one.
SelectionIsSound ==
    (ask # None /\ sess # None) =>
        LET vs == Values(offer.variants)
            v == CHOOSE v \in vs : v.id = sess.variant.id
            safe == {u \in Playable(vs) : IsCompatible(u) /\ DoesNotExceed(u, ask.quality)}
        IN  /\ v.playable /\ DoesNotExceed(v, ask.quality)
            /\ (ask.quality # None /\ StreamId(v) # ask.quality) => v \in safe
            /\ ask.enc # "auto" => Family(v) \in {ask.enc, "h264"}
            /\ (ask.enc = "auto" /\ Policy(ask).compat = "compatible" /\ safe # {}) => v \in safe

\* Whatever the network policy leaves of the master playlist, every playlist it
\* names leads to its own variant; a switch between variants changes neither the
\* presence of audio nor leaves the group, nor leaves the profile.
RenditionsResolve ==
    sess # None =>
        \A healthy \in SUBSET {v.id : v \in Values(AdvertisedVariants(sess))} :
            /\ Listed(sess, healthy) # {}
            /\ \A v \in Listed(sess, healthy), r \in UNION {Resources(u) : u \in Listed(sess, healthy)} :
                  r \in Resources(v) => Lookup(AdvertisedVariants(sess), r.id) = v
            /\ \A v, u \in Listed(sess, healthy) :
                  /\ (v.audio = None) = (u.audio = None)
                  /\ v # sess.variant => "over" # v.dims

\* A URL serves the representation whose bytes the cache key stands for.
UrlsServeTheirRepresentation ==
    \A s \in {sess, disk, job.sess} \ {None} : \A v \in Values(ResourceVariants(s)) :
        \A r \in Resources(v) : r.req.url # None => r.req.url.rep = r.req.key.source

\* The registered session is the one on disk, and its URLs are the newest: the
\* fill worker that was given an older one does not bring back expired URLs.
DiskIsCurrent == stage = "open" => disk = sess

\* No publication of the server's own is refused.
NothingIsRefused == ~refused

\* A completed session has no URL and no identity left, its primary resource is
\* complete on disk, what was served before can still be looked up, and the
\* output of the transcoder stays within the profile.
CompletionIsClean ==
    stage = "completed" =>
        /\ disk.identity = None /\ ~disk.advertise /\ SourceIsComplete(disk)
        /\ \A v \in Values(ResourceVariants(disk)) : \A r \in Resources(v) : r.req.url = None
        /\ ask # None =>
              \A r \in Resources(Session(ask, offer, CHOOSE v \in Values(offer.variants) : v.id = disk.variant.id).variant) :
                  LET owner == Lookup(ResourceVariants(disk), r.id)
                  IN  owner # None /\ \E x \in Resources(owner) : x.req.key = r.req.key
        /\ disk.variant.video.id = <<0, "transcoded">> => disk.variant.dims # "over" /\ disk.variant.bw <= TotalRate(TRUE)

\* The client is shown the variant it plays, of the content it plays.
ViewIsConsistent ==
    sess # None => View(sess).selected \in View(sess).ids /\ View(sess).content = sess.variant.video.req.key.content

\* From the plan to the completed session: the selection, the playlists, the
\* refresh and the publications.
PlaybackIsFaithful ==
    /\ SelectionIsSound /\ RenditionsResolve /\ UrlsServeTheirRepresentation
    /\ DiskIsCurrent /\ NothingIsRefused /\ CompletionIsClean /\ ViewIsConsistent
=============================================================================
