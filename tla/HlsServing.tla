----------------------------- MODULE HlsServing -----------------------------
(***************************************************************************)
(* Serving an HLS session over HTTP (media.rs) from the playback registry  *)
(* (hls.rs), with the network policy of the session and the refresh of its *)
(* signed URLs, while the session is replaced, completed and removed.      *)
(*                                                                         *)
(* The session has its selected variant "main" and an alternate "alt", one *)
(* resource each.  A URL is the number of the plan that issued it (0: no   *)
(* URL); the origins refuse what plans up to `expired' issued.             *)
(***************************************************************************)
EXTENDS Naturals, Sequences, FiniteSets

CONSTANTS
    Requests,   \* HTTP requests
    Units,      \* length of a resource
    Preference, \* WeakNetworkPreference: "managed", "adaptive" or "hold"
    MaxGen,     \* bound: registrations
    MaxPlans    \* bound: plans, the first one included

VARIABLES
    reg,        \* HlsPlaybackRegistry: the session, its generation and scrub
    lastGen,    \* next_generation
    saved,      \* session.json
    cached,     \* durable units of the range cache: <<representation, resource, unit>>
    policy,     \* HlsNetworkPolicyState of the session
    entry,      \* the current HlsMediaRefreshEntry, 0 if there is none
    tried,      \* attempts under cooldown: <<entry, resource>>
    req,        \* the requests
    plans, expired

vars == <<reg, lastGen, saved, cached, policy, entry, tried, req, plans, expired>>

Resources == {"main", "alt"}
Variants == Resources
NoUrls == [r \in Resources |-> 0]
Absent == [gen |-> 0, rep |-> 0, adv |-> FALSE, urls |-> NoUrls, scrub |-> FALSE]
Calm == [retry |-> FALSE, down |-> FALSE, slow |-> FALSE]
NoPolicy == [gen |-> 0, var |-> [v \in Variants |-> Calm], cacheOnly |-> FALSE]

Idle == [pc |-> "idle", gen |-> 0, rep |-> 0, res |-> "main", urls |-> NoUrls, from |-> 0,
         sent |-> << >>, fetched |-> FALSE, again |-> FALSE, via |-> "cache",
         failed |-> [rep |-> 0, urls |-> NoUrls], entry |-> 0, plan |-> 0]

\* What an earlier run may have left of the alternate, or of the selected variant.
Init ==
    /\ reg = [Absent EXCEPT !.gen = 1, !.rep = 1, !.adv = TRUE, !.urls = [r \in Resources |-> 1]]
    /\ lastGen = 1
    /\ saved = [rep |-> 1, urls |-> reg.urls]
    /\ cached \in {{}, {<<1, "main", 0>>}, {<<1, "alt", u>> : u \in 0 .. Units - 1}}
    /\ policy = [NoPolicy EXCEPT !.gen = 1]
    /\ entry = 0 /\ tried = {}
    /\ req = [q \in Requests |-> Idle]
    /\ plans = 1 /\ expired = 0

Registered == reg.gen # 0
Full(rep, r) == \A u \in 0 .. Units - 1 : <<rep, r, u>> \in cached

(***************************************************************************)
(* The registry.                                                           *)
(***************************************************************************)
\* insert_with_generation_update: a new generation, and advance_session_generation
\* under the same lock.
Insert(session) ==
    /\ lastGen < MaxGen
    /\ lastGen' = lastGen + 1
    /\ reg' = [session EXCEPT !.gen = lastGen']
    /\ policy' = IF policy.gen < lastGen' THEN [NoPolicy EXCEPT !.gen = lastGen'] ELSE policy

\* A plan is published: the same representation, or another.
Publish(rep) ==
    /\ plans < MaxPlans /\ ~Registered
    /\ plans' = plans + 1
    /\ saved' = [rep |-> rep, urls |-> [r \in Resources |-> plans']]
    /\ Insert([Absent EXCEPT !.rep = rep, !.adv = TRUE, !.urls = saved'.urls])
    /\ UNCHANGED <<cached, entry, tried, req, expired>>

\* ensure_hls_session_registered from the stored session.
Restore ==
    /\ ~Registered /\ saved.rep # 0
    /\ Insert([Absent EXCEPT !.rep = saved.rep, !.adv = saved.urls # NoUrls, !.urls = saved.urls])
    /\ UNCHANGED <<saved, cached, entry, tried, req, plans, expired>>

\* register_completed_hls_runtime_session: the selected variant is served from
\* the cache only; the alternates keep their URLs for a while.
Complete ==
    /\ Registered /\ reg.adv /\ Full(reg.rep, "main")
    /\ Insert([reg EXCEPT !.adv = FALSE, !.urls["main"] = 0, !.scrub = TRUE])
    /\ saved' = [saved EXCEPT !.urls = NoUrls]
    /\ UNCHANGED <<cached, entry, tried, req, plans, expired>>

\* apply_pending_scrub, by the timer or by a lookup after the deadline.
Scrub ==
    /\ reg.scrub
    /\ reg' = [reg EXCEPT !.urls = NoUrls, !.scrub = FALSE]
    /\ UNCHANGED <<lastGen, saved, cached, policy, entry, tried, req, plans, expired>>

\* remove_hls_playback_session, with its data or to be restored later.
Remove(withData) ==
    /\ Registered
    /\ reg' = Absent
    /\ policy' = IF policy.gen # 0 /\ policy.gen <= reg.gen THEN NoPolicy ELSE policy
    /\ entry' = 0
    /\ IF withData THEN saved' = [rep |-> 0, urls |-> NoUrls] /\ cached' = {}
       ELSE UNCHANGED <<saved, cached>>
    /\ UNCHANGED <<lastGen, tried, req, plans, expired>>

Expire ==
    /\ expired < plans
    /\ expired' = plans
    /\ UNCHANGED <<reg, lastGen, saved, cached, policy, entry, tried, req, plans>>

(***************************************************************************)
(* The network policy.                                                     *)
(***************************************************************************)
\* The hold survives every window; otherwise a degradation ends.
Degraded(v) == [v EXCEPT !.retry = TRUE, !.down = TRUE]

Recorded(v, event) ==
    CASE event = "retry"   -> [v EXCEPT !.retry = TRUE]
      [] event = "failure" -> Degraded(v)
      [] event = "slow"    -> IF v.slow THEN Degraded(v) ELSE [v EXCEPT !.slow = TRUE, !.retry = TRUE]
      [] event = "success" -> [v EXCEPT !.slow = FALSE]

AcceptsUpdate_Always(q) == TRUE

\* with_network_policy_update, under the lock of the registry.
AcceptsUpdate(q) == reg.gen = req[q].gen /\ reg.adv

Hold == Preference = "hold"

\* variant_mut: an event of a newer generation starts afresh, one of an older
\* is dropped.
Record(q, event) ==
    LET gen  == req[q].gen
        base == IF policy.gen < gen THEN [NoPolicy EXCEPT !.gen = gen] ELSE policy
    IN  policy' = IF Preference = "managed" \/ ~AcceptsUpdate(q) \/ policy.gen > gen THEN policy
                  ELSE [base EXCEPT !.var[req[q].res] = Recorded(@, event)]

RecordCacheHit(q) ==
    policy' = [policy EXCEPT !.cacheOnly =
                  @ \/ (AcceptsUpdate(q) /\ policy.gen = req[q].gen /\ \E v \in Variants : policy.var[v].down)]

\* The windows of a variant end (prune_session_state).
Recover(v) ==
    /\ policy.var[v].retry \/ (policy.var[v].down /\ ~Hold)
    /\ LET var == [policy.var EXCEPT ![v] = IF Hold /\ @.down THEN [@ EXCEPT !.retry = FALSE] ELSE Calm]
       IN  policy' = [policy EXCEPT !.var = var,
                         !.cacheOnly = @ /\ \E w \in Variants : var[w].down]
    /\ UNCHANGED <<reg, lastGen, saved, cached, entry, tried, req, plans, expired>>

\* The window of "cache only" ends first.
CacheOnlyEnds ==
    /\ policy.cacheOnly
    /\ policy' = [policy EXCEPT !.cacheOnly = FALSE]
    /\ UNCHANGED <<reg, lastGen, saved, cached, entry, tried, req, plans, expired>>

\* variant_is_advertisable, and advertised_variants_with_filter: at least the
\* lowest variant, "alt", is left.
Advertisable(v) == Preference = "managed" \/ policy.gen # reg.gen \/ ~policy.var[v].down
Advertised == IF ~reg.adv THEN {"main"}
              ELSE IF \E v \in Variants : Advertisable(v) THEN {v \in Variants : Advertisable(v)} ELSE {"alt"}

(***************************************************************************)
(* A request.                                                              *)
(***************************************************************************)
Set(q, f) == req' = [req EXCEPT ![q] = f]
Go(q, pc) == Set(q, [req[q] EXCEPT !.pc = pc])
State == <<reg, lastGen, saved, cached, entry, tried, plans, expired>>

\* The failure of a body or of a response.
Fail(q) == Record(q, "failure") /\ Go(q, "failed")

Left(q) == req[q].from + Len(req[q].sent)
Unit(q) == <<req[q].rep, req[q].res, Left(q)>>

\* hls_segment_response: the handle of the session, the policy, then the
\* completed file, the prewarmed prefix or the range cache.
Serve(q, r, from) ==
    LET new == [Idle EXCEPT !.gen = reg.gen, !.rep = reg.rep, !.res = r, !.urls = reg.urls, !.from = from]
    IN  /\ req[q].pc = "idle" /\ Registered
        /\ Hold /\ reg.adv => r \in Advertised
        /\ reg.urls[r] = 0 => Full(reg.rep, r)
        /\ Set(q, [new EXCEPT !.pc = IF Full(reg.rep, r) THEN "file" ELSE "stream"])
        /\ UNCHANGED <<State, policy>>

\* build_file_response: the file stays open whatever happens to the session.
ServeFile(q) ==
    /\ req[q].pc = "file"
    /\ RecordCacheHit(q)
    /\ Set(q, [req[q] EXCEPT !.pc = "done",
                  !.sent = [i \in 1 .. (Units - req[q].from) |-> <<req[q].rep, req[q].res, req[q].from + i - 1>>]])
    /\ UNCHANGED State

\* build_prewarmed_spliced_file_response: the first unit is local.
ServePrewarmed(q) ==
    /\ req[q].pc = "stream" /\ req[q].sent = << >> /\ req[q].from = 0 /\ Unit(q) \in cached
    /\ Set(q, [req[q] EXCEPT !.pc = "proxy", !.via = "proxy", !.sent = <<Unit(q)>>])
    /\ UNCHANGED <<State, policy>>

\* hls_range_control.
Continues(q) ==
    /\ Registered
    /\ reg.gen = req[q].gen \/ (~reg.adv /\ reg.rep = req[q].rep)

\* The stream of the body: what is durable is read and sent.
StreamCached(q) ==
    /\ req[q].pc = "stream" /\ Left(q) < Units /\ Continues(q) /\ Unit(q) \in cached
    /\ Set(q, [req[q] EXCEPT !.sent = Append(@, Unit(q))])
    /\ UNCHANGED <<State, policy>>

StreamCancelled(q) ==
    /\ req[q].pc = "stream" /\ Left(q) < Units /\ ~Continues(q)
    /\ Fail(q)
    /\ UNCHANGED State

\* HlsRangePolicyObservation::finish.
StreamEnds(q, event) ==
    /\ req[q].pc = "stream" /\ Left(q) = Units
    /\ event \in {"success", "slow"}
    /\ IF req[q].fetched THEN Record(q, event) ELSE RecordCacheHit(q)
    /\ Go(q, "done")
    /\ UNCHANGED State

\* The URLs of the registered session if it is still the representation the
\* request was answered for, else those the request knows.
Effective(q) ==
    IF Registered /\ reg.rep = req[q].rep THEN [rep |-> reg.rep, urls |-> reg.urls]
    ELSE [rep |-> req[q].rep, urls |-> req[q].urls]

\* ensure_hls_range_with_media_refresh, up to its request.
StartFetch(q) ==
    /\ req[q].pc = "stream" /\ Left(q) < Units /\ Continues(q) /\ Unit(q) \notin cached
    /\ Set(q, [req[q] EXCEPT !.pc = "fetch", !.via = "cache", !.failed = Effective(q), !.again = FALSE])
    /\ UNCHANGED <<State, policy>>

Url(q) == req[q].failed.urls[req[q].res]
Works(q) == Url(q) > expired

\* The next unit, as the URL in use has it.
Delivered(q) == <<req[q].failed.rep, req[q].res, Left(q)>>

\* The span becomes durable and is read back; afterwards the control is not
\* consulted again before the unit is sent.
Fetched(q) ==
    /\ req[q].pc = "fetch" /\ Works(q) /\ Continues(q)
    /\ cached' = cached \cup {Delivered(q)}
    /\ Set(q, [req[q] EXCEPT !.pc = "stream", !.fetched = TRUE,
                             !.sent = Append(@, Delivered(q))])
    /\ UNCHANGED <<reg, lastGen, saved, policy, entry, tried, plans, expired>>

\* The quota is exceeded, or there is no Range support: the rest is proxied.
Uncacheable(q) ==
    /\ req[q].pc = "fetch"
    /\ Set(q, [req[q] EXCEPT !.pc = "proxy", !.via = "proxy"])
    /\ UNCHANGED <<State, policy>>

\* proxy_hls_media_resource starts with the URLs of the moment.
StartProxy(q) ==
    /\ req[q].pc = "proxy"
    /\ Set(q, [req[q] EXCEPT !.pc = "ask", !.failed = Effective(q), !.again = FALSE])
    /\ UNCHANGED <<State, policy>>

\* proxy_hls_media_resource_once finds a candidate that answers as asked; a
\* backup counts as a retry.
Proxied(q, retried) ==
    /\ req[q].pc = "ask" /\ Works(q)
    /\ IF retried THEN Record(q, "retry") ELSE UNCHANGED policy
    /\ Go(q, "tail")
    /\ UNCHANGED State

\* The rest of the body comes from the origin, whatever happens here.
TailContinues(q) ==
    /\ req[q].pc = "tail" /\ Left(q) < Units
    /\ Set(q, [req[q] EXCEPT !.sent = Append(@, Delivered(q))])
    /\ UNCHANGED <<State, policy>>

TailEnds(q, event) ==
    /\ req[q].pc = "tail" /\ Left(q) = Units /\ event \in {"success", "slow"}
    /\ Record(q, event)
    /\ Go(q, "done")
    /\ UNCHANGED State

\* A request or a body breaks off; or the URL is refused once more.
Breaks(q) ==
    /\ req[q].pc \in {"fetch", "ask", "tail"}
    /\ Fail(q)
    /\ UNCHANGED State

\* The origins refuse the URL.
Expired(q) ==
    /\ req[q].pc \in {"fetch", "ask"} /\ Url(q) # 0 /\ ~Works(q) /\ ~req[q].again
    /\ IF req[q].pc = "ask" THEN Record(q, "failure") ELSE UNCHANGED policy
    /\ Go(q, "refresh")
    /\ UNCHANGED State

(***************************************************************************)
(* Refreshing the URLs (refresh_hls_media_requests_inner).                 *)
(***************************************************************************)
\* current_refresh_session: the session is there, refreshable and differs from
\* the failed one in its URLs only.
Refreshable(q) == Registered /\ reg.adv /\ reg.rep = req[q].rep /\ Continues(q)

WasRefreshed_Never(q) == FALSE

\* failed_media_request_was_refreshed.
WasRefreshed(q) == reg.urls[req[q].res] # Url(q)

\* The request goes on with the URLs that the session has now.
Resumed(q) == [req[q] EXCEPT !.pc = IF req[q].via = "cache" THEN "fetch" ELSE "ask",
                             !.failed.urls = reg'.urls, !.again = TRUE, !.entry = 0, !.plan = 0]

RefreshStarts(q) ==
    /\ req[q].pc = "refresh" /\ Refreshable(q)
    /\ IF WasRefreshed(q) THEN UNCHANGED reg /\ Set(q, Resumed(q)) /\ UNCHANGED entry
       ELSE /\ entry' = IF entry = 0 THEN lastGen ELSE entry
            /\ Set(q, [req[q] EXCEPT !.pc = "lock", !.entry = entry'])
            /\ UNCHANGED reg
    /\ UNCHANGED <<lastGen, saved, cached, policy, tried, plans, expired>>

Holds(q, e) == req[q].pc \in {"plan", "commit"} /\ req[q].entry = e

\* The lock of the entry; then the session is looked at again, and an attempt
\* for the resource must not be recent.
RefreshLocked(q) ==
    /\ req[q].pc = "lock" /\ Refreshable(q)
    /\ \A p \in Requests : ~Holds(p, req[q].entry)
    /\ IF WasRefreshed(q) THEN UNCHANGED <<reg, tried>> /\ Set(q, Resumed(q))
       ELSE /\ <<req[q].entry, req[q].res>> \notin tried
            /\ tried' = tried \cup {<<req[q].entry, req[q].res>>}
            /\ Go(q, "plan")
            /\ UNCHANGED reg
    /\ UNCHANGED <<lastGen, saved, cached, policy, entry, plans, expired>>

\* refresh_media answers.
RefreshPlanned(q) ==
    /\ req[q].pc = "plan" /\ plans < MaxPlans
    /\ plans' = plans + 1
    /\ Set(q, [req[q] EXCEPT !.pc = "commit", !.plan = plans'])
    /\ UNCHANGED <<reg, lastGen, saved, cached, policy, entry, tried, expired>>

\* with_refreshed_media_requests, preserve_concurrent_media_request_updates and
\* replace_media_requests_if_current, with the stored session.
RefreshCommitted(q) ==
    LET urls == [r \in Resources |->
                   IF r # req[q].res /\ reg.urls[r] # req[q].failed.urls[r] THEN reg.urls[r] ELSE req[q].plan]
    IN  /\ req[q].pc = "commit" /\ Refreshable(q)
        /\ IF WasRefreshed(q) THEN UNCHANGED <<reg, saved>>
           ELSE reg' = [reg EXCEPT !.urls = urls] /\ saved' = [saved EXCEPT !.urls = urls]
        /\ Set(q, Resumed(q))
        /\ UNCHANGED <<lastGen, cached, policy, entry, tried, plans, expired>>

\* Unavailable, cancelled, another identity, or not saved: the request fails,
\* and a cancelled attempt does not count as recent.
RefreshFails(q) ==
    /\ req[q].pc \in {"refresh", "lock", "plan", "commit"}
    /\ tried' = IF ~Continues(q) /\ req[q].pc \in {"plan", "commit"}
                THEN tried \ {<<req[q].entry, req[q].res>>} ELSE tried
    /\ Fail(q)
    /\ UNCHANGED <<reg, lastGen, saved, cached, entry, plans, expired>>

CooldownEnds ==
    /\ tried # {}
    /\ \A q \in Requests : req[q].pc \notin {"plan", "commit"}
    /\ tried' = {}
    /\ UNCHANGED <<reg, lastGen, saved, cached, policy, entry, req, plans, expired>>

Next ==
    \/ \E rep \in {1, 2} : Publish(rep)
    \/ Restore \/ Complete \/ Scrub \/ Expire \/ CooldownEnds \/ CacheOnlyEnds
    \/ \E withData \in BOOLEAN : Remove(withData)
    \/ \E v \in Variants : Recover(v)
    \/ \E q \in Requests :
          \/ \E r \in Resources, from \in 0 .. Units - 1 : Serve(q, r, from)
          \/ ServeFile(q) \/ ServePrewarmed(q) \/ StreamCached(q) \/ StreamCancelled(q)
          \/ \E event \in {"success", "slow"} : StreamEnds(q, event) \/ TailEnds(q, event)
          \/ StartFetch(q) \/ Fetched(q) \/ Uncacheable(q) \/ StartProxy(q)
          \/ \E retried \in BOOLEAN : Proxied(q, retried)
          \/ TailContinues(q) \/ Breaks(q) \/ Expired(q)
          \/ RefreshStarts(q) \/ RefreshLocked(q) \/ RefreshPlanned(q)
          \/ RefreshCommitted(q) \/ RefreshFails(q)

Spec == Init /\ [][Next]_vars

(***************************************************************************)
(* What must hold.                                                         *)
(***************************************************************************)
\* Through replacements, completions and removals of its session, a body is a
\* run of units of the representation and resource that were asked for, in
\* order, and the whole of it if it ends without an error.
BodiesAreExact ==
    \A q \in Requests : req[q].pc # "idle" =>
        /\ \A i \in DOMAIN req[q].sent : req[q].sent[i] = <<req[q].rep, req[q].res, req[q].from + i - 1>>
        /\ req[q].pc = "done" => Left(q) = Units

\* Events of requests that outlive their session or its generation leave no
\* trace: there is policy state only for the session that is being played.
PolicyIsFenced ==
    (policy.var # NoPolicy.var \/ policy.cacheOnly) => Registered /\ reg.adv /\ policy.gen = reg.gen

\* What is registered for playback is what a restart would find.
SavedIsRegistered == Registered /\ reg.adv => saved.urls = reg.urls /\ saved.rep = reg.rep

\* A refresh replaces only URLs that the origins refuse: of several requests
\* that fail together, one refreshes and the others go on with its result.
WorkingUrlsStay ==
    reg'.gen = reg.gen /\ ~reg.scrub =>
        \A r \in Resources : reg.urls[r] > expired => reg'.urls[r] = reg.urls[r]
=============================================================================
