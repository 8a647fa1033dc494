--------------------------- MODULE ResolverRouting ---------------------------
(***************************************************************************)
(* Planning the playback of restricted content: the official answer races  *)
(* proxies that the resolver settings allow, in an order that the health   *)
(* of the hosts and the remembered routes decide, while a client may change*)
(* the settings.  Plans share the health tracker, the route memory, the    *)
(* settings, the route permits and the workers that load credentials.      *)
(*                                                                         *)
(* Time is abstract: a cooldown, the ten minutes a probe counts and the    *)
(* lifetime of a record may end at any moment.                             *)
(***************************************************************************)
EXTENDS Naturals, Sequences, FiniteSets, SequencesExt, Queues

CONSTANTS
    Plans,
    Hosts,          \* resolver hosts, built in or custom
    AllHosts,       \* those of region All; the others serve "hk" only
    Permits,        \* MAX_CONCURRENT_ROUTE_PLANS
    Loaders,        \* blocking_operation_permits
    MaxRouted,      \* MAX_ROUTED_CANDIDATES
    MaxRevision,    \* bound: updates of the settings
    MaxEvents,      \* bound: plans, restarts and moments that pass
    Unset

\* Finitely many hosts, none of which is called like the routes without one.
ASSUME HostNames ==
    /\ IsFiniteSet(Hosts)
    /\ "official" \notin Hosts /\ "unrouted" \notin Hosts
    /\ MaxRouted \in Nat

VARIABLES
    settings,   \* ResolverSettingsStore.state and its file: enabled hosts, revision
    health,     \* ResolverHealthTracker.hosts
    memory,     \* RouteMemory: the route of the content, or Unset
    remembered, \* the route memory file
    loading,    \* blocking workers that load credentials
    plan,       \* where each plan is
    cancelled,  \* plans whose cancellation is requested
    events      \* how many of MaxEvents happened

routingVars == <<settings, health, memory, remembered, loading, plan, cancelled, events>>
shared == <<settings, health, memory, remembered>>

NoResult == [st |-> "none", route |-> "none", id |-> "none"]
Failed == [NoResult EXCEPT !.st = "err"]
Planned(route, id) == [st |-> "ok", route |-> route, id |-> id]

NoPlan == [pc |-> "idle", input |-> "season", rev |-> 0, hosts |-> {}, off |-> "pending",
           meta |-> FALSE, area |-> "cn", affine |-> FALSE, list |-> << >>, due |-> {},
           up |-> {}, proxy |-> "none", result |-> NoResult]

\* A host nobody has talked to.  "probed" holds for PROBE_REFRESH_SECS after a
\* probe, "up" while its last outcome was a success that recent.
Unknown == [known |-> FALSE, answered |-> FALSE, up |-> FALSE,
            probed |-> FALSE, revalidate |-> FALSE, cooling |-> FALSE]

RoutingInit ==
    /\ settings = [hosts |-> Hosts, rev |-> 0] 
    /\ health = [h \in Hosts |-> Unknown]
    /\ memory = Unset /\ remembered = Unset
    /\ loading = {}
    /\ plan = [p \in Plans |-> NoPlan]
    /\ cancelled = {}
    /\ events = 0

\* Something that may happen again and again.
Happens == events < MaxEvents /\ events' = events + 1

(***************************************************************************)
(* Settings.                                                               *)
(***************************************************************************)
\* update: the revision is compared and the file replaced under the lock; if
\* it can not be written nothing changes.
UpdateSettings(H) ==
    /\ settings.rev < MaxRevision
    /\ settings' = [hosts |-> H, rev |-> settings.rev + 1]
    /\ UNCHANGED <<health, memory, remembered, loading, plan, cancelled, events>>

IsCurrent(p) == settings.rev = plan[p].rev

(***************************************************************************)
(* Health.                                                                 *)
(***************************************************************************)
ProbeDue(h) ==
    \/ ~health[h].known
    \/ ~health[h].cooling /\ (health[h].revalidate \/ ~health[h].probed)

RecentlyHealthy(h) == health[h].up /\ ~health[h].cooling

RecordSuccess(h) ==
    [known |-> TRUE, answered |-> TRUE, up |-> TRUE, probed |-> TRUE, revalidate |-> FALSE, cooling |-> FALSE]

RecordFailure(h) ==
    [health[h] EXCEPT !.known = TRUE, !.up = FALSE, !.probed = TRUE, !.revalidate = TRUE, !.cooling = TRUE]

RecordNeutralProbe(h) == [health[h] EXCEPT !.known = TRUE, !.probed = TRUE, !.revalidate = FALSE]

\* rank_key: hosts that do not cool down first, then those that ever
\* answered, the unknown, and those that never did; the rest of the key
\* (age and response time) orders hosts that are equal so far.
Rank(h) == <<health[h].cooling,
             IF ~health[h].known THEN 1 ELSE IF health[h].answered THEN 0 ELSE 2>>

Before(a, b) == \/ ~Rank(a)[1] /\ Rank(b)[1]
                \/ Rank(a)[1] = Rank(b)[1] /\ Rank(a)[2] < Rank(b)[2]

HostRankings(H) == {s \in SetToSeqs(H) : \A i, j \in DOMAIN s : Before(s[i], s[j]) => i < j}

\* Time passes for a host: its cooldown ends, its probe is older than
\* PROBE_REFRESH_SECS, its record older than RECORD_TTL_SECS.
HealthAges(h) ==
    /\ Happens
    /\ \/ /\ health[h].cooling
          /\ health' = [health EXCEPT ![h].cooling = FALSE]
       \/ /\ health[h].probed /\ ~health[h].cooling
          /\ health' = [health EXCEPT ![h].probed = FALSE, ![h].up = FALSE]
       \/ /\ health[h].known /\ ~health[h].probed
          /\ health' = [health EXCEPT ![h] = Unknown]
    /\ UNCHANGED <<settings, memory, remembered, loading, plan, cancelled>>

ForgetRoute ==
    /\ Happens /\ memory # Unset
    /\ memory' = Unset
    /\ UNCHANGED <<settings, health, remembered, loading, plan, cancelled>>

(***************************************************************************)
(* A plan, up to its route.                                                *)
(***************************************************************************)
Set(p, f) == plan' = [plan EXCEPT ![p] = f]

\* run_resolver_future_until_current: a result counts only if the plan is
\* still wanted and the settings are still those it was made under.
StillWanted_Unchecked(p) == p \notin cancelled

StillWanted(p) == p \notin cancelled /\ IsCurrent(p)

End(p, result) ==
    Set(p, [plan[p] EXCEPT !.pc = "done", !.result = IF StillWanted(p) THEN result ELSE Failed])

StartPlan(p, input) ==
    /\ Happens /\ plan[p].pc = "idle"
    /\ Set(p, [NoPlan EXCEPT !.pc = "config", !.input = input])
    /\ UNCHANGED <<shared, loading, cancelled>>

\* client_config_for_request: the worker that reads the credential file keeps
\* its permit until it is done, whoever waits for it.
LoadCredentials(p) ==
    /\ plan[p].pc = "config" /\ Cardinality(loading) < Loaders /\ p \notin loading
    /\ loading' = loading \cup {p}
    /\ Set(p, [plan[p] EXCEPT !.pc = "loading"])
    /\ UNCHANGED <<shared, cancelled, events>>

CredentialsBusy(p) ==
    /\ plan[p].pc = "config" /\ (Cardinality(loading) >= Loaders \/ p \in loading)
    /\ Set(p, [plan[p] EXCEPT !.pc = "done", !.result = Failed])
    /\ UNCHANGED <<shared, loading, cancelled, events>>

\* The settings are read once, with their revision.
Loaded(p) ==
    /\ p \in loading
    /\ loading' = loading \ {p}
    /\ IF plan[p].pc # "loading" THEN UNCHANGED plan
       ELSE \/ Set(p, [plan[p] EXCEPT !.pc = "permit", !.rev = settings.rev, !.hosts = settings.hosts])
            \/ Set(p, [plan[p] EXCEPT !.pc = "done", !.result = Failed])
    /\ UNCHANGED <<shared, cancelled, events>>

Routing == {"initial", "probe", "await", "race", "proxies", "train"}

AcquireRoutePermit(p) ==
    /\ plan[p].pc = "permit"
    /\ Cardinality({q \in Plans : plan[q].pc \in Routing}) < Permits
    /\ Set(p, [plan[p] EXCEPT !.pc = "initial"])
    /\ UNCHANGED <<shared, loading, cancelled, events>>

\* What the official route may answer: a plan with the identity of the
\* episode, with its episode id only, with another one; a genuine region
\* restriction (is_genuine_region_restriction); another error.
Answers == {"same", "epid", "wrong", "region", "error"}
Plan(o) == o \in {"same", "epid", "wrong"}

\* trusted_official_episode_matches_input.
Trusted(p, o) == plan[p].input = "episode" /\ o \in {"same", "epid"}

\* A plan that does not match the resolved identity counts as an error.
Checked(o) == IF o \in {"epid", "wrong"} THEN "error" ELSE o

\* first_valid_plan_race reports an official answer without a valid plan as
\* invalid, not as an error.
RaceOver(p, off, proxy) ==
    IF off = "pending" \/ proxy = "pending" THEN [plan[p] EXCEPT !.off = off, !.proxy = proxy]
    ELSE IF off = "region" THEN [plan[p] EXCEPT !.pc = "proxies", !.off = off, !.list = Tail(@), !.proxy = proxy]
    ELSE [plan[p] EXCEPT !.pc = "done", !.off = off, !.result = Failed]

\* The official route answers; every select polls it first.
OfficialAnswers(p, o) ==
    /\ plan[p].off = "pending"
    /\ \/ /\ plan[p].pc = "initial"
          /\ IF Trusted(p, o) THEN End(p, Planned("official", o))
             ELSE Set(p, [plan[p] EXCEPT !.off = o])
       \/ /\ plan[p].pc = "probe"
          /\ IF o = "same" THEN End(p, Planned("official", o))
             ELSE IF ~plan[p].affine /\ Checked(o) # "region" THEN End(p, Failed)
             ELSE Set(p, [plan[p] EXCEPT !.off = Checked(o)])
       \/ /\ plan[p].pc = "await"
          /\ IF o = "same" THEN End(p, Planned("official", o))
             ELSE IF o = "region" /\ plan[p].list # << >> THEN Set(p, [plan[p] EXCEPT !.off = o, !.pc = "proxies"])
             ELSE End(p, Failed)
       \/ /\ plan[p].pc = "race"
          /\ IF o = "same" THEN End(p, Planned("official", o))
             ELSE Set(p, RaceOver(p, o, plan[p].proxy))
    /\ UNCHANGED <<shared, loading, cancelled, events>>

\* The metadata could not be resolved: the official answer decides, and only
\* if it is the requested episode.
MetadataFails(p) ==
    /\ plan[p].pc = "initial" /\ ~plan[p].meta
    /\ IF plan[p].off # "pending" THEN End(p, Failed) ELSE Set(p, [plan[p] EXCEPT !.meta = TRUE])
    /\ UNCHANGED <<shared, loading, cancelled, events>>

\* ... which is awaited with the trust of the first race only.
OfficialDecides(p, o) ==
    /\ plan[p].pc = "initial" /\ plan[p].meta /\ plan[p].off = "pending"
    /\ End(p, IF Trusted(p, o) THEN Planned("official", o) ELSE Failed)
    /\ UNCHANGED <<shared, loading, cancelled, events>>

\* pgc_route_metadata finds no single episode: the official answer is final.
NoRoute(p, o) ==
    /\ plan[p].pc = "initial" /\ ~plan[p].meta
    /\ plan[p].off \in {"pending", o}
    /\ End(p, IF Plan(o) THEN Planned("unrouted", o) ELSE Failed)
    /\ UNCHANGED <<shared, loading, cancelled, events>>

\* probe_candidates, up to its probes: the hosts of the area, the remembered
\* one first, then by rank, bounded.
Eligible(p, area) == {h \in plan[p].hosts : h \in AllHosts \/ area = "hk"}

PreferredFirst(s, h) == IF h \in Range(s) THEN <<h>> \o Without(s, {h}) ELSE s

Bounded(s) == SubSeq(s, 1, IF Len(s) < MaxRouted THEN Len(s) ELSE MaxRouted)

\* route_target_area: what is remembered before what the title says.
TargetArea(hint) == IF memory # Unset THEN memory.area ELSE IF hint # Unset THEN hint ELSE "cn"

MetadataReady(p, hint) ==
    LET area   == TargetArea(hint)
        affine == hint # Unset \/ memory # Unset
    IN  /\ plan[p].pc = "initial" /\ ~plan[p].meta
        /\ IF plan[p].off = "same" THEN End(p, Planned("official", "same"))
           ELSE IF plan[p].off # "pending" /\ ~affine /\ Checked(plan[p].off) # "region" THEN End(p, Failed)
           ELSE \E s \in HostRankings(Eligible(p, area)) :
                  LET list == Bounded(PreferredFirst(s, IF memory # Unset THEN memory.host ELSE Unset))
                  IN  Set(p, [plan[p] EXCEPT !.pc = "probe", !.off = Checked(@), !.area = area,
                                 !.affine = affine, !.list = list,
                                 !.up = {h \in Range(list) : RecentlyHealthy(h)},
                                 !.due = {h \in Range(list) : ProbeDue(h)}])
        /\ UNCHANGED <<shared, loading, cancelled, events>>

\* probe_one: ready, a transport failure, or a redirection or server error.
Probed(p, h, outcome) ==
    /\ plan[p].pc = "probe" /\ h \in plan[p].due
    /\ health' = [health EXCEPT ![h] = CASE outcome = "ready" -> RecordSuccess(h)
                                         [] outcome = "failure" -> RecordFailure(h)
                                         [] OTHER -> RecordNeutralProbe(h)]
    /\ Set(p, [plan[p] EXCEPT !.due = @ \ {h}, !.up = IF outcome = "ready" THEN @ \cup {h} ELSE @])
    /\ UNCHANGED <<settings, memory, remembered, loading, cancelled, events>>

\* Every probe is done or the budget is over.  With a region to go for, the
\* first host races the official route; without, the official answer decides.
ProbesDone(p) ==
    LET list == Kept(plan[p].list, plan[p].up)
        off  == plan[p].off
    IN  /\ plan[p].pc = "probe"
        /\ IF list # << >> /\ plan[p].affine
           THEN Set(p, [plan[p] EXCEPT !.pc = "race", !.list = list, !.proxy = "pending"])
           ELSE IF off = "pending" THEN Set(p, [plan[p] EXCEPT !.pc = "await", !.list = list])
           ELSE IF list # << >> /\ off = "region" THEN Set(p, [plan[p] EXCEPT !.pc = "proxies", !.list = list])
           ELSE End(p, Failed)
        /\ UNCHANGED <<shared, loading, cancelled, events>>

(***************************************************************************)
(* Proxies.                                                                *)
(***************************************************************************)
\* should_train_route.
ShouldTrain(p) == plan[p].off = "region"

\* The first proxy wins the race with the resolved episode, or does not.
ProxyRaces(p, o) ==
    /\ plan[p].pc = "race" /\ plan[p].proxy = "pending"
    /\ IF o = "same"
       THEN IF ShouldTrain(p) /\ IsCurrent(p) THEN Set(p, [plan[p] EXCEPT !.pc = "train", !.proxy = o])
            ELSE End(p, Planned(Head(plan[p].list), o))
       ELSE Set(p, RaceOver(p, plan[p].off, "lost"))
    /\ UNCHANGED <<shared, loading, cancelled, events>>

\* The remaining ones, one by one, after a genuine restriction.
ProxyAnswers(p, o) ==
    /\ plan[p].pc = "proxies" /\ plan[p].list # << >>
    /\ IF o # "same" THEN Set(p, [plan[p] EXCEPT !.list = Tail(@)])
       ELSE IF IsCurrent(p) THEN Set(p, [plan[p] EXCEPT !.pc = "train"])
       ELSE End(p, Planned(Head(plan[p].list), o))
    /\ UNCHANGED <<shared, loading, cancelled, events>>

NoProxyLeft(p) ==
    /\ plan[p].pc = "proxies" /\ plan[p].list = << >>
    /\ End(p, Failed)
    /\ UNCHANGED <<shared, loading, cancelled, events>>

\* record_region_route: under another lock than the revision, which may have
\* changed since it was compared; a failing save is ignored.
Train(p) ==
    LET route == [host |-> Head(plan[p].list), area |-> plan[p].area]
    IN  /\ plan[p].pc = "train"
        /\ memory' = route
        /\ remembered' \in {route, remembered}
        /\ End(p, Planned(route.host, "same"))
        /\ UNCHANGED <<settings, health, loading, cancelled, events>>

(***************************************************************************)
(* Ends.                                                                   *)
(***************************************************************************)
Cancel(p) ==
    /\ plan[p].pc \notin {"idle", "done"} /\ p \notin cancelled
    /\ cancelled' = cancelled \cup {p}
    /\ UNCHANGED <<shared, loading, plan, events>>

\* The poll notices the cancellation or other settings, or the planning
\* deadline passes; or the caller of a load goes away.
Interrupt(p) ==
    /\ plan[p].pc \in Routing \cup {"permit", "loading"}
    /\ Set(p, [plan[p] EXCEPT !.pc = "done", !.result = Failed])
    /\ UNCHANGED <<shared, loading, cancelled, events>>

Return(p) ==
    /\ plan[p].pc = "done"
    /\ plan' = [plan EXCEPT ![p] = NoPlan] /\ cancelled' = cancelled \ {p}
    /\ UNCHANGED <<shared, loading, events>>

\* The process restarts: settings and routes are read from their files.
Restart ==
    /\ Happens /\ memory' = remembered
    /\ health' = [h \in Hosts |-> Unknown]
    /\ loading' = {} /\ plan' = [p \in Plans |-> NoPlan] /\ cancelled' = {}
    /\ UNCHANGED <<settings, remembered>>

RoutingNext ==
    \/ \E H \in SUBSET Hosts : UpdateSettings(H)
    \/ \E h \in Hosts : HealthAges(h)
    \/ ForgetRoute \/ Restart
    \/ \E p \in Plans :
          \/ \E input \in {"episode", "season"} : StartPlan(p, input)
          \/ LoadCredentials(p) \/ CredentialsBusy(p) \/ Loaded(p) \/ AcquireRoutePermit(p)
          \/ \E o \in Answers : OfficialAnswers(p, o) \/ OfficialDecides(p, o) \/ NoRoute(p, o)
          \/ MetadataFails(p) \/ \E hint \in {Unset, "hk"} : MetadataReady(p, hint)
          \/ \E h \in Hosts, o \in {"ready", "failure", "neutral"} : Probed(p, h, o)
          \/ ProbesDone(p)
          \/ \E o \in {"same", "lost"} : ProxyRaces(p, o) \/ ProxyAnswers(p, o)
          \/ NoProxyLeft(p) \/ Train(p) \/ Cancel(p) \/ Interrupt(p) \/ Return(p)

RoutingSpec == RoutingInit /\ [][RoutingNext]_routingVars

(***************************************************************************)
(* What must hold.                                                         *)
(***************************************************************************)
Ends(p) == plan[p].pc # "done" /\ plan'[p].pc = "done" /\ plan'[p].result.st = "ok"

\* Whatever races, fails or changes meanwhile: a plan that is returned was
\* not cancelled; it was made by the official route or by a host that the
\* settings in force enable, for an area the host serves and after it was
\* found reachable; and it is the episode that was asked for, unless there is
\* no single episode to compare it with.  A route is learnt only when the
\* official answer was a genuine restriction.
HonestStep ==
    /\ \A p \in Plans : Ends(p) =>
          LET r == plan'[p].result
          IN  /\ p \notin cancelled
              /\ r.route \in Hosts =>
                    /\ r.route \in settings.hosts \cap plan[p].up
                    /\ r.route \in AllHosts \/ plan[p].area = "hk"
                    /\ r.id = "same"
              /\ r.route = "official" => r.id = "same" \/ (plan[p].input = "episode" /\ r.id = "epid")
    /\ memory' # memory /\ memory' # Unset /\ plan' # [p \in Plans |-> NoPlan] =>
          \E p \in Plans : plan[p].off = "region" /\ plan[p].pc # "done" /\ plan'[p].pc = "done"

RoutingIsHonest == [][HonestStep]_routingVars
=============================================================================
