SPECIFICATION MCSpec
CONSTANTS
    s1 = s1
    k1 = k1
    Clients = {c1, c2, c3}
    Sessions = {s1}
    Chunks = {k1}
    SessionOf <- MCSessionOf
    Parallelism = 1
    MayAbandon = TRUE
    None = None
    Spans = {c1, c2}
    Resources = {r1, r2}
    MaxLength = 2
    Quota = 3
    Requests = {c1, c2}
    Items = {i1}
    MaxSnapshots = 1
    MaxVersions = 1
    Plans = {p1}
    Hosts = {h1, h2}
    AllHosts = {h1}
    Permits = 1
    Loaders = 1
    MaxRouted = 2
    MaxRevision = 1
    MaxEvents = 2
    Unset = Unset
    Schema = 9
    Legacy <- MCLegacy
    MaxSnaps = 2
    MaxSyncFaults = 1
    Absent = Absent
INVARIANTS
    CountersMatchGuards
    RemovalIsExclusive
    ClosedStaysClosed
    FlightsAreExact
    PagesAreCurrent
    SavedStateSurvives
    OnlyStaleUsageOversubscribes
PROPERTIES
    RemovalEnds
    RoutingIsHonest
    SnapshotsAreSound
CHECK_DEADLOCK FALSE
