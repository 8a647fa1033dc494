CONSTANTS
    d1 = d1
    d2 = d2
    d3 = d3
    p1 = p1
    k1 = k1
    k2 = k2
    w1 = w1
    NoTask = NoTask
    Downloads = {d1, d2, d3}
    Playbacks = {p1}
    V2 = {d2, d3, p1}
    Keys = {k1, k2}
    KeyOf <- PairKeys
    Watchers = {}
    Capacity = 1
    Slots = 1
    MaxCrashes = 1
    MaxPermanent = 1
SPECIFICATION Spec
CONSTRAINT Scenarios
INVARIANTS ViewsAgree DeletedIsUnreferenced NoOrphanedWork AcceptedOnce
PROPERTIES EndsAreKept
