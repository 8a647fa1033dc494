CONSTANTS
    d1 = d1
    d2 = d2
    d3 = d3
    p1 = p1
    k1 = k1
    k2 = k2
    w1 = w1
    NoTask = NoTask
    Downloads = {d1}
    Playbacks = {p1}
    V2 = {d1, p1}
    Keys = {k1, k2}
    KeyOf <- KindKeys
    Watchers = {}
    Capacity = 1
    Slots = 1
    MaxCrashes = 0
    MaxPermanent = 0
SPECIFICATION FairSpec
PROPERTIES TasksEnd
