SPECIFICATION Spec
CONSTANTS
    c1 = c1
    c2 = c2
    r1 = r1
    r2 = r2
    r3 = r3
    none = none
    MaxFaults = 2
    MaxCrashes = 1
CONSTRAINTS
    TwoAtATime
    RequestsOfInterest
INVARIANTS
    OutputIsAccountedFor
    HistoryIsSound
    PlaybackIsFaithful
    ResolutionIsSound
    LibraryIsStable
    ServingIsSound
PROPERTIES
    NothingStaleIsUsed
CHECK_DEADLOCK FALSE
