SPECIFICATION Spec
CONSTANTS
    p = p
    r = r
    Sessions = {p, r}
    Primary = p
    Items = {p, r}
    MaxFaults = 1
    MaxCrashes = 1
INVARIANTS
    OfferedMediaExists
    NoOrphanedFiles
