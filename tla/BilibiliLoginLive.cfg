CONSTANTS
    w1 = w1
    w2 = w2
    w3 = w3
    k1 = k1
    a1 = a1
    a2 = a2
    None = None
    Starts = {s1}
    KeyStarts = {x1}
    Upkeeps = {u1}
    Requests = {r1}
    Webs = {w1}
    Keys = {k1}
    Refreshable = {w1}
    Accounts = {a1}
    AccountOf <- MCTinyAccountOf
    OnDisk <- MCOneDisk
    MaxEdits = 0
SPECIFICATION FairSpec
PROPERTIES ReservationEnds
