CONSTANTS
    w1 = w1
    w2 = w2
    w3 = w3
    k1 = k1
    a1 = a1
    a2 = a2
    None = None
    Starts = {s1}
    KeyStarts = {x1}
    Upkeeps = {}
    Requests = {r1}
    Webs = {w1, w2, w3}
    Keys = {k1}
    Refreshable = {w1, w2}
    Accounts = {a1, a2}
    AccountOf <- MCSmallAccountOf
    OnDisk <- MCOnDisk
    MaxEdits = 1
SPECIFICATION Spec
SYMMETRY CookieSymmetry
INVARIANTS WorkIsReserved ReadyIsVerified
PROPERTIES OutcomesAreKept
