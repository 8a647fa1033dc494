SPECIFICATION QuotaSpec
CONSTANTS
    Spans = {c1, c2}
    Resources = {r1, r2}
    MaxLength = 2
    Quota = 3
INVARIANTS
    QuotaCapsAdmission
