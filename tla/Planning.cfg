SPECIFICATION Spec
CONSTANTS
    Sessions = {s1}
    People = {a1, a2}
    Admins = {a1}
    Approvers = {a2}
    Roles = {r1, r2}
    Items = {i1, i2}
    Tasks = {t1}
    None = None
    MaxWorld = 1
    MaxRequests = 2
    MaxClaims = 2
SYMMETRY Symmetry
INVARIANTS TypeOK DecidedAsReviewed TaskTruthful
PROPERTIES ImplementsRevisionLog NothingReplaced
CHECK_DEADLOCK FALSE
