SPECIFICATION Spec
CONSTANTS
    Documents = {d1, d2}
    Sources = {s1, s2}
    Contents = {c1, c2}
    Jobs = {j1, j2}
    People = {p1}
    Callers = {j1, j2, p1}
    None = None
    MaxVersion = 3
    MaxChanges = 1
SYMMETRY Symmetry
INVARIANTS CompletedTruthful
PROPERTIES VersionsKept
CHECK_DEADLOCK FALSE
